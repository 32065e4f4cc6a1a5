\* Two sessions and two hits; questions of up to three turns; words of four letters.
SPECIFICATION RecallSpec
CONSTANTS
  s1 = s1
  s2 = s2
  h1 = h1
  h2 = h2
  Sessions <- TwoSessions
  Hits <- TwoHits
  Matching <- TwoAndOne
  Alien = Alien
  AlienSize = 4
  MaxInject = 2
  TrimAt = 1
  Keep = 1
  TrimBytes = 2
  ReadCap = 3
  MaxAliens = 1
  MaxFaults = 1
  MAX_INJECT = 2
  MAX_FACTS = 1
  MIN_TERMS = 2
  MAX_MIN_REQUIRED = 3
  FACT_DF_MAX = 2
  MAX_FTS_TERMS = 2
  RECENCY_ABS_CAP = 10
  Never = Never
  Letters <- ThreeLetters
  OtherWords <- UpToFive
  Vocabulary <- SomePieces
  MaxPositions = 5
  Unk = Unk
  Cls = Cls
  Sep = Sep
  MaxWordChars = 3
INVARIANTS
  ShownIsLogged
  BestAnswer
  WordsMatch
PROPERTY
  LogRecovers
CHECK_DEADLOCK FALSE

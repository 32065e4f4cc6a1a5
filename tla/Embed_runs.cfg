\* The download by two processes, two runs over two turns, one slab of four.
SPECIFICATION EmbedSpec
CONSTANTS
  p1 = p1
  p2 = p2
  v1 = v1
  v2 = v2
  h1 = h1
  h2 = h2
  h3 = h3
  r1 = r1
  r2 = r2
  Runs <- TwoRuns
  Nobody = Nobody
  None = None
  Stale = Stale
  Widths <- TwoWidths
  Pinned = v1
  Slab = 1
  MaxTurns = 2
  MaxFailures = 1
  MaxEvents = 2
  Procs <- TwoRuns
  Hand = Hand
  Free = Free
  NFiles = 1
  Size = 2
  MaxKills = 1
  MaxFaults = 1
  MaxHand = 2
  Workers <- TwoRuns
  Heads <- ThreeHeads
  Rests <- TwoRests
  EmbedBatch = 2
  MaxSlab = 4
INVARIANTS
  OneWidth
  SearchTold
  BackoffHasCause
  LoadedIsRight
  EachItsOwn
PROPERTIES
  ArrivesInTheEnd
  IndexedInTheEnd
CHECK_DEADLOCK FALSE

\* Two readers of one session and the sweep of their child's transcript.
SPECIFICATION ChildrenTerse
CONSTANTS
  s1 = s1
  c1 = c1
  r1 = r1
  r2 = r2
  Sessions <- OneSession
  Children <- OneChild
  Readers <- TwoReaders
  Roles <- EveryRole
  NoSession = NoSession
  MaxSeq = 2
SYMMETRY ReaderSymmetry
INVARIANTS
  HonestWatermark
  NothingOwedLost
  ChildNeverQueued
PROPERTY
  ImplementsLedger

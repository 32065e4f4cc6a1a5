\* Two processes; two lines of every kind, or three that hooks alone read.
SPECIFICATION AppendSpec
CONSTANTS
  t1 = t1
  p1 = p1
  p2 = p2
  Procs <- TwoProcs
  Texts <- OneText
  Filtered = Filtered
  Bad = Bad
  NoTurn = NoTurn
  Modes <- AnyPass
  MaxLines = 3
  MaxShort = 2
SYMMETRY ProcSymmetry
INVARIANTS
  PrefixArchived
  CursorCovered
  NoFalseRefusal
  StrictAnswerHonest
PROPERTY
  ImplementsArchive

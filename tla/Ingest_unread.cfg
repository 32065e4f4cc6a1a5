\* Two overlapping passes and a line that is not JSON: the count is lost.
SPECIFICATION HooksOnly
CONSTANTS
  t1 = t1
  p1 = p1
  p2 = p2
  Procs <- TwoProcs
  Texts <- OneText
  Filtered = Filtered
  Bad = Bad
  NoTurn = NoTurn
  Modes <- AnyPass
  MaxLines = 3
  MaxShort = 2
SYMMETRY ProcSymmetry
INVARIANT
  CompleteRowHonest
CHECK_DEADLOCK FALSE

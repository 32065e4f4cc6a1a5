\* Two lanes over two facts; memories of up to three leaves.
SPECIFICATION FactsSpec
CONSTANTS
  l1 = l1
  l2 = l2
  p1 = p1
  p2 = p2
  Leaves <- TwoLeaves
  Procs <- TwoProcs
  NoRow = NoRow
  NoName = NoName
  Room = 3
  Lines = 2
  MaxCommands = 4
SYMMETRY Symmetry
INVARIANTS
  OrderKept
  LineFollows
  IndexIsBest
  LinksAgree
  SameIndex
PROPERTY
  PinKept
CHECK_DEADLOCK FALSE

\* Two hook processes and one reader; the SessionEnd worker runs, or may not.
SPECIFICATION HooksSpec
CONSTANTS
  s1 = s1
  c1 = c1
  r1 = r1
  p1 = p1
  p2 = p2
  Sessions <- OneSession
  Children <- OneChild
  Readers <- OneReader
  Roles <- Lane
  NoSession = NoSession
  MaxSeq = 1
  MaxTries = 2
  Procs <- TwoProcs
PROPERTY
  EndedComesToQueue

\* The worker never ran and the Stop hook had archived the session.
SPECIFICATION UnheardSpec
CONSTANTS
  s1 = s1
  c1 = c1
  r1 = r1
  p1 = p1
  p2 = p2
  Sessions <- OneSession
  Children <- OneChild
  Readers <- NoReader
  Roles <- Lane
  NoSession = NoSession
  MaxSeq = 1
  MaxTries = 2
  Procs <- TwoProcs
PROPERTY
  EndedIsQueued
CHECK_DEADLOCK FALSE

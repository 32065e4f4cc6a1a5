\* Two workers, three sessions, one incomplete, one failing; one run may be killed.
SPECIFICATION FatedSpec
CONSTANTS
  s1 = s1
  i1 = i1
  f1 = f1
  w1 = w1
  w2 = w2
  Sessions <- AllSessions
  Incomplete <- OneIncomplete
  Failing <- OneFailing
  Workers <- TwoWorkers
  Nobody = Nobody
  Cap = 2
  MaxEnds = 3
  MaxKills = 1
INVARIANTS
  WaitHasCause

  

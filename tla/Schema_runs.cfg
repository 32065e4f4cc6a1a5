\* Two processes and an old queue of three; four turns of years; series of four days.
SPECIFICATION SchemaSpec
CONSTANTS
  s1 = s1
  s2 = s2
  s3 = s3
  s4 = s4
  p1 = p1
  p2 = p2
  Procs <- TwoProcs
  Sessions <- SomeSessions
  Waiting <- OldQueue
  Versions <- AllVersions
  MaxKills = 1
  MaxOpens = 3
  MaxWork = 1
  MaxDays = 6
  Top = 7
  MaxBins = 6
  NoDay = NoDay
INVARIANTS
  CurrentIsWhole
  OldQueueKept
  CursorsReset
  TimesAreRight
PROPERTY
  UpgradeDone
CHECK_DEADLOCK FALSE

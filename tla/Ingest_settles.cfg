\* A transcript that grows under two hooks, one of which may be killed, and a
\* transcript that is rewritten and seen by the checkpoint skills' strict pass.
SPECIFICATION SettlingSpec
CONSTANTS
  t1 = t1
  t2 = t2
  p1 = p1
  p2 = p2
  Procs <- TwoProcs
  Texts <- TwoTexts
  Filtered = Filtered
  Bad = Bad
  NoTurn = NoTurn
  Modes <- AnyPass
  MaxLines = 2
  MaxRewrites = 1
  MaxKills = 1
INVARIANT
  OneTranscript
PROPERTY
  GrownSettles
CHECK_DEADLOCK FALSE

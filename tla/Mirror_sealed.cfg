\* A hook and a command, one folder, three seconds, a few events; one restore.
SPECIFICATION EventSpec
CONSTANTS
  p1 = p1
  p2 = p2
  d1 = d1
  Procs <- TwoProcs
  Hooks <- OneHook
  Nobody = Nobody
  Folders <- OneFolder
  Unset = Unset
  Off = Off
  Envs <- AnyOrOff
  Keeps <- OneOrTwo
  DefaultKeep = 1
  MaxClock = 3
  MaxLocal = 4
  MaxMirror = 2
  Dirs <- SomeDirs
  Home <- HomeDir
  Subrosa = "subrosa"
  Unresolved = Unresolved
INVARIANTS
  NeverDowngraded
  ReadableStaysOut
PROPERTIES
  NewestKept
  FinallySealed

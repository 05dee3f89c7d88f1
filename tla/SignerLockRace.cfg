SPECIFICATION Spec
CONSTANTS
  Procs = {epochRun, fspAuto}
  MaxInode = 3
  CleanExit = TRUE
INVARIANTS
  OneSigner
CHECK_DEADLOCK FALSE

SPECIFICATION Spec
CONSTANTS
  MaxBlock = 15
  Stride = 2
  RoundLen = 2
  EpochRounds = 4
  Plans = {{"commit", "reveal"}, {}}
  Registered = {0, 1, 2}
  Lookback = 9
  ResumeCap = 0
  Chunk = 3
  StatusEvery = 2
  LiveLag = 1
  Confirmations = 0
  Bodies = 20
  Window = 2
  MinFdc = 2
  None = None
  Faults = {}
  MaxFaults = 0
INVARIANTS
  SilenceIsReported
CHECK_DEADLOCK FALSE

SPECIFICATION Spec
CONSTANTS
  MaxEpoch = 1
  Streams = {fee}
  Entitled <- MCEntitled
  MaxCatchup = 8
  MaxSignRetries = 3
  MaxToken = 3
  FromEpoch = None
  None = None
  LogsRpc = TRUE
  ViewReverts = TRUE
  Faults = {"data"}
  MaxFaults = 1
  fee = fee
  direct = direct
INVARIANTS
  WatermarkPaid
CHECK_DEADLOCK FALSE

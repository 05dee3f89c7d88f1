SPECIFICATION Spec
CONSTANTS
  MaxEpoch = 2
  Streams = {fee}
  Entitled <- MCEntitled
  MaxCatchup = 8
  MaxSignRetries = 3
  MaxToken = 2
  FromEpoch = None
  None = None
  LogsRpc = TRUE
  ViewReverts = TRUE
  Faults = {"crash", "transient", "slow", "denied"}
  MaxFaults = 2
  fee = fee
  direct = direct
INVARIANTS
  TypeOK
  WatermarkSettled
  TerminalIsLoud
PROPERTIES
  WatermarkNeverRewinds

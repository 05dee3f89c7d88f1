SPECIFICATION FairSpec
CONSTANTS
  MaxEpoch = 2
  Streams = {fee}
  Entitled <- MCEntitled
  MaxCatchup = 8
  MaxSignRetries = 3
  MaxToken = 2
  FromEpoch = None
  None = None
  LogsRpc = TRUE
  ViewReverts = TRUE
  Faults = {"crash", "recreate", "rpc", "transient", "slow", "denied", "data", "logs", "node", "nonce", "lost", "reason", "revert"}
  MaxFaults = 1
  fee = fee
  direct = direct
PROPERTIES
  WatermarkCatchesUp
  StuckIsLoud

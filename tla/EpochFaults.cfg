SPECIFICATION Spec
CONSTANTS
  MaxEpoch = 2
  Streams = {fee, direct}
  Entitled <- MCEntitled
  MaxCatchup = 1
  MaxSignRetries = 3
  MaxToken = 2
  FromEpoch = None
  None = None
  LogsRpc = TRUE
  ViewReverts = TRUE
  Faults = {"crash", "recreate", "rpc", "transient", "slow", "denied", "data", "logs", "node", "nonce", "lost", "reason", "revert", "stale"}
  MaxFaults = 2
  fee = fee
  direct = direct
INVARIANTS
  WatermarkFinalized

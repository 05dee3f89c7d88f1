SPECIFICATION FairSpec
CONSTANTS
  MaxEpoch = 2
  Streams = {s1}
  None = None
  Faults = {"rpc", "denied", "transient", "node", "nonce", "lost", "slow", "reason", "report", "poll", "discovery", "revert", "expire", "data", "stale", "crash"}
  MaxFaults = 1
  FromEpochs = {None, 0, 2}
  Deployments = {{"auto"}, {"fsp auto"}}
CONSTANT Entitled <- AllEntitled
INVARIANTS
  TypeOK
  GoneIsClaimed
  TerminalReported
  UptimeTried
PROPERTY RewardsClaimed

SPECIFICATION FairSpec
CONSTANTS
  Registry <- MCRegistry
  Lower <- MCLower
  Upper <- MCUpper
  Plans <- MCPlans
  PerTxCap = 4
  FunderCrit = 4
  Processes = {"daemon", "apply"}
  Funder0 = 8
  MaxSpend = 2
  Slots = {"tx1", "tx2"}
  None = None
  Faults = {"rpc", "denied", "unsigned", "report", "node", "lost", "slow", "crash"}
  MaxFaults = 1
  submit = submit
  identity = identity
  stranger = stranger
INVARIANTS
  TypeOK
  NeverOverfunded
PROPERTIES
  KeepsBand
  BreachToppedUp

SPECIFICATION FairSpec
CONSTANTS
  Registry <- MCRegistry
  Lower <- MCLower
  Upper <- MCUpper
  Plans <- MCPlans
  PerTxCap = 4
  FunderCrit = 4
  Processes = {"daemon"}
  Funder0 = 9
  MaxSpend = 3
  Slots = {"tx1", "tx2"}
  None = None
  Faults = {"lost"}
  MaxFaults = 1
  submit = submit
  identity = identity
  stranger = stranger
PROPERTIES
  KeptFunded

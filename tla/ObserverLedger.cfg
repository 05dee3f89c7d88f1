SPECIFICATION FairSpec
CONSTANTS
  MaxBlock = 10
  Stride = 3
  RoundLen = 2
  EpochRounds = 2
  Plans = {{"commit", "reveal", "bitvote", "req", "fu"}, {"commit", "lateSig", "req"}, {"commit", "lateReveal", "mismatch"}}
  Registered = {0, 2}
  Lookback = 5
  ResumeCap = 8
  Chunk = 3
  StatusEvery = 2
  LiveLag = 1
  Confirmations = 0
  Bodies = 3
  Window = 2
  MinFdc = 2
  None = None
  Faults = {"crash", "rpc", "flush", "hour", "block", "probe", "lateFlip", "disk"}
  MaxFaults = 2
INVARIANTS
  TypeOK
  LedgerExact
  NoHole
  RegistrationNotStale
  HeaderKeepsUp
PROPERTIES
  RecordsAreFinal
  EventuallyReplayed

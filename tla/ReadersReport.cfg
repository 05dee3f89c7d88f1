SPECIFICATION Spec
CONSTANTS
  Parts = {"registration", "progress", "rewards", "credentials"}
  EpochTicks = 12
  Far = 5
  Tight = 1
  TightWindow = 8
  WindowTicks = 3
  MaxLate = 1
  MaxClock = 27
  Unknown = Unknown
  RegFaults = {"gas", "entity", "weight", "rpc", "raise"}
  MaxTrouble = 2
  Signers = {"a", "b", "c"}
  Hashes = {"x", "y"}
  Weight <- MCWeight
  Threshold = 2
  Chunk = 2
  MaxRequests = 2
  WindowStart = 1
  MaxBlock = 7
  NoReport = NoReport
  ScanFaults = {"rpc"}
  MaxScanFaults = 1
  Voters = {0, 1, 2, 3}
  Me = 0
  TreeEpochs = {1, 2}
  Ranks <- MCRanks
  Rewardees <- MCRewardees
  FileFaults = {"damaged", "misfiled"}
  MaxFileFaults = 1
  Networks = {1, 2}
  Capabilities = {"claim", "fsp"}
  EnvFiles <- MCEnvFiles
  NoBundle = NoBundle
  MaxMint = 3
  ImportFaults = {"flawed", "expired", "stops"}
  MaxImportFaults = 1
INVARIANTS
  TypeOK
  WindowWatched
  ExclusionOnFile
  CompleteIsExact
  FloorIsSound
  SignedWasPublished
  ClaimIsPayable
  IntactFileAccepted
  NoRevokedToken
  SettingsKept
PROPERTIES
  ProgressGrows
CHECK_DEADLOCK FALSE

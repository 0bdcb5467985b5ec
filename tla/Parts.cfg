SPECIFICATION MCSpec
CONSTANTS
  ByteBits = 1
  BurstGapUs = 15000
  ShortGapUs = 5000
  MaxDropped = 2
  MaxBurstEdges = 12
  Messages <- SomeMessages
  Scales <- Speeds
  ScanSize = 4
  BufferSize = 8
  NoKey = NoKey
  None = None
  k1 = k1
  k2 = k2
  Keymap <- SomeKeymap
  Parent = 24000
  RateMin = 400000
  RateMax = 1200000
  Divs = {1}
  BootCfg1 = 66
  Requests <- SomeRates
  Callers = {"zone", "sysfs"}
  Codes <- SomeCodes
  MaxReads = 120
  IdleReads = 40
  HeaderCells = 2
  MinCells = 2
  Images <- SomeImages
  Containers <- SomeContainers
  MaxLoads = 2
  Payloads <- SomePayloads
INVARIANTS PartsTypeOK
  BurstsAlternate ShownWasSent NothingWaits
  NeverOverclocks BelievedIsReal OneSampleIsDiluted
  ZeroMeansFinished FindsEveryTree LoneRequestTakesEffect
PROPERTIES
  WholeMessageIsShown NoPulseIsLost
  ScansArePublishedOnce KeyGoesWithItsScan
  Arrives ViewSettles
CHECK_DEADLOCK FALSE

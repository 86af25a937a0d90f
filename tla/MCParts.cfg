SPECIFICATION PartsSpec
CONSTANTS
  MaxFrames = 6
  NBytes <- MCNBytes
  MaxBufferBytes = 3
  ReconnectDelay = 1
  ReconnectMax = 3
  RcvBuf = 2
  MaxLinkChanges = 3
  Subjects = {"buffer", "import", "export", "buckets"}
  Present <- MCPresent
  Attempts = 2
  MaxDaysToListIndividually = 2
  PageSize = 2
  Row <- MCRow
  DayLength = 2
  Lag = 1
  MaxTime = 6
  MaxImports = 2
  MaxImportFaults = 2
  Stored <- MCStored
  Requests <- MCRequests
  MaxExports = 2
  MaxExportFaults = 2
  Records <- MCRecords
  Step = 2
  MaxRecords = 4
CHECK_DEADLOCK FALSE
INVARIANTS
  TypeOK
  Conservation
  BytesExact
  CaptureOrder
  MemoryBound
  EndTellsTruth
  OneObjectPerDay
  ExitCodeTellsTruth
  PathIsWhole
  RowsAreBest
  PositionIsOneReading
PROPERTIES
  DropsAreCounted
  TrimDropsOldestOnly
  ListenerRecovers

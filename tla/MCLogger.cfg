SPECIFICATION Spec
CONSTANTS
  MaxFrames = 4
  MaxBufferBytes = 2
  MaxDiskBytes = 2
  Stamp <- OneDay
  DayLength = 10
  MaxEnds = 1
  MaxEvictedRows = 2
  Faults = {"disk", "put"}
INVARIANTS
  TypeOK
  NoSilentLoss
  NoDuplicateRows
PROPERTIES
  ShutdownSavesBuffer

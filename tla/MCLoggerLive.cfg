SPECIFICATION FairSpec
CONSTANTS
  MaxFrames = 2
  MaxBufferBytes = 2
  MaxDiskBytes = 2
  Stamp <- StepBack
  DayLength = 10
  MaxEnds = 1
  MaxEvictedRows = 2
  Faults = {"disk", "fsync", "unlink", "put", "lostAnswer"}
INVARIANTS
  NoSilentLoss
PROPERTIES
  CustodySpec
  StopCompletes
  FramesLeaveRam
  SpoolDrains

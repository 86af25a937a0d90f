SPECIFICATION Spec
CONSTANTS
  MaxFrames = 2
  MaxBufferBytes = 2
  MaxDiskBytes = 2
  Stamp <- OneDay
  DayLength = 10
  MaxEnds = 1
  MaxEvictedRows = 2
  Faults = {"fsync", "put", "power"}
INVARIANTS
  PlacedSurvivesPowerCut

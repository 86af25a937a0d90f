SPECIFICATION Spec
CONSTANTS
  MaxFrames = 3
  MaxBufferBytes = 2
  MaxDiskBytes = 2
  Stamp <- StepBack
  DayLength = 10
  MaxEnds = 1
  MaxEvictedRows = 2
  Faults = {"disk", "put", "unlink", "kill", "power"}
INVARIANTS
  NoSilentLoss
  PlacedSurvivesPowerCut
PROPERTIES
  CustodySpec

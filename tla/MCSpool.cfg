SPECIFICATION Spec
CONSTANTS
  Object = {1, 2}
  Rank <- MCRank
  Size <- MCSize
  Rows <- MCSize
  Thread = {"loop", "stop"}
  MaxObjects = 1
  MaxEvictedRows = 1
  MaxDiskBytes = 2
  Faults = {"disk", "put", "lostAnswer", "cancel", "kill", "power"}
INVARIANTS
  TypeOK
  NothingVanishes
  TmpsAreLive
  PlacedIsDurable
PROPERTIES
  EvictionsAreCounted

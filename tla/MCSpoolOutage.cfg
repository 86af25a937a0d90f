SPECIFICATION Spec
CONSTANTS
  Object = {1, 2, 3}
  Rank <- MCRank
  Size <- MCSize
  Rows <- MCSize
  Thread = {"loop"}
  MaxObjects = 2
  MaxEvictedRows = 1
  MaxDiskBytes = 2
  Faults = {"disk", "fsync", "read", "outage", "kill", "power"}
INVARIANTS
  DiskCap


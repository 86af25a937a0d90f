SPECIFICATION Spec
CONSTANTS
  MaxObject = 2
  Message = {"m"}
  Bucket = {1, 2}
  Field = {1, 2}
  Null = Null
  Ingested <- MCErasing
  Run = {"cron", "operator"}
  Modes <- MCModes
  Backend = {1, 2, 3}
  MaxFaults = 0
PROPERTIES
  NoReadingErased

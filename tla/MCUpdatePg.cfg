SPECIFICATION FairSpec
CONSTANTS
  MaxObject = 2
  Message = {"m"}
  Bucket = {1, 2}
  Field = {1, 2}
  Null = Null
  Ingested <- MCIngested
  Run = {"cron", "operator"}
  Modes <- MCModes
  Backend = {1, 2, 3}
  MaxFaults = 2
INVARIANTS
  TypeOK
  OneWriter
  SignalsOnlyOrphans
  RecordedIsWritten
PROPERTIES
  SchemaChangesAreAudited
  FinishedRunIsReplay
  ImplementsDerived
  EveryObjectIngested

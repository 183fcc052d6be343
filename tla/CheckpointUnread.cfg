SPECIFICATION DurableSpec
CONSTANTS
  Ordered = TRUE
  RebuildsSucceed = TRUE
  Readable = FALSE
  MaxRecords = 4
  MaxStops = 2
INVARIANTS
  CheckpointIsDurable
CHECK_DEADLOCK FALSE

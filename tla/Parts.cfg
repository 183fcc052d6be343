SPECIFICATION PartsSpec
CONSTANTS
  east = east
  west = west
  q1 = q1
  q2 = q2
  h1 = h1
  h2 = h2
  r1 = r1
  Ordered = TRUE
  RebuildsSucceed = TRUE
  Readable = TRUE
  MaxRecords = 4
  MaxStops = 2
  Region = {east, west}
  Primary = east
  Request = {q1, q2}
  Fencing = TRUE
  MaxCommits = 3
  MaxLeases = 1
  MaxPromotions = 2
  Human = {h1, h2}
  Resident = {r1}
  Watched = h2
  Settles = FALSE
  Stalls = FALSE
  Refusals = 2
  Failures = 2
  MaxMishaps = 1
INVARIANTS
  PartsTypeOK
  StopsKeepRecords
  CheckpointIsDurable
  OneRegionWrites
  EpochsOrderRows
  TurnsBeginAble
  AnnouncedTurnIsHeld
  NobodyIsPassedOver
PROPERTIES
  RecoverableSpec
  ApprovedRowsSurvive
  CheckpointNeverRegresses
  WriteClaimIsReleased
  CheckpointsNeverRegress
  OnlyStuckScenesClose
  OverdueTurnsEnd
CHECK_DEADLOCK FALSE

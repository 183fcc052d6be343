SPECIFICATION Spec
CONSTANTS
  p1 = p1
  p2 = p2
  r1 = r1
  r2 = r2
  i1 = i1
  i2 = i2
  h1 = h1
  h2 = h2
  c1 = c1
  c2 = c2
  c3 = c3
  c4 = c4
  Nobody = Nobody
  Gone = Gone
  Free = Free
  Process = {p1, p2}
  Room = {r1, r2}
  Intent = {i1, i2}
  Hash = {h1, h2}
  Client = {c1, c2}
  IntentOf <- Crossed
  HashOf <- CrossedHashes
  RoomOf <- TwoRooms
  Capacity = 2
  MaxSends = 1
  MaxCrashes = 0
  MaxPurges = 0
INVARIANTS
  LostResponseIsRecoverable
CHECK_DEADLOCK FALSE

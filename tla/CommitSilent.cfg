SPECIFICATION Spec
CONSTANTS
  p1 = p1
  p2 = p2
  r1 = r1
  world = world
  e1 = e1
  e2 = e2
  c1 = c1
  NoOwner = NoOwner
  Process = {p1, p2}
  Room = {r1}
  World = world
  Entity = {e1, e2}
  Claim = {c1}
  Record <- TalkAndSilent
  InitialVersion <- OneSeededEntity
  Checkpointer = {p1}
  SeedSeq = 1
  Ttl = 1
  MaxClock = 0
  MaxFence = 2
  MaxJournal = 3
  MaxBoot = 0
INVARIANTS
  NumberedRowsAreSeen
CHECK_DEADLOCK FALSE

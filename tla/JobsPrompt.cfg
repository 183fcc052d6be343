SPECIFICATION PartsSpec
CONSTANTS
  w1 = w1
  w2 = w2
  a1 = a1
  r1 = r1
  r2 = r2
  p1 = p1
  p2 = p2
  i1 = i1
  i2 = i2
  h1 = h1
  c1 = c1
  c2 = c2
  Nobody = Nobody
  Gone = Gone
  Free = Free
  Worker = {w1, w2}
  Job = {1, 2}
  Actor = {a1}
  Room = {r1, r2}
  MaxAttempts = 2
  Prompt = TRUE
  MaxClaims = 3
  MaxFailures = 1
INVARIANTS
  TypeOK
  ClaimsAreExclusive
  OneHeartbeatPerRoom
  AnsweredOnce
PROPERTIES
  SettledJobsRest
  EveryJobSettles
  EveryRequestEnds
CHECK_DEADLOCK FALSE

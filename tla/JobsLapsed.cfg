SPECIFICATION Spec
CONSTANTS
  Worker = {w1}
  Job = {1, 2}
  Actor = {a1}
  Room = {r1}
  MaxAttempts = 2
  Prompt = FALSE
  MaxClaims = 2
  MaxFailures = 0
INVARIANTS
  OneHeartbeatPerRoom
CHECK_DEADLOCK FALSE

SPECIFICATION Spec
CONSTANTS
  r1 = r1  r2 = r2  i1 = i1  i2 = i2
  NoRecord = NoRecord
  Replica <- OneReplica
  Incident <- OneIncident
  Family <- NoFamily
  Capacity = 1
  QueryLimit = 2
  Cooldown = 2
  AutoResolve = TRUE
  Completed = TRUE
  Failures = {"plane"}
  MaxSignals = 4
  MaxManual = 1
  MaxNow = 4
  MaxFaults = 1
INVARIANT OneTicketAtATime
INVARIANT CommentCooldown
CHECK_DEADLOCK FALSE

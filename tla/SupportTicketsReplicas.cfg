SPECIFICATION Spec
CONSTANTS
  r1 = r1  r2 = r2  i1 = i1  i2 = i2
  NoRecord = NoRecord
  Replica <- TwoReplicas
  Incident <- OneIncident
  Family <- NoFamily
  Capacity = 1
  QueryLimit = 2
  Cooldown = 2
  AutoResolve = TRUE
  Completed = TRUE
  Failures = {}
  MaxSignals = 2
  MaxManual = 0
  MaxNow = 0
  MaxFaults = 0
SYMMETRY BothReplicas
INVARIANT OneTicketAtATime
CHECK_DEADLOCK FALSE

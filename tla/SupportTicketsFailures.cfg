SPECIFICATION FairSpec
CONSTANTS
  r1 = r1  r2 = r2  i1 = i1  i2 = i2
  NoRecord = NoRecord
  Replica <- OneReplica
  Incident <- TwoIncidents
  Family <- OneIncident
  Capacity = 1
  QueryLimit = 2
  Cooldown = 1
  AutoResolve = TRUE
  Completed = TRUE
  Failures = {"store", "plane", "lost", "state", "crash"}
  MaxSignals = 3
  MaxManual = 1
  MaxNow = 1
  MaxFaults = 1
INVARIANT TypeOK
INVARIANT CaughtUp
PROPERTY KeepsLedger
PROPERTY QueueDrains
CHECK_DEADLOCK FALSE

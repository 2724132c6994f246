SPECIFICATION FairSpec
CONSTANTS
  p1 = p1  p2 = p2  s1 = s1  web = web  db = db
  NoSelector = NoSelector  Absent = Absent  Gone = Gone
  Pod <- TwoPods
  Service <- OneService
  PodName <- SameName
  Label <- TwoLabels
  Optional <- OnlyServices
  ListLimit = 3
  MaxChanges = 4
  MaxBreaks = 1
INVARIANT TypeOK
INVARIANT RefCounted
INVARIANT SelectsExact
INVARIANT HoldsTheCluster
PROPERTY CatchesUp
CHECK_DEADLOCK FALSE

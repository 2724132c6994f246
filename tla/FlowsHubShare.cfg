SPECIFICATION FairSpec
CONSTANTS
  u = u  v = v  s1 = s1  s2 = s2
  NoStream = NoStream
  Viewer <- TwoViewers
  Stream <- TwoStreams
  MaxFaults = 1
  MaxTwice = 1
INVARIANT TypeOK
INVARIANT OneStream
INVARIANT ToldTheState
PROPERTY EveryoneServed
CHECK_DEADLOCK FALSE

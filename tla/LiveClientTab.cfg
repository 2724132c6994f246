SPECIFICATION FairSpec
CONSTANTS
  a = a  b = b  k1 = k1  k2 = k2  k3 = k3
  NoSocket = NoSocket
  Sub <- TwoSubs
  Socket <- ThreeSockets
  MaxVisits = 2
  MaxFaults = 2
INVARIANT TypeOK
INVARIANT CarriesSubs
INVARIANT NeverStranded
INVARIANT SuspendedStaysDown
PROPERTY ServedWhenAlone
CHECK_DEADLOCK FALSE

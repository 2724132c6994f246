SPECIFICATION Spec
CONSTANTS
  a = a  b = b  c = c  r1 = r1  r2 = r2
  Nobody = Nobody
  Person <- ThreePeople
  PlatformAdmin <- OnePlatformAdmin
  Request <- TwoRequests
  MaxRequests = 3
  MaxFaults = 1
SYMMETRY Symmetry
INVARIANT TypeOK
INVARIANT AdminLeft
INVARIANT Nested
PROPERTY RefusedIsUndone
CHECK_DEADLOCK FALSE

SPECIFICATION FairSpec
CONSTANTS
  q1 = q1  q2 = q2  q3 = q3  w1 = w1  u1 = u1  u2 = u2
  NoRequest = NoRequest
  Reader <- ThreeReaders
  Writer <- OneWriter
  Url <- TwoUrls
  Oversize <- Sometimes
  CacheMs = 0
  StaleMs = 1
  MaxEntries = 1
  MaxNow = 2
  MaxFaults = 1
INVARIANT TypeOK
INVARIANT MonotonicReads
INVARIANT QuietWriteVisible
PROPERTY EveryReadAnswered
CHECK_DEADLOCK FALSE

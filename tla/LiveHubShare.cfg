SPECIFICATION FairSpec
CONSTANTS
  c1 = c1  c2 = c2  a = a  b = b  pods = pods  x = x
  w1 = w1  w2 = w2  w3 = w3
  NoWatcher = NoWatcher
  Conn <- TwoConns
  Panel <- ThreePanels
  Key <- OneKey
  Obj <- OneObj
  Watcher <- ThreeWatchers
  MaxSubs = 2
  MaxChanges = 2
  MaxFaults = 2
  MaxBad = 1
INVARIANT TypeOK
INVARIANT SameView
INVARIANT OneWatchPerKey
PROPERTY PanelsFollow
CHECK_DEADLOCK FALSE

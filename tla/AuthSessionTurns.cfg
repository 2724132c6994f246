SPECIFICATION FairSpec
CONSTANTS
    Req = {p1, p2}
    Replica = {s1, s2}
    Kind = {"plain", "context", "switch", "logout"}
    Org = {acme, globex}
    Personal = personal
    Entitled = {acme, globex}
    LoginGroups = {acme}
    FreshGroups = {acme, globex}
    Rotate = TRUE
    AccessTtl = 1
    AbsoluteTtl = 1
    NoSession = NoSession
    MaxNow = 2
    MaxActive = 1
    MaxFaults = 1
INVARIANTS
    CapHolds
    
PROPERTIES
    KeepsTenant
    EveryRequestAnswered

SPECIFICATION Spec
CONSTANTS
    Req = {p1, p2, p3}
    Replica = {s1, s2}
    Kind = {"plain", "context", "logout"}
    Org = {acme}
    Personal = personal
    Entitled = {acme}
    LoginGroups = {}
    FreshGroups = {acme}
    Rotate = TRUE
    AccessTtl = 1
    AbsoluteTtl = 9
    NoSession = NoSession
    MaxNow = 1
    MaxActive = 3
    MaxFaults = 1
SYMMETRY Symmetry
INVARIANTS
    TypeOK
    SingleFlight
    
PROPERTIES
    RecreatedByOverlapOnly

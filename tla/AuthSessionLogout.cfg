SPECIFICATION Spec
CONSTANTS
    Req = {p1, p2, p3}
    Replica = {s1}
    Kind = {"plain", "logout"}
    Org = {acme, globex}
    Personal = personal
    Entitled = {acme, globex}
    LoginGroups = {acme}
    FreshGroups = {acme, globex}
    Rotate = TRUE
    AccessTtl = 1
    AbsoluteTtl = 9
    NoSession = NoSession
    MaxNow = 1
    MaxActive = 3
    MaxFaults = 0
SYMMETRY Symmetry
INVARIANTS
    LogoutFinal

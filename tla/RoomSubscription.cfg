SPECIFICATION Spec
CONSTANTS
    m1 = m1
    m2 = m2
    u1 = u1
    u2 = u2
    e1 = e1
    p1 = p1
    p2 = p2
    Machine = {m1}
    User = {u1, u2}
    Endpoint = {e1}
    Proc = {p1, p2}
    NoUser = NoUser
    NoMachine = NoMachine
    MaxUpserts = 1
    MaxFaults = 1
    MaxLost = 1
SYMMETRY Symmetry
INVARIANTS
    TypeOK
    NoStranded
PROPERTIES
    OthersKeepBrowsers
CHECK_DEADLOCK FALSE

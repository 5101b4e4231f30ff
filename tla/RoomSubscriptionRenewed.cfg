SPECIFICATION Spec
CONSTANTS
    m1 = m1
    m2 = m2
    u1 = u1
    u2 = u2
    e1 = e1
    p1 = p1
    p2 = p2
    Machine = {m1}
    User = {u1}
    Endpoint = {e1}
    Proc = {p1, p2}
    NoUser = NoUser
    NoMachine = NoMachine
    MaxUpserts = 2
    MaxFaults = 0
    MaxLost = 0
SYMMETRY Symmetry
PROPERTIES
    OnlyNotifiedDeleted
CHECK_DEADLOCK FALSE

SPECIFICATION Spec
CONSTANTS
    n1 = n1
    a1 = a1
    a2 = a2
    s1 = s1
    s2 = s2
    t1 = t1
    t2 = t2
    p1 = p1
    p2 = p2
    Student = {n1}
    Account = {a1, a2}
    Session = {s1, s2}
    Token = {t1, t2}
    Proc = {p1, p2}
    NoStudent = NoStudent
    NoAccount = NoAccount
    NoSession = NoSession
    NoToken = NoToken
    MaxVersion = 2
    Lifetime = 1
    MaxClock = 1
SYMMETRY Symmetry
INVARIANTS
    TypeOK
    ConsentedSessions
    SessionExpiry
    AuditTrue
PROPERTIES
    EndedStaysEnded

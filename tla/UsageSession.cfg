SPECIFICATION Spec
CONSTANTS
    m1 = m1
    u1 = u1
    u2 = u2
    p1 = p1
    p2 = p2
    s1 = s1
    s2 = s2
    male = male
    female = female
    Machine = {m1}
    User = {u1, u2}
    Usage = {s1, s2}
    Proc = {p1, p2}
    Gender = {male, female}
    MachineGender <- MCMachineGender
    Threshold = 1
    MaxClock = 1
    MaxFaults = 1
    NoUser = NoUser
    NoGender = NoGender
    NoUsage = NoUsage
    NoProc = NoProc
    NoMachine = NoMachine
    Free = Free
SYMMETRY Symmetry
INVARIANTS
    TypeOK
    OneOpenSession
    ValidPeriod
    LockDiscipline
    NoticeOnce
    NoticeRight
PROPERTIES
    ClosedFrozen
    TakeoverSound
    DeletedFrozen
    NoStealing
    GenderSegregated
    ImplementsOccupancy

SPECIFICATION Spec
CONSTANTS
    m1 = m1
    d1 = d1
    d2 = d2
    Machine = {m1}
    Device = {d1, d2}
    NoDevice = NoDevice
    MaxChanges = 0
    MaxTimers = 1
    MaxEdits = 1
    MaxFaults = 1
SYMMETRY Symmetry
INVARIANTS
    TypeOK
    ShownIsOfMappedDevice
    AlertIsNews

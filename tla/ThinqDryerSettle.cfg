SPECIFICATION FairSpec
CONSTANTS
    m1 = m1
    d1 = d1
    d2 = d2
    Machine = {m1}
    Device = {d1}
    NoDevice = NoDevice
    MaxChanges = 1
    MaxTimers = 0
    MaxEdits = 0
    MaxFaults = 0
PROPERTIES
    StoppedIsClosed

SPECIFICATION FairSpec
CONSTANTS
    m1 = m1
    d1 = d1
    d2 = d2
    Machine = {m1}
    Device = {d1}
    NoDevice = NoDevice
    MaxChanges = 1
    MaxTimers = 1
    MaxEdits = 0
    MaxFaults = 1
PROPERTIES
    StartupFindsRunning
    StoppedIsShown
    PushesGetTheirTurn

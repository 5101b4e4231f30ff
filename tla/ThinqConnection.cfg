SPECIFICATION FairSpec
CONSTANTS
    d1 = d1
    Device = {d1}
    NoDevice = NoDevice
    Base = 1
    Long = 2
    MaxTroubles = 2
INVARIANTS
    TypeOK
    SocketOwned
PROPERTIES
    GateHolds
    Reconnects
    MappedIsRegistered

SPECIFICATION FairSpec
CONSTANTS
    low1 = low1
    low2 = low2
    high1 = high1
    NoReading = NoReading
    Reading = {low1, low2, high1}
    High = {high1}
    QueueLimit = 1
    MaxUpdates = 1
    MaxTroubles = 1
INVARIANTS
    TypeOK
    CacheTellsSession
PROPERTIES
    NoEarlyIdle
    

SPECIFICATION FairSpec
CONSTANTS
    m1 = m1
    m2 = m2
    s1 = s1
    s2 = s2
    Machine = {m1, m2}
    Site = {s1, s2}
    SiteOf <- OwnSites
    NoMachine = NoMachine
    NoAge = NoAge
    Grace = 2
    MaxTroubles = 2
INVARIANTS
    TypeOK
PROPERTIES
    AlertJustified
    ConnectivityIsShown

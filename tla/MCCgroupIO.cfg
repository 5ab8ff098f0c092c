SPECIFICATION IOFairSpec
CONSTANTS
    d1 = d1
    n1 = n1
    n2 = n2
    None = None
    Device <- MCDevice
    Number <- MCNumber
    NumberOf <- MCNumberOf
    V1Stats <- MCV1Stats
    V2Stats <- MCV2Stats
INVARIANTS
    MountTypeOK
    SettledMapsAreTrue
    IOUsageExact
    ReportIsTrue
PROPERTIES
    MapsConverge

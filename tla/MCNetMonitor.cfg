SPECIFICATION NetSpec
CONSTANTS
    c1 = c1
    c2 = c2
    NoContainer = NoContainer
    Host = Host
    Container <- TwoContainers
    MaxConn = 1
    MaxPending = 1
    MaxIface = 2
    MaxBytes = 2
    PrefixOf <- OnePrefix
SYMMETRY Symmetry
INVARIANTS
    NetTypeOK
    ChargedForOwnTraffic
    RunningContainerFiled
    RateIsTraffic
CHECK_DEADLOCK FALSE

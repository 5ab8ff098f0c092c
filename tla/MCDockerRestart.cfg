SPECIFICATION FairSpec
CONSTANTS
    c1 = c1
    cpu = cpu
    net = net
    Container <- OneContainer
    Subscriber <- OneMonitor
    MaxConn = 2
    MaxPending = 1
PROPERTIES
    ResilientToDockerRestart
CHECK_DEADLOCK FALSE

SPECIFICATION MonitorFairSpec
CONSTANTS
    c1 = c1
    w1 = w1
    w2 = w2
    NoWorker = NoWorker
    NoStats = NoStats
    Container <- OneContainer
    Worker <- TwoWorkers
    NumCPU = 2
    CgroupV2 = TRUE
    MaxConn = 1
    MaxPending = 1
    MaxTime = 1
PROPERTIES
    DeletedCgroupEndsMonitoring
CHECK_DEADLOCK FALSE

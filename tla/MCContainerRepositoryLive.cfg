SPECIFICATION FairSpec
CONSTANTS
    c1 = c1
    cpu = cpu
    net = net
    Container <- OneContainer
    Subscriber <- Monitors
    MaxConn = 1
    MaxPending = 1
PROPERTIES
    RegistrationCompletes
    EverySubscriberConverges
CHECK_DEADLOCK FALSE

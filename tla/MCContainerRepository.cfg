SPECIFICATION Spec
CONSTANTS
    c1 = c1
    cpu = cpu
    net = net
    Container <- OneContainer
    Subscriber <- Monitors
    MaxConn = 2
    MaxPending = 1
SYMMETRY Symmetry
INVARIANTS
    TypeOK
PROPERTIES
    ImplementsStream
CHECK_DEADLOCK FALSE

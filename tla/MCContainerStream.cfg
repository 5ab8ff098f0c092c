SPECIFICATION FairSpec
CONSTANTS
    c1 = c1
    c2 = c2
    Container <- MCContainer
    MaxConn = 2
    MaxPending = 2
INVARIANTS
    TypeOK
    BeliefIsTruth
    NoContainerForgotten
PROPERTIES
    BeliefConverges
CHECK_DEADLOCK FALSE

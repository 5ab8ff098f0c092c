SPECIFICATION Spec
CONSTANTS
    NoStat = NoStat
    MaxTotal = 3
INVARIANTS
    TypeOK
    FractionOfHost
    TornCopyIsFractionOrNaN

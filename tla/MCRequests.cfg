CONSTANTS
    c1 = c1
    c2 = c2
    Container = {c1, c2}
    Usage <- MCUsage
    NoCgroup = NoCgroup
    Limit <- MCLimit
    Modulus = 1073741824
    Unlimited = 1073741823
    Labelled = {c1}
    MemInfoFile <- MCMemInfoFile
    Unreadable = Unreadable
    None = None
SPECIFICATION RequestSpec
INVARIANTS
    RequestTypeOK
    AnswerComplete
    HostSums
    SwapReported
    

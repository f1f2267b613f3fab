SPECIFICATION FairSpec
CONSTANTS
    p1 = p1
    p2 = p2
    NoProc = NoProc
    Procs = {p1, p2}
    TTL = 4
    Deadline = 2
    Late = 1
    Idle = 1
    ClaimLimit = 2
    RenewLimit = 1
    MaxToken = 3
    MaxErrors = 1
INVARIANTS LeaseOutlastsSession
PROPERTIES ImplementsExclusiveSession ValidationFences ServedAgain
CHECK_DEADLOCK FALSE

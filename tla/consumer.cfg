SPECIFICATION FairSpec
CONSTANTS
    p1 = p1
    k1 = k1
    k2 = k2
    l1 = l1
    l2 = l2
    Partitions = {p1}
    Lanes = {l1, l2}
    Keys = {k1, k2}
    KeyOf <- MCKeyOf
    LaneOfKey <- MCLaneOfKey
    LogLen = 3
    LaneCap = 1
    InitialAttempts = 1
    BlockAttempts = 2
    MaxFaults = 1
    MaxRebalances = 1
INVARIANTS CommitNeverSkips KeyOrder
PROPERTIES ImplementsLog EverySettled CommitCatchesUpUnlessReassigned
CHECK_DEADLOCK FALSE

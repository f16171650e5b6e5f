\* Every failure, on an agent with two cores and on a costlier one.
CONSTANTS
    n1 = n1
    n2 = n2
    User = {u1, u2}
    Node = {n1, n2}
    Cores <- MCCores
    Multiplier <- MCMultiplier
    Limit = 2
    MaxSends = 2
    MaxChanges = 1
    MaxFaults = 1
    Faults = {"soft", "lost", "db", "crash", "restart"}
SPECIFICATION FairSpec
INVARIANTS
    NeverOverbilled
    LossExplained
    HistoryExplained
    LimitedExplained
PROPERTY OverLimitIsLimited
CHECK_DEADLOCK FALSE

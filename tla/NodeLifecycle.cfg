\* Every failure, on fresh and on upgraded installs.
CONSTANTS
    Node = {n1}
    Token = {t1, t2}
    Proc = {p1, p2}
    None = None
    Installs = {"fresh", "upgraded"}
    GoneThreshold = 2
    MaxRestarts = 1
    MaxFaults = 1
    Faults = {"db", "crash", "lost"}
SPECIFICATION FairSpec
INVARIANTS
    TypeOK
    SingleUse
    OneAuthority
    FreshPinsMatch
    FailureExplained
    OnlyDeletedStop
PROPERTY DeletedStops
CHECK_DEADLOCK FALSE

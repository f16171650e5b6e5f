\* No failure at all.
CONSTANTS
    User = {u1}
    Node = {n1}
    Profile = {p1}
    MaxVersion = 2
    MaxStarts = 1
    MaxRequests = 1
    MaxDue = 1
    UserMoves = {}
    Concurrency = 2
    Attempts = 2
    MaxStalls = 1
    Faults = {}
SPECIFICATION Spec
INVARIANT LatestStateIsApplied
CHECK_DEADLOCK FALSE

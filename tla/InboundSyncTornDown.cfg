\* No failure at all.
CONSTANTS
    User = {u1}
    Node = {n1}
    Profile = {p1}
    MaxVersion = 1
    MaxStarts = 1
    MaxRequests = 1
    MaxDue = 1
    UserMoves = {}
    Concurrency = 1
    Attempts = 1
    MaxStalls = 1
    Faults = {}
SPECIFICATION Spec
INVARIANT TornDown
CHECK_DEADLOCK FALSE

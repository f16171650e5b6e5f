\* An mtproto node and a panel that restarts: is the total recorded or told again?
CONSTANTS
    n1 = n1
    n2 = n2
    User = {u1, u2}
    Node = {n1, n2}
    Cores <- MCCores
    Multiplier <- MCMultiplier
    Limit = 2
    MaxSends = 2
    MaxChanges = 0
    MaxFaults = 1
    Faults = {"crash"}
SPECIFICATION Spec
INVARIANT NoFakeSpike
CHECK_DEADLOCK FALSE

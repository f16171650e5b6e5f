\* One AmneziaWG node, nothing fails: is a byte billed once?
CONSTANTS
    n1 = n1
    n2 = n2
    User = {u1, u2}
    Node = {n1}
    Cores <- KernelCores
    Multiplier <- KernelMultiplier
    Limit = 2
    MaxSends = 3
    MaxChanges = 0
    MaxFaults = 0
    Faults = {}
SPECIFICATION Spec
INVARIANT NeverOverbilled
CHECK_DEADLOCK FALSE

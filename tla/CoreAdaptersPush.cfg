\* An AmneziaWG node, nothing fails: does the first inbound get in?
CONSTANTS
    User = {u1}
    Slot = {s1, s2}
    MaxRequests = 3
    MaxStarts = 1
    MaxVersion = 1
    Vision = {}
    Renumbered = {}
    Installs <- AwgInstall
    Faults = {}
SPECIFICATION Spec
PROPERTY PushConfigures
CHECK_DEADLOCK FALSE

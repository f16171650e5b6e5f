\* Every adapter, every failure; two requests at a time, three per process.
CONSTANTS
    User = {u1}
    Slot = {s1, s2}
    MaxRequests = 3
    MaxStarts = 2
    MaxVersion = 2
    Vision <- SecondVersion
    Renumbered <- SecondVersion
    Installs <- AllInstalls
    Faults = {"disk", "spawn", "reload", "crash", "stop", "kill"}
SYMMETRY Symmetry
SPECIFICATION Spec
INVARIANTS
    TypeOK
    ServedExplained
    AdaptersAgree
    HealthExplained
PROPERTY AgentIsUserMaps
CHECK_DEADLOCK FALSE

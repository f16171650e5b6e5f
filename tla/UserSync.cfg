\* Every failure the model knows; two worker slots, two attempts.
CONSTANTS
    User = {u1}
    Node = {n1}
    Request = {r1}
    None = None
    MaxJobs = 2
    MaxPushes = 1
    MaxMishaps = 1
    Concurrency = 2
    Attempts = 2
    MaxStalls = 0
    LapseKind = {"expired"}
    Faults = {"refused", "badReply", "timeout", "db", "redis", "crash", "agentStop"}
SPECIFICATION MCSpec
INVARIANTS
    LeakExplained
    GapExplained
PROPERTIES
    WorkDrains
    RevokedUserIsCutOff
    ActiveUserIsServed
CHECK_DEADLOCK FALSE

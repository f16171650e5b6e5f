\* Every failure; two processes of the agent, two worker slots, two attempts.
CONSTANTS
    User = {u1}
    Node = {n1}
    Profile = {p1}
    MaxVersion = 2
    MaxStarts = 2
    MaxRequests = 1
    MaxDue = 1
    MaxMishaps = 1
    UserMoves <- Lapsing
    Concurrency = 2
    Attempts = 2
    MaxStalls = 0
    Faults = {"refused", "badReply", "timeout", "db", "redis", "crash", "agentStop"}
SPECIFICATION MCSpec
INVARIANTS
    ConfigExplained
    UsersExplained
PROPERTIES
    IdIsFreed
    AgentCatchesUp
CHECK_DEADLOCK FALSE

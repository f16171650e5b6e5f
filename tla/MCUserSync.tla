------------------------------ MODULE MCUserSync ------------------------------
(* Model-checking instance of UserSync. Two initial states: the empty panel,  *)
(* and one that has been at rest since every user and node was created. A     *)
(* bound on how often something fails: work nothing fails, and an agent that  *)
(* is simply not there, is free.                                              *)
EXTENDS UserSync

CONSTANT MaxMishaps \* BOUND: failures, and finds of the reviews

VARIABLE mishaps

Served ==
    /\ row = [u \in User |-> [status |-> "active", deleted |-> FALSE]]
    /\ nodeRow = [n \in Node |-> "live"]
    /\ up = [n \in Node |-> TRUE]
    /\ holds = [n \in Node |-> User]

Untouched ==
    /\ row = [u \in User |-> [status |-> "absent", deleted |-> FALSE]]
    /\ nodeRow = [n \in Node |-> "absent"]
    /\ up = [n \in Node |-> FALSE]
    /\ holds = [n \in Node |-> {}]

AtRest ==
    /\ admin = [r \in Request |-> Idle]
    /\ cron = [kind |-> "idle", ids |-> {}]
    /\ events = <<>>
    /\ job = [j \in JobId |-> NoJob]
    /\ nextJob = 1
    /\ wait = <<>>
    /\ failed = [j \in JobId |-> {}]
    /\ push = [i \in Push |-> NoPush]
    /\ net = {}
    /\ stray = [x \in Stray |-> 0]
    /\ leak = [n \in Node |-> [u \in User |-> "none"]]
    /\ gap = [n \in Node |-> [u \in User |-> "none"]]

Goes ==
    \/ HandleEvent
    \/ \E u \in User : CreateUser(u)
    \/ \E r \in Request, u \in User, to \in {"active", "disabled"} : ReadForUpdate(r, u, to)
    \/ \E r \in Request, u \in User : CheckDelete(r, u)
    \/ \E r \in Request : WriteUpdate(r) \/ SoftDelete(r) \/ FinishCreateNode(r)
    \/ \E r \in Request, n \in Node : InsertNode(r, n)
    \/ \E n \in Node : DeleteNode(n) \/ AgentStart(n)
    \/ CronFlip
    \/ \E j \in JobId :
          \/ StartAddUser(j) \/ StartRemoveUser(j) \/ StartBackfill(j)
          \/ FetchNodes(j) \/ FetchUsers(j) \/ FinishJob(j) \/ Promote(j)
    \/ \E c \in net : CallSucceeds(c) \/ (CallRefused(c) /\ ~up[c.node])
    \/ \E x \in Stray : StrayStep(x)
    \/ \E i \in Push, n \in Node, lapsed \in SUBSET User : ReadForPush(i, n, lapsed)
    \/ \E i \in Push, u \in User : PushUser(i, u) \/ (PushFails(i, u) /\ ~up[push[i].node])

GoesWrong ==
    \/ \E k \in LapseKind, S \in SUBSET User : CronFind(k, S)
    \/ HandlerThrows
    \/ \E r \in Request : AbandonCreateNode(r)
    \/ \E j \in JobId : QueryThrows(j)
    \/ \E c \in net :
          CallAppliedButFails(c) \/ CallTimesOut(c) \/ (CallRefused(c) /\ up[c.node])
    \/ \E i \in Push, u \in User :
          PushTimesOut(i, u) \/ (PushFails(i, u) /\ up[push[i].node])
    \/ \E n \in Node : AgentStop(n)
    \/ PanelCrash

MCInit == (Served \/ Untouched) /\ AtRest /\ mishaps = 0

MCNext ==
    \/ Goes /\ UNCHANGED mishaps
    \/ GoesWrong /\ mishaps < MaxMishaps /\ mishaps' = mishaps + 1

MCSpec == MCInit /\ [][MCNext]_<<vars, mishaps>> /\ Fairness

===============================================================================

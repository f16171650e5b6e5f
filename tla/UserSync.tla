------------------------------ MODULE UserSync ------------------------------
(***************************************************************************)
(* How a change to a user row reaches the node agents.                     *)
(*                                                                         *)
(*   admin request / cron  --DB write, emit-->  event bus                  *)
(*   event bus             --queue.add------->  BullMQ queue `node-users`  *)
(*   queue workers         --mTLS POST------->  every active node's agent  *)
(*   inbound push          --mTLS POST------->  the agent of one node      *)
(*                                                                         *)
(* Nothing but the row itself survives a panel crash before queue.add, the *)
(* queue runs several jobs at once, failed jobs are retried later and at   *)
(* most `Attempts` times, and a request the panel has timed out may still  *)
(* be processed by the agent.  The other queue's push of a node's inbounds *)
(* (InboundSync) is followed by all the users it thinks are active, one    *)
(* call each: a second writer of the agents' maps, in an order of its own  *)
(* and with another idea of who is active.  The ghost variables leak and   *)
(* gap record how an agent came to disagree with the user table, so the    *)
(* invariants can say that there is no OTHER way to disagree.              *)
(***************************************************************************)
EXTENDS Naturals, Sequences, FiniteSets

CONSTANTS
    User,         \* users an admin may create
    Node,         \* nodes an admin may register
    Request,      \* concurrent admin HTTP requests (handlers in flight)
    None,         \* "no user, no node" in a record field
    MaxJobs,      \* BOUND: jobs ever added to the queue
    MaxPushes,    \* BOUND: inbound pushes that ever come to their users
    Concurrency,  \* worker concurrency of the queue (5 in the code)
    Attempts,     \* attempts per job (3 in the code)
    MaxStalls,    \* BullMQ maxStalledCount (default 1)
    LapseKind,    \* cron reviews that run: "expired", "limited"
    Faults        \* the failures the environment may produce

ASSUME UserNodeAssumption ==
    /\ IsFiniteSet(User)
    /\ IsFiniteSet(Node)
    /\ User \cap Node = {}
    /\ None \notin User \cup Node
ASSUME BoundsAssumption ==
    /\ MaxJobs \in Nat
    /\ MaxPushes \in Nat
    /\ Concurrency \in Nat \ {0}
    /\ Attempts \in Nat \ {0}
    /\ MaxStalls \in Nat
ASSUME EnvironmentAssumption ==
    /\ LapseKind \subseteq {"expired", "limited"}
    /\ Faults \subseteq {"refused", "badReply", "timeout", "db", "redis", "crash", "agentStop"}

VARIABLES
    row,     \* users table: status (or "absent") and deleted flag
    admin,   \* admin request handlers between their awaits
    cron,    \* the cron task between its find and its updateMany
    nodeRow, \* nodes table: "absent", "live", "deleted"
    events,  \* emitted domain events whose handler has not yet added a job
    job,     \* the queue's jobs, in the order they were added
    nextJob, \* the id the next job gets
    wait,    \* BullMQ wait list
    failed,  \* per job: the <<user, node>> calls of this attempt that failed
    push,    \* inbound pushes: the users read and not yet handed over
    net,     \* agent requests whose answer a worker awaits
    stray,   \* requests nobody awaits that an agent may still process
    up,      \* agent processes that are running
    holds,   \* per agent: users in the in-memory map of its adapters
    leak,    \* ghost: why the agent may hold a user that must have no access
    gap      \* ghost: why the agent may lack a user that must have access

dbVars    == <<row, nodeRow>>
panelVars == <<admin, cron, events, push>>
queueVars == <<job, nextJob, wait, failed>>
netVars   == <<net, stray>>
agentVars == <<up, holds>>
ghostVars == <<leak, gap>>
vars == <<dbVars, panelVars, queueVars, netVars, agentVars, ghostVars>>

-----------------------------------------------------------------------------
(* Values *)

Status     == {"active", "disabled", "limited", "expired"}
EventName  == {"user.created", "user.status-changed", "user.deleted", "node.created"}
JobName    == {"addUser", "removeUser", "backfillNode"}
JobId      == 1 .. MaxJobs
Push       == 1 .. MaxPushes
Subject    == User \cup Node \cup {None}
LeakReason == {"none", "staleAdd", "restored", "gaveUp", "lostEvent", "silentWrite"}
GapReason  == {"none", "staleRemove", "gaveUp", "lostEvent", "silentWrite", "agentStopped"}

UserJob  == {"addUser", "removeUser"}

Event == [name : EventName, arg : Subject, from : Status, to : Status]

\* state: none -> waiting -> (gotRow ->) calling -> completed | failed | delayed -> waiting
JobState == {"none", "waiting", "gotRow", "calling", "delayed", "completed", "failed"}
Job == [name : JobName \cup {"none"}, arg : Subject, state : JobState, tries : Nat, stalls : Nat]
NoJob == [name |-> "none", arg |-> None, state |-> "none", tries |-> 0, stalls |-> 0]

\* A job that is over keeps nothing but its outcome.
Over(outcome) == [NoJob EXCEPT !.state = outcome]

\* seen: the status read; to: the one asked for.
AdminOp == [op : {"idle", "update", "delete", "createNode"}, arg : Subject,
            seen : Status, to : Status]
Idle == [op |-> "idle", arg |-> None, seen |-> "active", to |-> "active"]

\* One POST to an agent: awaited by a job's attempt, or stray. "restore" is an
\* add of a user whose row was soft-deleted when the push read it.
Call  == [job : JobId, user : User, node : Node]
Stray == [op : {"add", "remove", "restore"}, user : User, node : Node]

\* gone: the users of the push that were soft-deleted when it read them.
PushState == [node : Node \cup {None}, users : SUBSET User, gone : SUBSET User]
NoPush == [node |-> None, users |-> {}, gone |-> {}]

-----------------------------------------------------------------------------
(* State functions *)

\* `status: 'active', deletedAt: null`
Active(u) == row[u].status = "active" /\ ~row[u].deleted
Exists(u) == row[u].status # "absent" /\ ~row[u].deleted
Live(n)   == nodeRow[n] = "live"

Running(j)     == job[j].state \in {"gotRow", "calling"}
RunningJobs    == {j \in JobId : Running(j)}
Outstanding(j) == {c \in net : c.job = j}
BeingCreated   == {r \in Request : admin[r].op = "createNode"}

\* BOUND: every emitted event still has a job id to get.
Room(k) == nextJob + Len(events) + Cardinality(BeingCreated) + k <= MaxJobs + 1

\* Every order in which a loop may visit S.
Orders(S) == {q \in [1 .. Cardinality(S) -> S] : \A x \in S : \E i \in DOMAIN q : q[i] = x}

Ev(name, arg, from, to) == [name |-> name, arg |-> arg, from |-> from, to |-> to]

\* MUTANT: a filter on the agents that answer right now.
fetchActiveNodes_OnlyReachable == {n \in Node : Live(n) /\ up[n]}

\* fetchActiveNodes: unreachable nodes are included on purpose.
fetchActiveNodes == {n \in Node : Live(n)}

\* where: { deletedAt: null, status: 'active' } of syncBackfillNode
backfillUsers == {u \in User : Active(u)}

\* where: { status: 'active', expireAt null or in the future } of the inbound
\* push: no look at deletedAt. lapsed: who is past his date, the environment's
\* choice.
fetchActiveUsers(lapsed) == {u \in User : row[u].status = "active"} \ lapsed

-----------------------------------------------------------------------------
(* users.events.ts, nodes.events.ts: which job an event becomes *)

\* MUTANT: nobody listens to user.deleted.
IsRemoval_ForgetsDeleted(e) ==
    e.name = "user.status-changed" /\ e.to \in {"disabled", "limited", "expired"}

IsRemoval(e) ==
    \/ e.name = "user.status-changed" /\ e.to \in {"disabled", "limited", "expired"}
    \/ e.name = "user.deleted"

IsAddition(e) ==
    \/ e.name = "user.created"
    \/ e.name = "user.status-changed" /\ e.to = "active" /\ e.from # "active"

IsBackfill(e) == e.name = "node.created"

\* Work that exists only in this process's memory.
RemovalEmitted(u) == \E i \in DOMAIN events : IsRemoval(events[i]) /\ events[i].arg = u
AdditionEmitted(u, n) ==
    \/ \E i \in DOMAIN events : \/ IsAddition(events[i]) /\ events[i].arg = u
                                \/ IsBackfill(events[i]) /\ events[i].arg = n
    \/ \E r \in BeingCreated : admin[r].arg = n

JobNameOf(e) == CASE IsRemoval(e)  -> "removeUser"
                  [] IsAddition(e) -> "addUser"
                  [] OTHER         -> "backfillNode"

HandleEvent ==
    /\ events # <<>>
    /\ nextJob \in JobId
    /\ LET e == Head(events)
       IN  IF IsRemoval(e) \/ IsAddition(e) \/ IsBackfill(e)
           THEN /\ job' = [job EXCEPT ![nextJob] =
                             [NoJob EXCEPT !.name = JobNameOf(e), !.arg = e.arg,
                                           !.state = "waiting"]]
                /\ wait' = Append(wait, nextJob)
                /\ nextJob' = nextJob + 1
           ELSE UNCHANGED <<job, wait, nextJob>>
    /\ events' = Tail(events)
    /\ UNCHANGED <<dbVars, admin, cron, push, failed, netVars, agentVars, ghostVars>>

\* queue.add rejects: the bus logs it and the event is gone.
HandlerThrows ==
    /\ "redis" \in Faults
    /\ events # <<>>
    /\ LET e == Head(events)
       IN  /\ leak' = [n \in Node |-> [u \in User |->
                         IF IsRemoval(e) /\ e.arg = u THEN "lostEvent" ELSE leak[n][u]]]
           /\ gap'  = [n \in Node |-> [u \in User |->
                         IF \/ IsAddition(e) /\ e.arg = u
                            \/ IsBackfill(e) /\ e.arg = n THEN "lostEvent" ELSE gap[n][u]]]
    /\ events' = Tail(events)
    /\ UNCHANGED <<dbVars, admin, cron, push, queueVars, netVars, agentVars>>

-----------------------------------------------------------------------------
(* users.service.ts *)

\* Emission follows the write in the same continuation; a crash in between
\* is a PanelCrash with the event still in `events`.
CreateUser(u) ==
    /\ row[u].status = "absent"
    /\ Room(1)
    /\ row' = [row EXCEPT ![u] = [status |-> "active", deleted |-> FALSE]]
    /\ events' = Append(events, Ev("user.created", u, "active", "active"))
    /\ UNCHANGED <<nodeRow, admin, cron, push, queueVars, netVars, agentVars, ghostVars>>

\* updateUser, up to the await of repo.findActiveById. Updates that leave the
\* status out change nothing the nodes are told about.
ReadForUpdate(r, u, to) ==
    /\ admin[r] = Idle
    /\ Exists(u)
    /\ admin' = [admin EXCEPT ![r] = [op |-> "update", arg |-> u,
                                      seen |-> row[u].status, to |-> to]]
    /\ UNCHANGED <<dbVars, cron, events, push, queueVars, netVars, agentVars, ghostVars>>

\* The comparison is with the status READ, not with the one overwritten.
ChangesStatus(a) == a.to # a.seen

\* The row changes sides without an event.
SilentlyRevokes(a) == ~ChangesStatus(a) /\ a.to # "active" /\ Active(a.arg)
SilentlyGrants(a)  == ~ChangesStatus(a) /\ a.to = "active" /\ ~Active(a.arg)

\* ... and from there: the write, by id alone, and the emission.
WriteUpdate(r) ==
    LET a == admin[r]
        mark(g) == [n \in Node |-> [g[n] EXCEPT ![a.arg] = "silentWrite"]]
    IN  /\ a.op = "update"
        /\ Room(1)
        /\ row' = [row EXCEPT ![a.arg].status = a.to]
        /\ events' = IF ChangesStatus(a)
                     THEN Append(events, Ev("user.status-changed", a.arg, a.seen, a.to))
                     ELSE events
        /\ admin' = [admin EXCEPT ![r] = Idle]
        /\ leak' = IF SilentlyRevokes(a) THEN mark(leak) ELSE leak
        /\ gap'  = IF SilentlyGrants(a) THEN mark(gap) ELSE gap
        /\ UNCHANGED <<nodeRow, cron, push, queueVars, netVars, agentVars>>

\* deleteUser: existsActive, then softDelete and emit.
CheckDelete(r, u) ==
    /\ admin[r] = Idle
    /\ Exists(u)
    /\ admin' = [admin EXCEPT ![r] = [Idle EXCEPT !.op = "delete", !.arg = u]]
    /\ UNCHANGED <<dbVars, cron, events, push, queueVars, netVars, agentVars, ghostVars>>

SoftDelete(r) ==
    /\ admin[r].op = "delete"
    /\ Room(1)
    /\ LET u == admin[r].arg
       IN  /\ row' = [row EXCEPT ![u].deleted = TRUE]
           /\ events' = Append(events, Ev("user.deleted", u, "active", "active"))
    /\ admin' = [admin EXCEPT ![r] = Idle]
    /\ UNCHANGED <<nodeRow, cron, push, queueVars, netVars, agentVars, ghostVars>>

-----------------------------------------------------------------------------
(* users.cron.ts; the scheduler's worker runs one task at a time *)

\* findExpiredUsers, findExceededTrafficUsers: the find. Which active users
\* are past their date or limit is the environment's choice ...
CronFind(k, S) ==
    /\ cron = [kind |-> "idle", ids |-> {}]
    /\ S # {} /\ \A u \in S : Active(u)
    /\ cron' = [kind |-> k, ids |-> S]
    /\ UNCHANGED <<dbVars, admin, events, push, queueVars, netVars, agentVars, ghostVars>>

FlipEvent(k, u) == Ev("user.status-changed", u, "active", k)

\* ... and, an await later, updateMany on the ids found and one emit per id.
CronFlip ==
    /\ cron.kind # "idle"
    /\ Room(Cardinality(cron.ids))
    /\ row' = [u \in User |-> IF u \in cron.ids
                              THEN [row[u] EXCEPT !.status = cron.kind] ELSE row[u]]
    /\ \E q \in Orders(cron.ids) :
          events' = events \o [i \in 1 .. Cardinality(cron.ids) |-> FlipEvent(cron.kind, q[i])]
    /\ cron' = [kind |-> "idle", ids |-> {}]
    /\ UNCHANGED <<nodeRow, admin, push, queueVars, netVars, agentVars, ghostVars>>

-----------------------------------------------------------------------------
(* nodes.service.ts *)

\* createNode: the row is committed several awaits before the event.
InsertNode(r, n) ==
    /\ admin[r] = Idle
    /\ nodeRow[n] = "absent"
    /\ Room(1)
    /\ nodeRow' = [nodeRow EXCEPT ![n] = "live"]
    /\ admin' = [admin EXCEPT ![r] = [Idle EXCEPT !.op = "createNode", !.arg = n]]
    /\ UNCHANGED <<row, cron, events, push, queueVars, netVars, agentVars, ghostVars>>

FinishCreateNode(r) ==
    /\ admin[r].op = "createNode"
    /\ events' = Append(events, Ev("node.created", admin[r].arg, "active", "active"))
    /\ admin' = [admin EXCEPT ![r] = Idle]
    /\ UNCHANGED <<dbVars, cron, push, queueVars, netVars, agentVars, ghostVars>>

\* issueNodeCert, issueBootstrapToken or the command rendering throws.
AbandonCreateNode(r) ==
    /\ "db" \in Faults
    /\ admin[r].op = "createNode"
    /\ admin' = [admin EXCEPT ![r] = Idle]
    /\ gap' = [gap EXCEPT ![admin[r].arg] = [u \in User |-> "lostEvent"]]
    /\ UNCHANGED <<dbVars, cron, events, push, queueVars, netVars, agentVars, leak>>

\* deleteNode emits no event: the agent is told by its next heartbeat.
DeleteNode(n) ==
    /\ Live(n)
    /\ nodeRow' = [nodeRow EXCEPT ![n] = "deleted"]
    /\ UNCHANGED <<row, panelVars, queueVars, netVars, agentVars, ghostVars>>

-----------------------------------------------------------------------------
(* users.queue.ts: the worker *)

\* The requests one attempt issues, all at once (Promise.allSettled).
CallsTo(j, users, nodes) == {[job |-> j, user |-> u, node |-> n] : u \in users, n \in nodes}

FirstState(name) == IF name = "removeUser" THEN "calling" ELSE "gotRow"

\* A free worker slot takes the oldest waiting job.
TakeSlot(j) ==
    /\ wait # <<>> /\ j = Head(wait)
    /\ job[j].state = "waiting"
    /\ Cardinality(RunningJobs) < Concurrency
    /\ wait' = Tail(wait)

\* Its first query decides whether there is anything to do.
Start(j, name, goesOn) ==
    /\ TakeSlot(j)
    /\ job[j].name = name
    /\ job' = [job EXCEPT ![j] = IF goesOn THEN [@ EXCEPT !.state = FirstState(name)]
                                 ELSE Over("completed")]
    /\ UNCHANGED <<dbVars, panelVars, nextJob, failed, stray, agentVars, ghostVars>>

\* syncAddUser reads the row `where deletedAt: null` - whatever its status.
StartAddUser(j) ==
    /\ Start(j, "addUser", Exists(job[j].arg))
    /\ UNCHANGED net

\* syncRemoveUser does not read the user: it may be soft-deleted by now.
StartRemoveUser(j) ==
    /\ Start(j, "removeUser", TRUE)
    /\ net' = net \cup CallsTo(j, {job[j].arg}, fetchActiveNodes)

StartBackfill(j) ==
    /\ Start(j, "backfillNode", Live(job[j].arg))
    /\ UNCHANGED net

\* addUser: fetchActiveNodes, then fanOut, with the row read before.
FetchNodes(j) ==
    /\ job[j].state = "gotRow" /\ job[j].name = "addUser"
    /\ net' = net \cup CallsTo(j, {job[j].arg}, fetchActiveNodes)
    /\ job' = [job EXCEPT ![j].state = "calling"]
    /\ UNCHANGED <<dbVars, panelVars, nextJob, wait, failed, stray, agentVars, ghostVars>>

\* backfillNode: findMany of the active users, then one addUser each.
FetchUsers(j) ==
    /\ job[j].state = "gotRow" /\ job[j].name = "backfillNode"
    /\ net' = net \cup CallsTo(j, backfillUsers, {job[j].arg})
    /\ job' = [job EXCEPT ![j].state = "calling"]
    /\ UNCHANGED <<dbVars, panelVars, nextJob, wait, failed, stray, agentVars, ghostVars>>

\* What a job that is dropped may leave undone.
MayMiss(j, u, n) == job[j].arg = u \/ job[j].arg = n

\* MUTANT: fanOut logs its failures and returns.
EndAttempt_SwallowsFailures(j, missed) ==
    /\ job' = [job EXCEPT ![j] = Over("completed")]
    /\ UNCHANGED ghostVars

\* MUTANT: retries are not counted.
EndAttempt_RetriesForever(j, missed) ==
    /\ job' = [job EXCEPT ![j] = IF missed = {} THEN Over("completed")
                                 ELSE [@ EXCEPT !.state = "delayed"]]
    /\ UNCHANGED ghostVars

\* BullMQ: retry after the backoff while attempts remain, else drop the job.
EndAttempt(j, missed) ==
    IF missed = {}
    THEN /\ job' = [job EXCEPT ![j] = Over("completed")]
         /\ UNCHANGED ghostVars
    ELSE IF job[j].tries + 1 < Attempts
    THEN /\ job' = [job EXCEPT ![j].state = "delayed", ![j].tries = @ + 1]
         /\ UNCHANGED ghostVars
    ELSE LET blame(g) == [n \in Node |-> [u \in User |->
                            IF <<u, n>> \in missed THEN "gaveUp" ELSE g[n][u]]]
             removal  == job[j].name = "removeUser"
         IN  /\ job' = [job EXCEPT ![j] = Over("failed")]
             /\ leak' = IF removal THEN blame(leak) ELSE leak
             /\ gap'  = IF removal THEN gap ELSE blame(gap)

\* fanOut: every outcome is in; one failed call fails the whole job.
FinishJob(j) ==
    /\ job[j].state = "calling"
    /\ Outstanding(j) = {}
    /\ EndAttempt(j, failed[j])
    /\ failed' = [failed EXCEPT ![j] = {}]
    /\ UNCHANGED <<dbVars, panelVars, nextJob, wait, netVars, agentVars>>

\* The first or the second query of an attempt throws.
QueryThrows(j) ==
    /\ "db" \in Faults
    /\ \/ TakeSlot(j)
       \/ job[j].state = "gotRow" /\ UNCHANGED wait
    /\ EndAttempt(j, {p \in User \X Node : MayMiss(j, p[1], p[2])})
    /\ UNCHANGED <<dbVars, panelVars, nextJob, failed, netVars, agentVars>>

\* The backoff is over: the job goes to the END of the wait list.
Promote(j) ==
    /\ job[j].state = "delayed"
    /\ job' = [job EXCEPT ![j].state = "waiting"]
    /\ wait' = Append(wait, j)
    /\ UNCHANGED <<dbVars, panelVars, nextJob, failed, netVars, agentVars, ghostVars>>

-----------------------------------------------------------------------------
(* The wire and the agent *)

OpOf(c) == IF job[c.job].name = "removeUser" THEN "remove" ELSE "add"
StrayOf(c) == [op |-> OpOf(c), user |-> c.user, node |-> c.node]

\* handleAddUser / handleRemoveUser. The adapters change their user map first
\* and reload their server second, so an error answer also means "applied".
Apply(x) ==
    /\ up[x.node]
    /\ IF x.op \in {"add", "restore"}
       THEN /\ holds' = [holds EXCEPT ![x.node] = @ \cup {x.user}]
            /\ leak'  = [leak EXCEPT ![x.node][x.user] =
                           IF Active(x.user) THEN "none"
                           ELSE IF x.op = "restore" THEN "restored" ELSE "staleAdd"]
            /\ gap'   = [gap EXCEPT ![x.node][x.user] = "none"]
       ELSE /\ holds' = [holds EXCEPT ![x.node] = @ \ {x.user}]
            /\ leak'  = [leak EXCEPT ![x.node][x.user] = "none"]
            /\ gap'   = [gap EXCEPT ![x.node][x.user] =
                           IF Active(x.user) THEN "staleRemove" ELSE "none"]
    /\ UNCHANGED up

CallFailed(c) == failed' = [failed EXCEPT ![c.job] = @ \cup {<<c.user, c.node>>}]

\* Applied, and the panel gets the 200.
CallSucceeds(c) ==
    /\ Apply(StrayOf(c))
    /\ net' = net \ {c}
    /\ UNCHANGED <<dbVars, panelVars, queueVars, stray>>

\* Applied, but an adapter's reload failed (500) or the answer is lost.
CallAppliedButFails(c) ==
    /\ "badReply" \in Faults
    /\ Apply(StrayOf(c))
    /\ net' = net \ {c}
    /\ CallFailed(c)
    /\ UNCHANGED <<dbVars, panelVars, job, nextJob, wait, stray>>

\* MUTANT: a connection error does not reject the call.
CallRefused_Resolves(c) ==
    /\ "refused" \in Faults \/ ~up[c.node]
    /\ net' = net \ {c}
    /\ UNCHANGED <<dbVars, panelVars, queueVars, stray, agentVars, ghostVars>>

\* Never reached the agent: it is down, or the connection failed.
CallRefused(c) ==
    /\ "refused" \in Faults \/ ~up[c.node]
    /\ net' = net \ {c}
    /\ CallFailed(c)
    /\ UNCHANGED <<dbVars, panelVars, job, nextJob, wait, stray, agentVars, ghostVars>>

\* AbortController fires; the agent may process the request afterwards.
CallTimesOut(c) ==
    /\ "timeout" \in Faults
    /\ net' = net \ {c}
    /\ stray' = [stray EXCEPT ![StrayOf(c)] = @ + 1]
    /\ CallFailed(c)
    /\ UNCHANGED <<dbVars, panelVars, job, nextJob, wait, agentVars, ghostVars>>

StrayApplied(x) ==
    /\ stray[x] > 0
    /\ Apply(x)
    /\ stray' = [stray EXCEPT ![x] = @ - 1]
    /\ UNCHANGED <<dbVars, panelVars, queueVars, net>>

StrayLost(x) ==
    /\ stray[x] > 0
    /\ stray' = [stray EXCEPT ![x] = @ - 1]
    /\ UNCHANGED <<dbVars, panelVars, queueVars, net, agentVars, ghostVars>>

-----------------------------------------------------------------------------
(* inbounds.queue.ts: the users a push of inbounds ends with. When there is *)
(* a push, and what precedes its users, is InboundSync's. *)

\* fetchActiveUsers. The node was live when the job began, several awaits ago.
ReadForPush(i, n, lapsed) ==
    /\ push[i] = NoPush
    /\ nodeRow[n] # "absent"
    /\ LET users == fetchActiveUsers(lapsed)
       IN  push' = [push EXCEPT ![i] = [node |-> n, users |-> users,
                                        gone |-> {u \in users : row[u].deleted}]]
    /\ UNCHANGED <<dbVars, admin, cron, events, queueVars, netVars, agentVars, ghostVars>>

PushOf(i, u) == [op |-> IF u \in push[i].gone THEN "restore" ELSE "add",
                 user |-> u, node |-> push[i].node]

\* One addUser after the other, awaited; a failure is logged and skipped.
HandOver(i, u) ==
    /\ u \in push[i].users
    /\ push' = [push EXCEPT ![i].users = @ \ {u}, ![i].gone = @ \ {u}]

PushUser(i, u) ==
    /\ HandOver(i, u)
    /\ Apply(PushOf(i, u))
    /\ UNCHANGED <<dbVars, admin, cron, events, queueVars, netVars>>

PushFails(i, u) ==
    /\ HandOver(i, u)
    /\ "refused" \in Faults \/ ~up[push[i].node]
    /\ UNCHANGED <<dbVars, admin, cron, events, queueVars, netVars, agentVars, ghostVars>>

PushTimesOut(i, u) ==
    /\ "timeout" \in Faults
    /\ HandOver(i, u)
    /\ stray' = [stray EXCEPT ![PushOf(i, u)] = @ + 1]
    /\ UNCHANGED <<dbVars, admin, cron, events, queueVars, net, agentVars, ghostVars>>

-----------------------------------------------------------------------------
(* The agent's process *)

AgentStart(n) ==
    /\ nodeRow[n] # "absent"
    /\ ~up[n]
    /\ up' = [up EXCEPT ![n] = TRUE]
    /\ UNCHANGED <<dbVars, panelVars, queueVars, netVars, holds, ghostVars>>

\* The user maps are in memory only.
AgentStop(n) ==
    /\ "agentStop" \in Faults
    /\ up[n]
    /\ up' = [up EXCEPT ![n] = FALSE]
    /\ holds' = [holds EXCEPT ![n] = {}]
    /\ gap' = [gap EXCEPT ![n] = [u \in User |-> "agentStopped"]]
    /\ UNCHANGED <<dbVars, panelVars, queueVars, netVars, leak>>

-----------------------------------------------------------------------------
(* Panel crash and restart *)

\* BullMQ returns the jobs a dead worker held to the FRONT of the wait list,
\* and fails the ones that have stalled too often.
Stalled == {j \in RunningJobs : job[j].stalls < MaxStalls}
Dropped == {j \in RunningJobs : job[j].stalls >= MaxStalls}
DropsFor(u, n, removal) ==
    \E j \in Dropped : MayMiss(j, u, n) /\ (job[j].name = "removeUser") = removal

Awaits(j, x) == \E c \in Outstanding(j) : StrayOf(c) = x

\* The call each push may have been waiting for.
OnTheWire == {f \in [Push -> User \cup {None}] :
                 \A i \in Push : f[i] # None => f[i] \in push[i].users}

PanelCrash ==
    /\ "crash" \in Faults
    /\ RunningJobs # {} \/ events # <<>> \/ cron.kind # "idle"
          \/ \E r \in Request : admin[r] # Idle
          \/ \E i \in Push : push[i].users # {}
    /\ admin' = [r \in Request |-> Idle]
    /\ cron' = [kind |-> "idle", ids |-> {}]
    /\ events' = <<>>
    /\ job' = [j \in JobId |->
                 IF j \in Stalled THEN [job[j] EXCEPT !.state = "waiting", !.stalls = @ + 1]
                 ELSE IF j \in Dropped THEN Over("failed") ELSE job[j]]
    /\ \E q \in Orders(Stalled) : wait' = q \o wait
    /\ failed' = [j \in JobId |-> {}]
    /\ net' = {}
    /\ \E f \in OnTheWire :
          stray' = [x \in Stray |-> stray[x] + Cardinality({j \in JobId : Awaits(j, x)})
                      + Cardinality({i \in Push : f[i] # None /\ PushOf(i, f[i]) = x})]
    /\ push' = [i \in Push |-> [push[i] EXCEPT !.users = {}, !.gone = {}]]
    /\ leak' = [n \in Node |-> [u \in User |->
                  IF RemovalEmitted(u) THEN "lostEvent"
                  ELSE IF DropsFor(u, n, TRUE) THEN "gaveUp" ELSE leak[n][u]]]
    /\ gap'  = [n \in Node |-> [u \in User |->
                  IF AdditionEmitted(u, n) THEN "lostEvent"
                  ELSE IF DropsFor(u, n, FALSE) THEN "gaveUp" ELSE gap[n][u]]]
    /\ UNCHANGED <<dbVars, nextJob, agentVars>>

-----------------------------------------------------------------------------
Init ==
    /\ row = [u \in User |-> [status |-> "absent", deleted |-> FALSE]]
    /\ admin = [r \in Request |-> Idle]
    /\ cron = [kind |-> "idle", ids |-> {}]
    /\ nodeRow = [n \in Node |-> "absent"]
    /\ events = <<>>
    /\ job = [j \in JobId |-> NoJob]
    /\ nextJob = 1
    /\ wait = <<>>
    /\ failed = [j \in JobId |-> {}]
    /\ push = [i \in Push |-> NoPush]
    /\ net = {}
    /\ stray = [x \in Stray |-> 0]
    /\ up = [n \in Node |-> FALSE]
    /\ holds = [n \in Node |-> {}]
    /\ leak = [n \in Node |-> [u \in User |-> "none"]]
    /\ gap = [n \in Node |-> [u \in User |-> "none"]]

AdminStep ==
    \/ \E u \in User : CreateUser(u)
    \/ \E r \in Request, u \in User, to \in {"active", "disabled"} : ReadForUpdate(r, u, to)
    \/ \E r \in Request, u \in User : CheckDelete(r, u)
    \/ \E r \in Request : WriteUpdate(r) \/ SoftDelete(r)
    \/ \E r \in Request, n \in Node : InsertNode(r, n)
    \/ \E r \in Request : FinishCreateNode(r) \/ AbandonCreateNode(r)
    \/ \E n \in Node : DeleteNode(n)

CronStep ==
    \/ \E k \in LapseKind, S \in SUBSET User : CronFind(k, S)
    \/ CronFlip

WorkerStep(j) ==
    \/ StartAddUser(j) \/ StartRemoveUser(j) \/ StartBackfill(j)
    \/ FetchNodes(j) \/ FetchUsers(j)
    \/ FinishJob(j) \/ QueryThrows(j) \/ Promote(j)

WireStep(c) ==
    CallSucceeds(c) \/ CallAppliedButFails(c) \/ CallRefused(c) \/ CallTimesOut(c)

StrayStep(x) == StrayApplied(x) \/ StrayLost(x)

PushStep(i) ==
    \/ \E n \in Node, lapsed \in SUBSET User : ReadForPush(i, n, lapsed)
    \/ \E u \in User : PushUser(i, u) \/ PushFails(i, u) \/ PushTimesOut(i, u)

AgentStep(n) == AgentStart(n) \/ AgentStop(n)

Next ==
    \/ HandleEvent \/ HandlerThrows
    \/ AdminStep
    \/ CronStep
    \/ \E j \in JobId : WorkerStep(j)
    \/ \E c \in net : WireStep(c)
    \/ \E x \in Stray : StrayStep(x)
    \/ \E i \in Push : PushStep(i)
    \/ \E n \in Node : AgentStep(n)
    \/ PanelCrash

Spec == Init /\ [][Next]_vars

\* Handlers run as soon as the process is idle, the BullMQ worker polls while
\* it has a free slot, its backoff timers fire, and the request timeout ends
\* every call. Admins, cron findings, inbound pushes, failures, crashes and
\* agents owe nothing.
Fairness ==
    /\ WF_vars(HandleEvent \/ HandlerThrows)
    /\ \A j \in JobId : WF_vars(WorkerStep(j))
    /\ \A j \in JobId : WF_vars(\E c \in Outstanding(j) : WireStep(c))

FairSpec == Spec /\ Fairness

-----------------------------------------------------------------------------
(* Properties *)

\* User work names a user, node work names a node.
Addressed ==
    /\ \A r \in Request : /\ admin[r].op \in {"update", "delete"} => admin[r].arg \in User
                          /\ admin[r].op = "createNode" => admin[r].arg \in Node
    /\ \A i \in DOMAIN events : IF IsBackfill(events[i]) THEN events[i].arg \in Node
                                ELSE events[i].arg \in User
    /\ \A j \in JobId : /\ job[j].name \in UserJob => job[j].arg \in User
                        /\ job[j].name = "backfillNode" => job[j].arg \in Node
    /\ \A i \in Push : push[i].users # {} => push[i].node \in Node

TypeOK ==
    /\ row \in [User -> [status : Status \cup {"absent"}, deleted : BOOLEAN]]
    /\ admin \in [Request -> AdminOp]
    /\ cron \in [kind : LapseKind \cup {"idle"}, ids : SUBSET User]
    /\ nodeRow \in [Node -> {"absent", "live", "deleted"}]
    /\ events \in Seq(Event)
    /\ job \in [JobId -> Job]
    /\ nextJob \in Nat \ {0}
    /\ wait \in Seq(JobId)
    /\ failed \in [JobId -> SUBSET (User \X Node)]
    /\ push \in [Push -> PushState]
    /\ net \in SUBSET Call
    /\ stray \in [Stray -> Nat]
    /\ up \in [Node -> BOOLEAN]
    /\ holds \in [Node -> SUBSET User]
    /\ leak \in [Node -> [User -> LeakReason]]
    /\ gap \in [Node -> [User -> GapReason]]
    /\ Addressed

\* The running attempt of job j has not yet succeeded for user u on node n.
Unsettled(j, u, n) ==
    \/ <<u, n>> \in failed[j]
    \/ \E c \in Outstanding(j) : c.user = u /\ c.node = n

JobWillServe(j, u, n) ==
    \/ job[j].state \in {"waiting", "gotRow", "delayed"}
    \/ job[j].state = "calling" /\ Unsettled(j, u, n)

RemovalPending(u, n) ==
    \/ RemovalEmitted(u)
    \/ \E j \in JobId : /\ job[j].name = "removeUser" /\ job[j].arg = u
                        /\ JobWillServe(j, u, n)

AdditionPending(u, n) ==
    \/ AdditionEmitted(u, n)
    \/ \E j \in JobId : /\ \/ job[j].name = "addUser" /\ job[j].arg = u
                           \/ job[j].name = "backfillNode" /\ job[j].arg = n
                        /\ JobWillServe(j, u, n)

(* users.events.ts promises that a user going non-active or being deleted is
   taken off the nodes. An agent of a registered node that still holds such a
   user is waiting for a removal that is really on its way to THAT node, or
   the last thing that happened to that pair is one of these: an add that was
   already under way, of a job or of an inbound push, arrived after the
   revocation; an inbound push that READ the user after his deletion handed
   him back (inbounds.queue.ts:74, no deletedAt condition); the removal job
   ran out of attempts on this node; a crash or a refused queue.add lost the
   event; an update compared with a stale status and emitted nothing. *)
LeakExplained ==
    \A u \in User, n \in Node :
        Live(n) /\ u \in holds[n] /\ ~Active(u) =>
            RemovalPending(u, n) \/ leak[n][u] # "none"

(* The converse, which needs the fan-out of user jobs and the backfill of
   node jobs together: whichever of "user created" and "node created" commits
   second sees the other, so no registered node is left without an active
   user unless an addition is on its way or a known failure explains it. *)
GapExplained ==
    \A u \in User, n \in Node :
        Live(n) /\ Active(u) /\ u \notin holds[n] =>
            AdditionPending(u, n) \/ gap[n][u] # "none"

(* Every job leaves the queue, however often its attempts fail and the panel
   crashes under it: retries and stalls are both bounded (`attempts: 3`,
   users.queue.ts; the failed-job comments count on it). *)
WorkDrains ==
    \A j \in JobId : job[j].state # "none" ~> job[j].state \in {"completed", "failed"}

(* An agent of a registered node does not hold a revoked user for ever,
   unless one of those things happened to that very pair - which, for a
   deleted user, every push of inbounds that reads him afterwards is: no
   removal follows it. *)
RevokedUserIsCutOff ==
    \A u \in User, n \in Node :
        Live(n) /\ u \in holds[n] /\ ~Active(u)
            ~> ~Live(n) \/ u \notin holds[n] \/ Active(u) \/ leak[n][u] # "none"

(* An active user does not wait for ever to appear on the agent of a
   registered node, with the same proviso. A node whose createNode request is
   still between its insert and its event owes nothing yet. *)
ActiveUserIsServed ==
    \A u \in User, n \in Node :
        Live(n) /\ u \notin holds[n] /\ Active(u) /\ (\A r \in BeingCreated : admin[r].arg # n)
            ~> ~Live(n) \/ u \in holds[n] \/ ~Active(u) \/ gap[n][u] # "none"

=============================================================================

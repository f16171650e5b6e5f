---------------------------- MODULE InboundSync ----------------------------
(***************************************************************************)
(* How the inbounds of a node (its enabled profile bindings) and, behind   *)
(* them, its users reach the node's agent.                                 *)
(*                                                                         *)
(*   binding / profile change, node.created  --event-----> queue.add       *)
(*   nodes.cron: status goes online          ------------> queue.add       *)
(*   heartbeat: another process answers      ------------> queue.add       *)
(*   worker of `inbound-sync`: read bindings, POST /applyInbounds, read    *)
(*   the users, POST /addUser one by one                                   *)
(*                                                                         *)
(* The job id is the node's, so an add is a silent no-op while the node's  *)
(* previous job exists in any state; a restart noticed by a heartbeat gets *)
(* an id of its own and runs beside it.  The ghost variable why records    *)
(* the known ways an agent is left behind.                                 *)
(*                                                                         *)
(* The node-users queue is modelled in UserSync and idealised here: every  *)
(* agent that runs follows a change of a user at once.                     *)
(***************************************************************************)
EXTENDS Naturals, Sequences, FiniteSets

CONSTANTS
    User,         \* users
    Node,         \* nodes an admin may register
    Profile,      \* profiles, each of a protocol of its own
    MaxVersion,   \* BOUND: changes made to bindings and profiles
    MaxStarts,    \* BOUND: processes of one agent
    MaxRequests,  \* BOUND: admin requests between two awaits
    MaxDue,       \* BOUND: queue.adds or fan-outs of one kind in memory
    UserMoves,    \* BOUND: changes users may go through, <<from, to>>
    Concurrency,  \* worker concurrency of the queue (5 in the code)
    Attempts,     \* attempts per job (3 in the code)
    MaxStalls,    \* BullMQ maxStalledCount (default 1)
    Faults        \* the failures the environment may produce

ASSUME SetsAssumption ==
    /\ IsFiniteSet(User) /\ IsFiniteSet(Node) /\ IsFiniteSet(Profile)
    /\ Node \cap Profile = {}
ASSUME BoundsAssumption ==
    /\ MaxVersion \in Nat /\ MaxStarts \in Nat /\ MaxRequests \in Nat /\ MaxDue \in Nat
    /\ MaxStalls \in Nat
    /\ Concurrency \in Nat \ {0} /\ Attempts \in Nat \ {0}
ASSUME UserMovesAssumption ==
    UserMoves \subseteq {<<"active", "inactive">>, <<"inactive", "active">>,
                         <<"active", "deleted">>, <<"active", "lapsed">>,
                         <<"lapsed", "inactive">>, <<"lapsed", "active">>}
ASSUME FaultsAssumption ==
    Faults \subseteq {"refused", "badReply", "timeout", "db", "redis", "crash", "agentStop"}

VARIABLES
    row,      \* users table
    nodeRow,  \* nodes table: "absent", "live", "deleted"
    status,   \* nodes table: the status column
    bindings, \* binding rows, enabled or not
    want,     \* what fetchEnabledInbounds resolves a binding to; 0: not enabled
    version,  \* the last version of a configuration given out
    admin,    \* admin requests between two awaits
    todo,     \* panel memory: queue.adds due for a node, fan-outs due for a profile
    poll,     \* what the poll of a node will write
    known,    \* Redis: the last agent process seen
    beat,     \* a restart noticed whose job is not yet added
    job,      \* the queue's jobs by their id
    wait,     \* BullMQ wait list
    stray,    \* apply requests nobody awaits that an agent may still process
    start,    \* the agent's process: 0 before the first
    up,       \* agents that run
    file,     \* per agent: inbounds.json, the last set it was sent
    runs,     \* per agent: the version each adapter was last configured with
    holds,    \* per agent: the users in its adapters' maps
    why       \* ghost: why an agent may be left behind

dbVars    == <<row, nodeRow, status, bindings, want, version>>
panelVars == <<admin, todo, poll, beat>>
queueVars == <<job, wait, known>>
agentVars == <<start, up, file, runs, holds>>
vars == <<dbVars, panelVars, queueVars, stray, agentVars, why>>

-----------------------------------------------------------------------------
(* Values *)

Version == 0 .. MaxVersion
Inbounds == [Profile -> Version]
NoInbounds == [p \in Profile |-> 0]

\* Two of them have a row whose status is active all the same: "deleted" is
\* soft-deleted, "lapsed" is past his date and not yet reviewed.
UserState == {"active", "inactive", "deleted", "lapsed"}
Reason == {"none", "coalesced", "gaveUp", "lostEvent", "staleApply", "pushFailed",
           "unseenRestart", "unannounced", "extended"}

\* <<n, 0>> is `apply-<n>`, <<n, s>> is `apply-<n>-restart-<s>`.
JobId == Node \X (0 .. MaxStarts)
JobState == {"none", "waiting", "gotNode", "calling", "applied", "pushing", "delayed"}
Job == [state : JobState, tries : Nat, stalls : Nat, set : Inbounds, users : SUBSET User]
NoJob == [state |-> "none", tries |-> 0, stalls |-> 0, set |-> NoInbounds, users |-> {}]

CreateBindingOp(n, p) == [op |-> "createBinding", profile |-> p, nodes |-> {n}]
DeleteProfileOp(p, N) == [op |-> "deleteProfile", profile |-> p, nodes |-> N]
AdminOp == [op : {"createBinding", "deleteProfile"}, profile : Profile, nodes : SUBSET Node]

-----------------------------------------------------------------------------
(* State functions *)

Live(n) == nodeRow[n] = "live"
BoundTo(p) == {n \in Node : <<n, p>> \in bindings}

Running == {j \in JobId : job[j].state \in {"gotNode", "calling", "applied", "pushing"}}

\* fetchActiveUsers: the status and the date, and no look at deletedAt.
fetchActiveUsers == {u \in User : row[u] \in {"active", "deleted"}}

\* want with what profile p resolves to on node n changed.
Resolved(n, p, v) == [want EXCEPT ![n] = [@ EXCEPT ![p] = v]]

\* Job j in state s, the rest of its record kept.
Now(j, s) == [job EXCEPT ![j] = [@ EXCEPT !.state = s]]
Retried(j) == [NoJob EXCEPT !.state = "delayed", !.stalls = job[j].stalls, !.tries = job[j].tries + 1]

Due(N) == [x \in DOMAIN todo |-> IF x \in N THEN todo[x] + 1 ELSE todo[x]]
Handled(x) == [todo EXCEPT ![x] = @ - 1]

\* While a node is not "online" nothing is lost on it: the poll that finds it
\* back pushes everything again.
Blame(N, reason) == [n \in Node |-> IF n \in N /\ status[n] = "online" THEN reason ELSE why[n]]
Healed(N) == [n \in Node |-> IF n \in N THEN "none" ELSE why[n]]

\* BOUND: requests and work in memory at one time.
Room == Cardinality(admin) < MaxRequests /\ \A x \in DOMAIN todo : todo[x] < MaxDue

-----------------------------------------------------------------------------
(* profiles.service.ts, nodes.service.ts: the changes of an admin *)

Requested == UNCHANGED <<row, status, poll, beat, queueVars, stray, agentVars, why>>

NewVersion == version < MaxVersion /\ version' = version + 1

\* createBinding: the row, then ensureDefaultHost, then the event.
InsertBinding(n, p) ==
    /\ Room /\ Live(n) /\ <<n, p>> \notin bindings
    /\ NewVersion
    /\ bindings' = bindings \cup {<<n, p>>}
    /\ want' = Resolved(n, p, version')
    /\ admin' = admin \cup {CreateBindingOp(n, p)}
    /\ UNCHANGED <<nodeRow, todo>> /\ Requested

EmitBindingCreated(n, p) ==
    /\ CreateBindingOp(n, p) \in admin
    /\ admin' = admin \ {CreateBindingOp(n, p)}
    /\ todo' = Due({n})
    /\ UNCHANGED <<nodeRow, bindings, want, version>> /\ Requested

\* ensureDefaultHost throws: the row stays, the event is never emitted.
DefaultHostThrows(n, p) ==
    /\ "db" \in Faults
    /\ CreateBindingOp(n, p) \in admin
    /\ admin' = admin \ {CreateBindingOp(n, p)}
    /\ why' = Blame({n}, "lostEvent")
    /\ UNCHANGED <<dbVars, todo, poll, beat, queueVars, stray, agentVars>>

\* updateBinding, deleteBinding: the row and the event in one continuation.
UpdateBinding(n, p, enabled) ==
    /\ Room /\ <<n, p>> \in bindings
    /\ NewVersion
    /\ want' = Resolved(n, p, IF enabled THEN version' ELSE 0)
    /\ todo' = Due({n})
    /\ UNCHANGED <<nodeRow, bindings, admin>> /\ Requested

DeleteBinding(n, p) ==
    /\ Room /\ <<n, p>> \in bindings
    /\ bindings' = bindings \ {<<n, p>>}
    /\ want' = Resolved(n, p, 0)
    /\ todo' = Due({n})
    /\ UNCHANGED <<nodeRow, version, admin>> /\ Requested

\* updateProfile: E are the nodes whose binding is enabled afterwards (the
\* profile's own flag and the bindings' decide).
UpdateProfile(p, E) ==
    /\ Room /\ BoundTo(p) # {} /\ E \subseteq BoundTo(p)
    /\ NewVersion
    /\ want' = [n \in Node |-> [want[n] EXCEPT ![p] = IF n \in E THEN version' ELSE 0]]
    /\ todo' = Due({p})
    /\ UNCHANGED <<nodeRow, bindings, admin>> /\ Requested

\* deleteProfile: the affected nodes are read first ...
ReadAffected(p) ==
    /\ Room /\ BoundTo(p) # {}
    /\ admin' = admin \cup {DeleteProfileOp(p, BoundTo(p))}
    /\ UNCHANGED <<nodeRow, bindings, want, version, todo>> /\ Requested

\* ... then the delete cascades to the bindings of that moment.
DeleteProfile(p, N) ==
    /\ DeleteProfileOp(p, N) \in admin
    /\ admin' = admin \ {DeleteProfileOp(p, N)}
    /\ bindings' = {b \in bindings : b[2] # p}
    /\ want' = [n \in Node |-> [want[n] EXCEPT ![p] = 0]]
    /\ todo' = Due(N)
    /\ why' = Blame(BoundTo(p) \ N, "unannounced")
    /\ UNCHANGED <<nodeRow, version, row, status, poll, beat, queueVars, stray, agentVars>>

CreateNode(n) ==
    /\ Room /\ nodeRow[n] = "absent"
    /\ nodeRow' = [nodeRow EXCEPT ![n] = "live"]
    /\ todo' = Due({n})
    /\ UNCHANGED <<bindings, want, version, admin>> /\ Requested

\* deleteNode: deleteMany of the bindings, then the soft delete.
DropBindings(n) ==
    /\ Live(n) /\ \E p \in Profile : <<n, p>> \in bindings
    /\ bindings' = {b \in bindings : b[1] # n}
    /\ want' = [want EXCEPT ![n] = NoInbounds]
    /\ why' = Blame({n}, "unannounced")
    /\ UNCHANGED <<nodeRow, version, admin, todo, row, status, poll, beat, queueVars, stray,
                   agentVars>>

DeleteNode(n) ==
    /\ Live(n)
    /\ nodeRow' = [nodeRow EXCEPT ![n] = "deleted"]
    /\ UNCHANGED <<bindings, want, version, admin, todo>> /\ Requested

\* The user's status changes, or he is deleted, and the agents that run follow.
SetUser(u, s) ==
    /\ <<row[u], s>> \in UserMoves /\ s # "lapsed" /\ <<row[u], s>> # <<"lapsed", "active">>
    /\ row' = [row EXCEPT ![u] = s]
    /\ holds' = [n \in Node |-> IF ~up[n] \/ ~Live(n) THEN holds[n]
                                ELSE IF s = "active" THEN holds[n] \cup {u}
                                ELSE holds[n] \ {u}]
    /\ UNCHANGED <<nodeRow, status, bindings, want, version, panelVars, queueVars, stray,
                   start, up, file, runs, why>>

\* His date passes, or an admin moves it before the review has found him: the
\* status stays what it was, so there is no event and no agent is told.
Lapse(u) ==
    /\ <<"active", "lapsed">> \in UserMoves /\ row[u] = "active"
    /\ row' = [row EXCEPT ![u] = "lapsed"]
    /\ UNCHANGED <<nodeRow, status, bindings, want, version, panelVars, queueVars, stray,
                   agentVars, why>>

Extend(u) ==
    /\ <<"lapsed", "active">> \in UserMoves /\ row[u] = "lapsed"
    /\ row' = [row EXCEPT ![u] = "active"]
    /\ why' = Blame({n \in Node : up[n] /\ u \notin holds[n]}, "extended")
    /\ UNCHANGED <<nodeRow, status, bindings, want, version, panelVars, queueVars, stray,
                   agentVars>>

-----------------------------------------------------------------------------
(* inbounds.events.ts, nodes.cron.ts, heartbeat.routes.ts: who adds jobs *)

\* The job has already read what the node should run.
HasRead(j) == job[j].state \in {"calling", "applied", "pushing"}

\* BullMQ ignores an add whose id exists, whatever the state of that job.
Add(j) ==
    IF job[j].state = "none"
    THEN /\ job' = Now(j, "waiting")
         /\ wait' = Append(wait, j)
         /\ why' = Healed({j[1]})
    ELSE /\ UNCHANGED <<job, wait>>
         /\ why' = IF HasRead(j) THEN Blame({j[1]}, "coalesced") ELSE why

Enqueue(n) ==
    /\ todo[n] > 0
    /\ Add(<<n, 0>>)
    /\ todo' = Handled(n)
    /\ UNCHANGED <<dbVars, admin, poll, beat, known, stray, agentVars>>

\* The poll catches a rejected add. (An event's add is not caught: the
\* unhandled rejection ends the process, which is PanelCrash.)
AddRejected(n) ==
    /\ "redis" \in Faults
    /\ todo[n] > 0
    /\ todo' = Handled(n)
    /\ why' = Blame({n}, "lostEvent")
    /\ UNCHANGED <<dbVars, admin, poll, beat, queueVars, stray, agentVars>>

\* profile.updated: findMany of the bindings, then one add per node.
FanOut(p) ==
    /\ todo[p] > 0
    /\ todo' = [x \in DOMAIN todo |-> IF x \in BoundTo(p) THEN todo[x] + 1
                                      ELSE IF x = p THEN todo[x] - 1 ELSE todo[x]]
    /\ UNCHANGED <<dbVars, admin, poll, beat, queueVars, stray, agentVars, why>>

FanOutThrows(p) ==
    /\ "db" \in Faults
    /\ todo[p] > 0
    /\ todo' = Handled(p)
    /\ why' = Blame(BoundTo(p), "lostEvent")
    /\ UNCHANGED <<dbVars, admin, poll, beat, queueVars, stray, agentVars>>

\* What checkOne makes of a node; a degraded agent is online.
Answers(n) == {a \in {"online", "unreachable"} :
                 IF a = "online" THEN up[n] ELSE ~up[n] \/ "refused" \in Faults}

\* pollNodeStatuses: find all nodes, ask each; the next tick waits for all of
\* them. (Find and answer are one step: this task alone writes the status.)
Poll ==
    /\ \A n \in Node : poll[n] = "idle"
    /\ \E n \in Node : Live(n)
    /\ poll' \in {f \in [Node -> {"idle", "online", "unreachable"}] :
                    \A n \in Node : IF Live(n) THEN f[n] \in Answers(n) ELSE f[n] = "idle"}
    /\ UNCHANGED <<dbVars, admin, todo, beat, queueVars, stray, agentVars, why>>

\* MUTANT: a node that comes back is not pushed again.
PollWrite_NoResync(n) ==
    /\ poll[n] \in {"online", "unreachable"}
    /\ status' = [status EXCEPT ![n] = poll[n]]
    /\ poll' = [poll EXCEPT ![n] = "idle"]
    /\ why' = IF poll[n] # "online" THEN Healed({n}) ELSE why
    /\ UNCHANGED <<row, nodeRow, bindings, want, version, admin, todo, beat, queueVars, stray,
                   agentVars>>

\* The update, and the add when the node came back.
PollWrite(n) ==
    /\ poll[n] \in {"online", "unreachable"}
    /\ todo[n] < MaxDue
    /\ status' = [status EXCEPT ![n] = poll[n]]
    /\ todo' = IF poll[n] = "online" /\ status[n] # "online" THEN Due({n}) ELSE todo
    /\ poll' = [poll EXCEPT ![n] = "idle"]
    /\ why' = IF poll[n] # "online" THEN Healed({n}) ELSE why
    /\ UNCHANGED <<row, nodeRow, bindings, want, version, admin, beat, queueVars, stray,
                   agentVars>>

\* trackAgentStart: get and set; the add comes an await later. A node never
\* seen before is not resynced.
Heartbeat(n) ==
    /\ Live(n) /\ up[n] /\ beat[n] = 0 /\ known[n] # start[n]
    /\ known' = [known EXCEPT ![n] = start[n]]
    /\ beat' = [beat EXCEPT ![n] = IF known[n] # 0 THEN start[n] ELSE 0]
    /\ why' = IF known[n] = 0 /\ start[n] > 1 THEN Blame({n}, "unseenRestart") ELSE why
    /\ UNCHANGED <<dbVars, admin, todo, poll, job, wait, stray, agentVars>>

AddRestartJob(n) ==
    /\ beat[n] # 0
    /\ Add(<<n, beat[n]>>)
    /\ beat' = [beat EXCEPT ![n] = 0]
    /\ UNCHANGED <<dbVars, admin, todo, poll, known, stray, agentVars>>

\* The fire-and-forget catch: the start time is stored all the same.
RestartAddRejected(n) ==
    /\ "redis" \in Faults
    /\ beat[n] # 0
    /\ beat' = [beat EXCEPT ![n] = 0]
    /\ why' = Blame({n}, "lostEvent")
    /\ UNCHANGED <<dbVars, admin, todo, poll, queueVars, stray, agentVars>>

-----------------------------------------------------------------------------
(* inbounds.queue.ts: the worker. A job that ends is removed, done or not. *)

Worked == UNCHANGED <<dbVars, panelVars, known, start, up>>

\* MUTANT: a job that failed for good keeps its id (removeOnFail with an age).
EndAttempt_KeepsId(j) ==
    /\ job' = [job EXCEPT ![j] = IF job[j].tries + 1 < Attempts THEN Retried(j)
                                 ELSE [NoJob EXCEPT !.state = "failed"]]
    /\ UNCHANGED why

EndAttempt(j) ==
    IF job[j].tries + 1 < Attempts
    THEN /\ job' = [job EXCEPT ![j] = Retried(j)]
         /\ UNCHANGED why
    ELSE /\ job' = [job EXCEPT ![j] = NoJob]
         /\ why' = Blame({j[1]}, "gaveUp")

\* A free slot takes the oldest job; fetchNode skips a node that is gone.
Take(j) ==
    /\ wait # <<>> /\ j = Head(wait)
    /\ Cardinality(Running) < Concurrency
    /\ wait' = Tail(wait)
    /\ job' = [job EXCEPT ![j] = IF Live(j[1]) THEN [@ EXCEPT !.state = "gotNode"] ELSE NoJob]
    /\ Worked /\ UNCHANGED <<stray, file, runs, holds, why>>

\* fetchEnabledInbounds, and the request leaves.
FetchInbounds(j) ==
    /\ job[j].state = "gotNode"
    /\ job' = [job EXCEPT ![j] = [@ EXCEPT !.state = "calling", !.set = want[j[1]]]]
    /\ Worked /\ UNCHANGED <<wait, stray, file, runs, holds, why>>

\* handleApplyInbounds: the whole set is written, then the inbounds of P reach
\* their adapters; adapters of no pushed inbound keep what they run.
Configured(n, set, P) == [p \in Profile |-> IF p \in P /\ set[p] # 0 THEN set[p] ELSE runs[n][p]]

TakeSet(n, set, P) ==
    /\ file' = [file EXCEPT ![n] = set]
    /\ runs' = [runs EXCEPT ![n] = Configured(n, set, P)]

\* An inbound of the past, or one that is wanted no more.
SetsBack(n, set) == \E p \in Profile : set[p] \notin {0, want[n][p]}

\* MUTANT: nothing new to configure, so nothing more to do.
ApplySucceeds_SkipsUsers(j) ==
    LET n == j[1]
    IN  /\ job[j].state = "calling" /\ up[n]
        /\ TakeSet(n, job[j].set, Profile)
        /\ job' = [job EXCEPT ![j] = IF runs' = runs THEN NoJob ELSE [@ EXCEPT !.state = "applied"]]
        /\ why' = IF SetsBack(n, job[j].set) THEN Blame({n}, "staleApply") ELSE why
        /\ Worked /\ UNCHANGED <<wait, stray, holds>>

ApplySucceeds(j) ==
    LET n == j[1]
    IN  /\ job[j].state = "calling" /\ up[n]
        /\ TakeSet(n, job[j].set, Profile)
        /\ job' = [job EXCEPT ![j] = IF job[j].set = NoInbounds THEN NoJob
                                     ELSE [@ EXCEPT !.state = "applied"]]
        /\ why' = IF SetsBack(n, job[j].set) THEN Blame({n}, "staleApply") ELSE why
        /\ Worked /\ UNCHANGED <<wait, stray, holds>>

\* MUTANT: the error answer is logged and not thrown again.
ApplyPartlyFails_Swallowed(j, P) ==
    /\ "badReply" \in Faults
    /\ job[j].state = "calling" /\ up[j[1]]
    /\ TakeSet(j[1], job[j].set, P)
    /\ job' = [job EXCEPT ![j] = NoJob]
    /\ Worked /\ UNCHANGED <<wait, stray, holds, why>>

\* 500: some adapters failed; or all is well and the answer is lost.
ApplyPartlyFails(j, P) ==
    LET n == j[1]
    IN  /\ "badReply" \in Faults
        /\ job[j].state = "calling" /\ up[n]
        /\ TakeSet(n, job[j].set, P)
        /\ EndAttempt(j)
        /\ Worked /\ UNCHANGED <<wait, stray, holds>>

ApplyRefused(j) ==
    /\ job[j].state = "calling"
    /\ ~up[j[1]] \/ "refused" \in Faults
    /\ EndAttempt(j)
    /\ Worked /\ UNCHANGED <<wait, stray, file, runs, holds>>

ApplyTimesOut(j) ==
    /\ "timeout" \in Faults
    /\ job[j].state = "calling"
    /\ stray' = stray \cup {[node |-> j[1], set |-> job[j].set]}
    /\ EndAttempt(j)
    /\ Worked /\ UNCHANGED <<wait, file, runs, holds>>

\* A request of the past arrives, or never does.
StrayApplied(x) ==
    /\ up[x.node]
    /\ stray' = stray \ {x}
    /\ TakeSet(x.node, x.set, Profile)
    /\ why' = IF SetsBack(x.node, x.set) THEN Blame({x.node}, "staleApply") ELSE why
    /\ Worked /\ UNCHANGED <<job, wait, holds>>

StrayLost(x) ==
    /\ stray' = stray \ {x}
    /\ Worked /\ UNCHANGED <<job, wait, file, runs, holds, why>>

FetchUsers(j) ==
    /\ job[j].state = "applied"
    /\ job' = [job EXCEPT ![j] = [@ EXCEPT !.state = "pushing", !.users = fetchActiveUsers]]
    /\ Worked /\ UNCHANGED <<wait, stray, file, runs, holds, why>>

\* One addUser after the other; the last ends the job.
Pushed(j, u) ==
    LET rest == job[j].users \ {u}
    IN  job' = [job EXCEPT ![j] = IF rest = {} THEN NoJob ELSE [@ EXCEPT !.users = rest]]

PushUser(j, u) ==
    /\ job[j].state = "pushing" /\ u \in job[j].users /\ up[j[1]]
    /\ holds' = [holds EXCEPT ![j[1]] = @ \cup {u}]
    /\ Pushed(j, u)
    /\ Worked /\ UNCHANGED <<wait, stray, file, runs, why>>

\* Logged, never retried.
PushFails(j, u) ==
    /\ job[j].state = "pushing" /\ u \in job[j].users
    /\ ~up[j[1]] \/ "refused" \in Faults
    /\ Pushed(j, u)
    /\ why' = Blame({j[1]}, "pushFailed")
    /\ Worked /\ UNCHANGED <<wait, stray, file, runs, holds>>

NobodyToPush(j) ==
    /\ job[j].state = "pushing" /\ job[j].users = {}
    /\ job' = [job EXCEPT ![j] = NoJob]
    /\ Worked /\ UNCHANGED <<wait, stray, file, runs, holds, why>>

\* One of the job's queries throws.
QueryThrows(j) ==
    /\ "db" \in Faults
    /\ job[j].state \in {"gotNode", "applied"}
    /\ EndAttempt(j)
    /\ Worked /\ UNCHANGED <<wait, stray, file, runs, holds>>

\* The backoff is over.
Promote(j) ==
    /\ job[j].state = "delayed"
    /\ job' = Now(j, "waiting")
    /\ wait' = Append(wait, j)
    /\ Worked /\ UNCHANGED <<stray, file, runs, holds, why>>

-----------------------------------------------------------------------------
(* The agent process and the panel process *)

AgentStart(n) ==
    /\ nodeRow[n] # "absent" /\ ~up[n]
    /\ start[n] < MaxStarts
    /\ up' = [up EXCEPT ![n] = TRUE]
    /\ start' = [start EXCEPT ![n] = @ + 1]
    /\ UNCHANGED <<dbVars, panelVars, queueVars, stray, file, runs, holds, why>>

\* inbounds.json stays and is never read back: a new process knows nothing.
AgentStop(n) ==
    /\ "agentStop" \in Faults
    /\ up[n]
    /\ up' = [up EXCEPT ![n] = FALSE]
    /\ runs' = [runs EXCEPT ![n] = NoInbounds]
    /\ holds' = [holds EXCEPT ![n] = {}]
    /\ UNCHANGED <<dbVars, panelVars, queueVars, stray, start, file, why>>

Stalled == {j \in Running : job[j].stalls < MaxStalls}
Dropped == Running \ Stalled

\* Nodes some work in the panel's memory was about.
Forgotten ==
    {n \in Node : \/ todo[n] > 0 \/ beat[n] # 0
                  \/ \E p \in Profile : todo[p] > 0 /\ <<n, p>> \in bindings
                  \/ \E a \in admin : a.op = "createBinding" /\ n \in a.nodes}

Orders(S) == {q \in [1 .. Cardinality(S) -> S] : \A x \in S : \E i \in DOMAIN q : q[i] = x}

PanelCrash ==
    /\ "crash" \in Faults
    /\ Running # {} \/ Forgotten # {}
    /\ admin' = {} /\ todo' = [x \in Node \cup Profile |-> 0]
    /\ poll' = [n \in Node |-> "idle"] /\ beat' = [n \in Node |-> 0]
    /\ job' = [j \in JobId |->
                 IF j \in Stalled
                 THEN [NoJob EXCEPT !.state = "waiting", !.tries = job[j].tries,
                                    !.stalls = job[j].stalls + 1]
                 ELSE IF j \in Dropped THEN NoJob ELSE job[j]]
    /\ \E q \in Orders(Stalled) : wait' = q \o wait
    /\ stray' = stray \cup {[node |-> j[1], set |-> job[j].set] :
                              j \in {k \in Running : job[k].state = "calling"}}
    /\ why' = [n \in Node |-> IF status[n] # "online" THEN why[n]
                              ELSE IF n \in Forgotten THEN "lostEvent"
                              ELSE IF \E j \in Dropped : j[1] = n THEN "gaveUp" ELSE why[n]]
    /\ UNCHANGED <<dbVars, known, agentVars>>

-----------------------------------------------------------------------------
Init ==
    /\ row = [u \in User |-> "active"]
    /\ nodeRow = [n \in Node |-> "absent"]
    /\ status = [n \in Node |-> "unknown"]
    /\ bindings = {}
    /\ want = [n \in Node |-> NoInbounds]
    /\ version = 0
    /\ admin = {}
    /\ todo = [x \in Node \cup Profile |-> 0]
    /\ poll = [n \in Node |-> "idle"]
    /\ known = [n \in Node |-> 0]
    /\ beat = [n \in Node |-> 0]
    /\ job = [j \in JobId |-> NoJob]
    /\ wait = <<>>
    /\ stray = {}
    /\ start = [n \in Node |-> 0]
    /\ up = [n \in Node |-> FALSE]
    /\ file = [n \in Node |-> NoInbounds]
    /\ runs = [n \in Node |-> NoInbounds]
    /\ holds = [n \in Node |-> {}]
    /\ why = [n \in Node |-> "none"]

AdminStep ==
    \/ \E n \in Node, p \in Profile :
          \/ InsertBinding(n, p) \/ EmitBindingCreated(n, p) \/ DefaultHostThrows(n, p)
          \/ DeleteBinding(n, p)
          \/ \E enabled \in BOOLEAN : UpdateBinding(n, p, enabled)
    \/ \E p \in Profile, N \in SUBSET Node : UpdateProfile(p, N) \/ DeleteProfile(p, N)
    \/ \E p \in Profile : ReadAffected(p)
    \/ \E n \in Node : CreateNode(n) \/ DropBindings(n) \/ DeleteNode(n)
    \/ \E u \in User : Lapse(u) \/ Extend(u) \/ \E s \in UserState : SetUser(u, s)

EnqueueStep(n) == Enqueue(n) \/ AddRejected(n)
RestartStep(n) == AddRestartJob(n) \/ RestartAddRejected(n)
FanOutStep(p) == FanOut(p) \/ FanOutThrows(p)

WorkerStep(j) ==
    \/ Take(j) \/ FetchInbounds(j) \/ ApplySucceeds(j) \/ ApplyRefused(j) \/ ApplyTimesOut(j)
    \/ \E P \in SUBSET Profile : ApplyPartlyFails(j, P)
    \/ FetchUsers(j) \/ NobodyToPush(j) \/ QueryThrows(j) \/ Promote(j)
    \/ \E u \in User : PushUser(j, u) \/ PushFails(j, u)

Next ==
    \/ AdminStep
    \/ \E n \in Node : EnqueueStep(n) \/ PollWrite(n) \/ Heartbeat(n) \/ RestartStep(n)
    \/ \E p \in Profile : FanOutStep(p)
    \/ Poll
    \/ \E j \in JobId : WorkerStep(j)
    \/ \E x \in stray : StrayApplied(x) \/ StrayLost(x)
    \/ \E n \in Node : AgentStart(n) \/ AgentStop(n)
    \/ PanelCrash

Spec == Init /\ [][Next]_vars

\* The panel's event loop runs what is ready, its cron ticks, some busy worker
\* slot makes progress (timers and request timeouts included), and an agent
\* that runs sends heartbeats. Nothing is owed to one job rather than another.
PanelWork ==
    \/ \E n \in Node : EnqueueStep(n) \/ RestartStep(n)
    \/ \E p \in Profile : FanOutStep(p)
    \/ \E n \in Node, p \in Profile : EmitBindingCreated(n, p) \/ DefaultHostThrows(n, p)

Fairness ==
    /\ WF_vars(PanelWork)
    /\ WF_vars(Poll \/ \E n \in Node : PollWrite(n))
    /\ WF_vars(\E n \in Node : Heartbeat(n))
    /\ WF_vars(\E j \in JobId : WorkerStep(j))

FairSpec == Spec /\ Fairness

-----------------------------------------------------------------------------
(* Properties *)

TypeOK ==
    /\ row \in [User -> UserState]
    /\ nodeRow \in [Node -> {"absent", "live", "deleted"}]
    /\ status \in [Node -> {"unknown", "online", "unreachable"}]
    /\ bindings \in SUBSET (Node \X Profile)
    /\ want \in [Node -> Inbounds]
    /\ version \in Version
    /\ admin \in SUBSET AdminOp
    /\ todo \in [Node \cup Profile -> Nat]
    /\ poll \in [Node -> {"idle", "online", "unreachable"}]
    /\ known \in [Node -> 0 .. MaxStarts]
    /\ beat \in [Node -> 0 .. MaxStarts]
    /\ job \in [JobId -> Job]
    /\ wait \in Seq(JobId)
    /\ stray \in SUBSET [node : Node, set : Inbounds]
    /\ start \in [Node -> 0 .. MaxStarts]
    /\ up \in [Node -> BOOLEAN]
    /\ file \in [Node -> Inbounds]
    /\ runs \in [Node -> Inbounds]
    /\ holds \in [Node -> SUBSET User]
    /\ why \in [Node -> Reason]

\* A job of n will yet read what the node should run, or something that
\* leads to one is under way.
ReapplyDue(n) ==
    \/ \E j \in JobId : j[1] = n /\ job[j].state \in {"waiting", "gotNode", "delayed"}
    \/ todo[n] > 0
    \/ \E p \in Profile : todo[p] > 0 /\ <<n, p>> \in bindings
    \/ \E a \in admin : a.op = "createBinding" /\ n \in a.nodes
    \/ known[n] # start[n] \/ beat[n] # 0
    \/ status[n] # "online"

\* Every enabled binding runs as the tables say, and nothing runs for one that
\* is disabled or gone unless the agent has been sent a set without it: what
\* becomes of such an inbound is TornDown's.
ConfigSynced(n) ==
    \A p \in Profile : \/ runs[n][p] = want[n][p]
                       \/ want[n][p] = 0 /\ file[n][p] = 0

\* The push under way says what the tables say.
Carries(j) == job[j].state = "calling" /\ job[j].set = want[j[1]]

\* Agents are owed users once they have an inbound to serve them by.
Lacks(n, u) == want[n] # NoInbounds /\ row[u] = "active" /\ u \notin holds[n]

(* An agent that does not run what the bindings of its node say has a push
   coming that will carry the present state, or one of the known losses
   happened: an add swallowed by a job that had already read, attempts
   exhausted, work lost with the panel's memory or a refused add, an older
   request that arrived last, a restart the panel could not tell from a first
   start, bindings that went with their profile or node unannounced. *)
ConfigExplained ==
    \A n \in Node : Live(n) /\ up[n] /\ ~ConfigSynced(n) =>
        \/ ReapplyDue(n)
        \/ \E j \in JobId : j[1] = n /\ Carries(j)
        \/ why[n] # "none"

(* The same for the users: an agent with inbounds lacks an active user only
   while the push that restores him is due or under way (this is what
   heartbeat and poll are for, since a new process starts with no users), or
   after one of those losses, or because his date was moved after a push had
   left him out for it: his status never changed, so nobody is told. *)
UsersExplained ==
    \A n \in Node, u \in User :
        Live(n) /\ up[n] /\ Lacks(n, u) =>
            \/ ReapplyDue(n)
            \/ \E j \in JobId :
                  /\ j[1] = n
                  /\ \/ job[j].state = "calling" /\ job[j].set # NoInbounds
                     \/ job[j].state = "applied"
                     \/ job[j].state = "pushing" /\ u \in job[j].users
            \/ why[n] # "none"

\* Nothing is under way.
Quiet ==
    /\ admin = {} /\ stray = {}
    /\ \A x \in Node \cup Profile : todo[x] = 0
    /\ \A j \in JobId : job[j].state = "none"
    /\ \A n \in Node : poll[n] = "idle" /\ beat[n] = 0 /\ known[n] = start[n]
    /\ \A n \in Node : Live(n) => status[n] = "online"

(* inbounds.events.ts:22-24, "if an applyNodeInbounds is already queued for
   this node, don't add another. The currently-running one will read the
   latest state from the DB anyway": without failures, an agent runs every
   enabled binding as it is once nothing is under way. VIOLATED: the running job may
   have read before the change, and the add that the change caused is
   ignored until that job has pushed its last user. *)
LatestStateIsApplied ==
    Quiet => \A n \in Node, p \in Profile :
                Live(n) /\ up[n] /\ want[n][p] # 0 => runs[n][p] = want[n][p]

(* nodes.transport.ts:216-222, "Push the FULL inbound set for this node ...
   Empty array is valid (means "this node has no inbounds yet"); the
   node-agent will tear down any active listener it had": no agent runs an
   inbound that the set it was last sent does not have. VIOLATED: the handler
   (server.go:296) visits the inbounds it is sent, and an adapter whose
   protocol is not among them goes on as it is, for as long as its process. *)
TornDown == \A n \in Node, p \in Profile : file[n][p] = 0 => runs[n][p] = 0

(* The job that owns a node's id always leaves it, so that the deadlock the
   comment at removeOnFail describes (inbounds.queue.ts:31-42) cannot come
   back. *)
IdIsFreed == \A n \in Node : job[<<n, 0>>].state # "none" ~> job[<<n, 0>>].state = "none"

(* A running agent that lags behind its bindings, or lacks an active user,
   does not stay so: there comes a time when it has both, unless a known loss
   happened. *)
Lags(n) == ~ConfigSynced(n) \/ \E u \in User : Lacks(n, u)

AgentCatchesUp ==
    \A n \in Node :
        Live(n) /\ up[n] /\ Lags(n) ~> ~Live(n) \/ ~up[n] \/ ~Lags(n) \/ why[n] # "none"

=============================================================================

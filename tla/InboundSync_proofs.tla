------------------------- MODULE InboundSync_proofs -------------------------
(***************************************************************************)
(* Proofs about InboundSync: its type invariant, and that an agent whose   *)
(* configuration or whose users lag behind the tables is always explained, *)
(* for any numbers of users, nodes, profiles, workers, attempts, stalls    *)
(* and restarts, and whatever failures the environment may produce.        *)
(***************************************************************************)
EXTENDS InboundSync, TLAPS, FiniteSetTheorems

-----------------------------------------------------------------------------
(* The inductive invariant *)

\* A restart that the next heartbeat of the agent will tell from a first start.
Restarted(n) == known[n] # start[n] /\ ~(known[n] = 0 /\ start[n] = 1)

\* A job of n has still to read its bindings, or one is bound to be added.
Owed(n) ==
    \/ \E j \in JobId : j[1] = n /\ job[j].state \in {"waiting", "gotNode", "delayed"}
    \/ todo[n] > 0
    \/ \E a \in admin : a.op = "createBinding" /\ n \in a.nodes
    \/ Restarted(n)
    \/ beat[n] # 0
    \/ status[n] # "online"

\* Nothing need be shown of n: it is gone, down, blamed, or a push is owed.
Excused(n) == ~Live(n) \/ ~up[n] \/ why[n] # "none" \/ Owed(n)

\* In no profile whose change is still to be fanned out to n.
Settled(n) == {p \in Profile : ~(todo[p] > 0 /\ <<n, p>> \in bindings)}
Enabled(n) == {p \in Settled(n) : want[n][p] # 0}

\* The agent runs p as the tables say, or was sent a set without it.
SyncedAt(n, p) == \/ runs[n][p] = want[n][p]
                  \/ want[n][p] = 0 /\ file[n][p] = 0

\* The configurations agree on what is settled, or a push under way will make them.
ConfigKept(n) ==
    \/ \A p \in Settled(n) : SyncedAt(n, p)
    \/ \E j \in JobId : /\ j[1] = n /\ job[j].state = "calling"
                        /\ \A p \in Settled(n) : job[j].set[p] = want[n][p]

\* The job will yet tell the agent of user u.
Restores(j, u) ==
    \/ job[j].state = "calling" /\ job[j].set # NoInbounds
    \/ job[j].state = "applied"
    \/ job[j].state = "pushing" /\ u \in job[j].users

UserKept(n, u) ==
    \/ row[u] # "active" \/ u \in holds[n]
    \/ Enabled(n) = {}
    \/ \E j \in JobId : j[1] = n /\ Restores(j, u)

Kept(n) == Excused(n) \/ (ConfigKept(n) /\ \A u \in User : UserKept(n, u))

\* A node that never ran was never seen.
Unborn(n) ==
    /\ known[n] <= start[n]
    /\ start[n] = 0 => ~up[n] /\ status[n] # "online" /\ poll[n] # "online"

\* Nothing is resolved for a profile the node is not bound to.
Bound(n) == \A p \in Profile : want[n][p] # 0 => <<n, p>> \in bindings

IInv == TypeOK /\ \A n \in Node : Unborn(n) /\ Bound(n) /\ Kept(n)

-----------------------------------------------------------------------------
(* The type invariant *)

(* The empty configuration and the absent job have their types. *)
LEMMA Blanks == NoInbounds \in Inbounds /\ NoJob \in Job
BY BoundsAssumption DEF NoInbounds, Inbounds, Version, NoJob, Job, JobState

(* JobId is finite, whatever the bound on restarts. *)
LEMMA JobIdFinite == IsFiniteSet(JobId)
<1>1. IsFiniteSet(0 .. MaxStarts)
  BY BoundsAssumption, FS_Interval
<1>2. IsFiniteSet(Node)
  BY SetsAssumption
<1>. QED BY <1>1, <1>2, FS_Product DEF JobId

(* An order of a set of jobs is a sequence of jobs. *)
LEMMA OrdersAreSequences ==
  ASSUME NEW S \in SUBSET JobId, NEW q \in Orders(S)
  PROVE  q \in Seq(JobId)
<1>1. Cardinality(S) \in Nat
  BY JobIdFinite, FS_Subset, FS_CardinalityType
<1>2. q \in [1 .. Cardinality(S) -> JobId]
  BY DEF Orders
<1>. QED BY <1>1, <1>2

(* The words the code and the model use for a job's state and for a loss. *)
LEMMA Words ==
  /\ "none" \in JobState /\ "waiting" \in JobState /\ "gotNode" \in JobState
  /\ "calling" \in JobState /\ "applied" \in JobState /\ "pushing" \in JobState
  /\ "delayed" \in JobState
  /\ "none" \in Reason /\ "coalesced" \in Reason /\ "gaveUp" \in Reason
  /\ "lostEvent" \in Reason /\ "staleApply" \in Reason /\ "pushFailed" \in Reason
  /\ "unseenRestart" \in Reason /\ "unannounced" \in Reason /\ "extended" \in Reason
BY DEF JobState, Reason

(* The parts of a job. *)
LEMMA JobTypes ==
  ASSUME TypeOK, NEW j \in JobId
  PROVE  /\ j[1] \in Node /\ job[j] \in Job /\ job[j].state \in JobState
         /\ job[j].set \in Inbounds /\ job[j].users \in SUBSET User
         /\ job[j].tries \in Nat /\ job[j].stalls \in Nat
         /\ \A r \in Job : [job EXCEPT ![j] = r] \in [JobId -> Job]
<1>1. job \in [JobId -> Job] /\ j[1] \in Node
  BY DEF TypeOK, JobId
<1>. QED BY <1>1 DEF Job

(* The helpers that build next states have the types of what they replace. *)
LEMMA HelperTypes ==
  ASSUME TypeOK
  PROVE  /\ \A n \in Node, p \in Profile, v \in Version : Resolved(n, p, v) \in [Node -> Inbounds]
         /\ \A j \in JobId, s \in JobState : Now(j, s) \in [JobId -> Job]
         /\ \A j \in JobId : Retried(j) \in Job
         /\ \A N : Due(N) \in [Node \cup Profile -> Nat]
         /\ \A x \in Node \cup Profile : todo[x] > 0 => Handled(x) \in [Node \cup Profile -> Nat]
         /\ \A N : \A w \in Reason : Blame(N, w) \in [Node -> Reason]
         /\ \A N : Healed(N) \in [Node -> Reason]
         /\ fetchActiveUsers \in SUBSET User
         /\ \A n \in Node, set \in Inbounds : \A P :
               /\ Configured(n, set, P) \in Inbounds
               /\ TakeSet(n, set, P) => /\ file' \in [Node -> Inbounds]
                                        /\ runs' \in [Node -> Inbounds]
<1>1. \A n \in Node, p \in Profile, v \in Version : Resolved(n, p, v) \in [Node -> Inbounds]
  BY DEF TypeOK, Resolved, Inbounds
<1>2. ASSUME NEW j \in JobId, NEW s \in JobState PROVE Now(j, s) \in [JobId -> Job]
  <2>1. [job[j] EXCEPT !.state = s] \in Job
    BY JobTypes DEF Job
  <2>. QED BY <2>1, JobTypes DEF Now
<1>3. ASSUME NEW j \in JobId PROVE Retried(j) \in Job
  <2>1. "delayed" \in JobState /\ job[j].tries + 1 \in Nat /\ job[j].stalls \in Nat
    BY Words, JobTypes
  <2>. QED BY <2>1, Blanks DEF Retried, Job
<1>4. \A N : Due(N) \in [Node \cup Profile -> Nat]
  BY DEF TypeOK, Due
<1>5. \A x \in Node \cup Profile : todo[x] > 0 => Handled(x) \in [Node \cup Profile -> Nat]
  BY DEF TypeOK, Handled
<1>6. /\ \A N : \A w \in Reason : Blame(N, w) \in [Node -> Reason]
      /\ \A N : Healed(N) \in [Node -> Reason]
  BY Words DEF TypeOK, Blame, Healed
<1>7. fetchActiveUsers \in SUBSET User
  BY DEF fetchActiveUsers
<1>8. \A n \in Node, set \in Inbounds : \A P : Configured(n, set, P) \in Inbounds
  BY DEF TypeOK, Configured, Inbounds
<1>9. ASSUME NEW n \in Node, NEW set \in Inbounds, NEW P, TakeSet(n, set, P)
      PROVE  file' \in [Node -> Inbounds] /\ runs' \in [Node -> Inbounds]
  BY <1>8, <1>9 DEF TakeSet, TypeOK
<1>. QED BY <1>1, <1>2, <1>3, <1>4, <1>5, <1>6, <1>7, <1>8, <1>9

(* What an add, and the end of an attempt, leave well typed. *)
LEMMA AddTypes ==
  ASSUME TypeOK, NEW j \in JobId, Add(j)
  PROVE  job' \in [JobId -> Job] /\ wait' \in Seq(JobId) /\ why' \in [Node -> Reason]
<1>0. wait \in Seq(JobId) /\ job \in [JobId -> Job] /\ why \in [Node -> Reason]
  BY DEF TypeOK
<1>1. CASE job[j].state = "none"
  <2>1. job' = Now(j, "waiting") /\ wait' = Append(wait, j) /\ why' = Healed({j[1]})
    BY <1>1 DEF Add
  <2>2. job' \in [JobId -> Job]
    BY <2>1, HelperTypes, Words
  <2>. QED BY <1>0, <2>1, <2>2, HelperTypes
<1>2. CASE job[j].state # "none"
  BY <1>0, <1>2, HelperTypes, Words DEF Add
<1>. QED BY <1>1, <1>2

(* The end of an attempt too. *)
LEMMA EndAttemptTypes ==
  ASSUME TypeOK, NEW j \in JobId, EndAttempt(j)
  PROVE  job' \in [JobId -> Job] /\ why' \in [Node -> Reason]
<1>0. why \in [Node -> Reason]
  BY DEF TypeOK
<1>1. CASE job[j].tries + 1 < Attempts
  BY <1>0, <1>1, HelperTypes, JobTypes DEF EndAttempt
<1>2. CASE ~(job[j].tries + 1 < Attempts)
  <2>1. job' = [job EXCEPT ![j] = NoJob] /\ why' = Blame({j[1]}, "gaveUp")
    BY <1>2 DEF EndAttempt
  <2>2. job' \in [JobId -> Job]
    BY <2>1, JobTypes, Blanks
  <2>. QED BY <2>1, <2>2, HelperTypes, Words
<1>. QED BY <1>1, <1>2

(* The initial states are well typed. *)
LEMMA TypeInit == Init => TypeOK
BY Blanks, BoundsAssumption
DEF Init, TypeOK, UserState, Version, Reason

(* A step of an admin, or of a user, keeps the types. *)
LEMMA AdminTypes == TypeOK /\ AdminStep => TypeOK'
<1>. SUFFICES ASSUME TypeOK, AdminStep PROVE TypeOK'
  OBVIOUS
<1>. USE BoundsAssumption DEF Requested, dbVars, panelVars, queueVars, agentVars
<1>a. /\ 0 \in Version
      /\ NewVersion => version' \in Version
  BY DEF TypeOK, Version, NewVersion
<1>1. CASE \E n \in Node, p \in Profile :
             \/ InsertBinding(n, p) \/ EmitBindingCreated(n, p) \/ DeleteBinding(n, p)
             \/ \E enabled \in BOOLEAN : UpdateBinding(n, p, enabled)
  <2>. PICK n \in Node, p \in Profile :
             \/ InsertBinding(n, p) \/ EmitBindingCreated(n, p) \/ DeleteBinding(n, p)
             \/ \E enabled \in BOOLEAN : UpdateBinding(n, p, enabled)
    BY <1>1
  <2>0. CreateBindingOp(n, p) \in AdminOp
    BY DEF CreateBindingOp, AdminOp
  <2>1. CASE InsertBinding(n, p)
    <3>1. want' \in [Node -> Inbounds]
      BY <1>a, <2>1, HelperTypes DEF InsertBinding
    <3>2. bindings' \in SUBSET (Node \X Profile) /\ admin' \in SUBSET AdminOp
      BY <2>0, <2>1 DEF InsertBinding, TypeOK
    <3>. QED BY <1>a, <2>1, <3>1, <3>2 DEF InsertBinding, TypeOK
  <2>2. CASE EmitBindingCreated(n, p)
    BY <2>2, HelperTypes, Words DEF EmitBindingCreated, TypeOK
  <2>3. CASE DeleteBinding(n, p)
    BY <1>a, <2>3, HelperTypes, Words DEF DeleteBinding, TypeOK
  <2>4. ASSUME NEW enabled \in BOOLEAN, UpdateBinding(n, p, enabled) PROVE TypeOK'
    BY <1>a, <2>4, HelperTypes, Words DEF UpdateBinding, TypeOK
  <2>. QED BY <2>1, <2>2, <2>3, <2>4
<1>2. CASE \E n \in Node, p \in Profile : DefaultHostThrows(n, p)
  <2>1. why' \in [Node -> Reason]
    BY <1>2, HelperTypes, Words DEF DefaultHostThrows
  <2>. QED BY <1>2, <2>1 DEF DefaultHostThrows, TypeOK
<1>3. ASSUME NEW p \in Profile, NEW N \in SUBSET Node, UpdateProfile(p, N) PROVE TypeOK'
  <2>1. want' \in [Node -> Inbounds]
    BY <1>a, <1>3 DEF UpdateProfile, NewVersion, TypeOK, Inbounds
  <2>. QED BY <1>a, <1>3, <2>1, HelperTypes, Words DEF UpdateProfile, TypeOK
<1>4. ASSUME NEW p \in Profile, NEW N \in SUBSET Node, DeleteProfile(p, N) PROVE TypeOK'
  <2>1. want' \in [Node -> Inbounds]
    BY <1>a, <1>4 DEF DeleteProfile, TypeOK, Inbounds
  <2>2. why' \in [Node -> Reason] /\ todo' \in [Node \cup Profile -> Nat]
    BY <1>4, HelperTypes, Words DEF DeleteProfile
  <2>. QED BY <1>4, <2>1, <2>2 DEF DeleteProfile, TypeOK
<1>5. ASSUME NEW p \in Profile, ReadAffected(p) PROVE TypeOK'
  <2>1. DeleteProfileOp(p, BoundTo(p)) \in AdminOp
    BY DEF DeleteProfileOp, AdminOp, BoundTo
  <2>. QED BY <1>5, <2>1 DEF ReadAffected, TypeOK
<1>6. ASSUME NEW n \in Node, CreateNode(n) \/ DropBindings(n) \/ DeleteNode(n) PROVE TypeOK'
  <2>1. CASE CreateNode(n)
    BY <2>1, HelperTypes DEF CreateNode, TypeOK
  <2>2. CASE DropBindings(n)
    <3>1. why' \in [Node -> Reason]
      BY <2>2, HelperTypes, Words DEF DropBindings
    <3>. QED BY <2>2, <3>1, Blanks DEF DropBindings, TypeOK
  <2>3. CASE DeleteNode(n)
    BY <2>3 DEF DeleteNode, TypeOK
  <2>. QED BY <1>6, <2>1, <2>2, <2>3
<1>7. ASSUME NEW u \in User, NEW s \in UserState, SetUser(u, s) PROVE TypeOK'
  BY <1>7 DEF SetUser, TypeOK
<1>8. ASSUME NEW u \in User, Lapse(u) \/ Extend(u) PROVE TypeOK'
  <2>1. row' \in [User -> UserState]
    BY <1>8 DEF Lapse, Extend, TypeOK, UserState
  <2>2. why' \in [Node -> Reason]
    <3>1. CASE Lapse(u)
      BY <3>1 DEF Lapse, TypeOK
    <3>2. CASE Extend(u)
      BY <3>2, HelperTypes, Words DEF Extend
    <3>. QED BY <1>8, <3>1, <3>2
  <2>. QED BY <1>8, <2>1, <2>2 DEF Lapse, Extend, TypeOK
<1>. QED BY <1>1, <1>2, <1>3, <1>4, <1>5, <1>6, <1>7, <1>8 DEF AdminStep

(* A step of what adds jobs keeps the types. *)
LEMMA AdderTypes ==
  ASSUME TypeOK,
         \/ \E n \in Node : EnqueueStep(n) \/ PollWrite(n) \/ Heartbeat(n) \/ RestartStep(n)
         \/ \E p \in Profile : FanOutStep(p)
         \/ Poll
  PROVE  TypeOK'
<1>. USE BoundsAssumption DEF dbVars, panelVars, queueVars, agentVars
<1>1. ASSUME NEW n \in Node, Enqueue(n) PROVE TypeOK'
  <2>1. <<n, 0>> \in JobId
    BY DEF JobId
  <2>. QED BY <1>1, <2>1, AddTypes, HelperTypes, Words DEF Enqueue, TypeOK
<1>2. ASSUME NEW n \in Node, AddRejected(n) PROVE TypeOK'
  BY <1>2, HelperTypes, Words DEF AddRejected, TypeOK
<1>3. ASSUME NEW n \in Node, PollWrite(n) PROVE TypeOK'
  BY <1>3, HelperTypes, Words DEF PollWrite, TypeOK
<1>4. ASSUME NEW n \in Node, Heartbeat(n) PROVE TypeOK'
  BY <1>4, HelperTypes, Words DEF Heartbeat, TypeOK
<1>5. ASSUME NEW n \in Node, AddRestartJob(n) PROVE TypeOK'
  <2>1. <<n, beat[n]>> \in JobId
    BY DEF JobId, TypeOK
  <2>2. job' \in [JobId -> Job] /\ wait' \in Seq(JobId) /\ why' \in [Node -> Reason]
    BY <1>5, <2>1, AddTypes DEF AddRestartJob
  <2>3. beat' \in [Node -> 0 .. MaxStarts]
    BY <1>5 DEF AddRestartJob, TypeOK
  <2>. QED BY <1>5, <2>2, <2>3 DEF AddRestartJob, TypeOK
<1>6. ASSUME NEW p \in Profile, FanOut(p) PROVE TypeOK'
  <2>1. todo' \in [Node \cup Profile -> Nat]
    BY <1>6 DEF FanOut, TypeOK
  <2>. QED BY <1>6, <2>1 DEF FanOut, TypeOK
<1>7. ASSUME NEW p \in Profile, FanOutThrows(p) PROVE TypeOK'
  BY <1>7, HelperTypes, Words DEF FanOutThrows, TypeOK
<1>8. CASE Poll
  BY <1>8 DEF Poll, TypeOK
<1>9. ASSUME NEW n \in Node, RestartAddRejected(n) PROVE TypeOK'
  <2>1. why' \in [Node -> Reason]
    BY <1>9, HelperTypes, Words DEF RestartAddRejected
  <2>2. beat' \in [Node -> 0 .. MaxStarts]
    BY <1>9 DEF RestartAddRejected, TypeOK
  <2>. QED BY <1>9, <2>1, <2>2 DEF RestartAddRejected, TypeOK
<1>. QED BY <1>1, <1>2, <1>3, <1>4, <1>5, <1>6, <1>7, <1>8, <1>9
         DEF EnqueueStep, RestartStep, FanOutStep

(* A step of the worker keeps the types. *)
LEMMA WorkerTypes ==
  ASSUME TypeOK, NEW j \in JobId, WorkerStep(j)
  PROVE  TypeOK'
<1>. USE BoundsAssumption DEF Worked, dbVars, panelVars, agentVars
<1>0. /\ j[1] \in Node /\ job[j] \in Job /\ job[j].set \in Inbounds /\ job[j].users \in SUBSET User
      /\ \A q \in Job : [job EXCEPT ![j] = q] \in [JobId -> Job]
  BY JobTypes
<1>1. CASE Take(j)
  <2>1. [job[j] EXCEPT !.state = "gotNode"] \in Job
    BY <1>0, Words DEF Job
  <2>2. job' \in [JobId -> Job]
    BY <1>0, <1>1, <2>1, Blanks DEF Take
  <2>3. wait' \in Seq(JobId)
    BY <1>1 DEF Take, TypeOK
  <2>. QED BY <1>1, <2>2, <2>3 DEF Take, TypeOK
<1>2. CASE FetchInbounds(j)
  <2>1. [job[j] EXCEPT !.state = "calling", !.set = want[j[1]]] \in Job
    BY <1>0, Words DEF Job, JobState, TypeOK
  <2>. QED BY <1>2, <2>1 DEF FetchInbounds, TypeOK
<1>3. CASE ApplySucceeds(j)
  <2>1. [job[j] EXCEPT !.state = "applied"] \in Job
    BY <1>0, Words DEF Job
  <2>. QED BY <1>0, <1>3, <2>1, HelperTypes, Blanks, Words DEF ApplySucceeds, TypeOK
<1>4. CASE ApplyRefused(j) \/ QueryThrows(j)
  BY <1>4, EndAttemptTypes DEF ApplyRefused, QueryThrows, TypeOK
<1>5. CASE ApplyTimesOut(j)
  <2>1. [node |-> j[1], set |-> job[j].set] \in [node : Node, set : Inbounds]
    BY <1>0
  <2>. QED BY <1>5, <2>1, EndAttemptTypes DEF ApplyTimesOut, TypeOK
<1>6. ASSUME NEW P \in SUBSET Profile, ApplyPartlyFails(j, P) PROVE TypeOK'
  BY <1>0, <1>6, EndAttemptTypes, HelperTypes, Words DEF ApplyPartlyFails, TypeOK
<1>7. CASE FetchUsers(j)
  <2>1. [job[j] EXCEPT !.state = "pushing", !.users = fetchActiveUsers] \in Job
    BY <1>0, HelperTypes, Words DEF Job
  <2>. QED BY <1>7, <2>1 DEF FetchUsers, TypeOK
<1>8. CASE NobodyToPush(j)
  BY <1>8, Blanks DEF NobodyToPush, TypeOK
<1>9. CASE Promote(j)
  <2>1. job' \in [JobId -> Job]
    BY <1>9, HelperTypes, Words DEF Promote
  <2>2. wait' \in Seq(JobId)
    BY <1>9 DEF Promote, TypeOK
  <2>. QED BY <1>9, <2>1, <2>2 DEF Promote, TypeOK
<1>10. ASSUME NEW u \in User, PushUser(j, u) \/ PushFails(j, u) PROVE TypeOK'
  <2>1. [job[j] EXCEPT !.users = job[j].users \ {u}] \in Job
    BY <1>0 DEF Job
  <2>2. Pushed(j, u) => job' \in [JobId -> Job]
    BY <1>0, <2>1, Blanks DEF Pushed
  <2>3. CASE PushUser(j, u)
    BY <1>0, <2>2, <2>3 DEF PushUser, TypeOK
  <2>4. CASE PushFails(j, u)
    BY <2>2, <2>4, HelperTypes, Words DEF PushFails, TypeOK
  <2>. QED BY <1>10, <2>3, <2>4
<1>. QED BY <1>1, <1>2, <1>3, <1>4, <1>5, <1>6, <1>7, <1>8, <1>9, <1>10 DEF WorkerStep

(* A request nobody awaits, a process that starts or stops, keep the types. *)
LEMMA ProcessTypes ==
  ASSUME TypeOK,
         \/ \E x \in stray : StrayApplied(x) \/ StrayLost(x)
         \/ \E n \in Node : AgentStart(n) \/ AgentStop(n)
         \/ PanelCrash
  PROVE  TypeOK'
<1>. USE BoundsAssumption DEF Worked, dbVars, panelVars, queueVars, agentVars
<1>1. ASSUME NEW x \in stray, StrayApplied(x) \/ StrayLost(x) PROVE TypeOK'
  <2>1. x.node \in Node /\ x.set \in Inbounds
    BY DEF TypeOK
  <2>2. CASE StrayApplied(x)
    <3>1. /\ file' \in [Node -> Inbounds] /\ runs' \in [Node -> Inbounds]
          /\ why' \in [Node -> Reason]
      <4>1. Blame({x.node}, "staleApply") \in [Node -> Reason]
        BY HelperTypes, Words
      <4>. QED BY <2>1, <2>2, <4>1, HelperTypes DEF StrayApplied, TypeOK
    <3>. QED BY <2>2, <3>1 DEF StrayApplied, TypeOK
  <2>3. CASE StrayLost(x)
    BY <2>3 DEF StrayLost, TypeOK
  <2>. QED BY <1>1, <2>2, <2>3
<1>2. ASSUME NEW n \in Node, AgentStart(n) \/ AgentStop(n) PROVE TypeOK'
  <2>1. CASE AgentStart(n)
    <3>1. start' \in [Node -> 0 .. MaxStarts]
      BY <2>1 DEF AgentStart, TypeOK
    <3>. QED BY <2>1, <3>1 DEF AgentStart, TypeOK
  <2>2. CASE AgentStop(n)
    BY <2>2, Blanks DEF AgentStop, TypeOK
  <2>. QED BY <1>2, <2>1, <2>2
<1>3. CASE PanelCrash
  <2>1. job' \in [JobId -> Job]
    <3>1. ASSUME NEW j \in JobId
          PROVE  [NoJob EXCEPT !.state = "waiting", !.tries = job[j].tries,
                               !.stalls = job[j].stalls + 1] \in Job
      <4>1. "waiting" \in JobState /\ job[j].tries \in Nat /\ job[j].stalls + 1 \in Nat
        BY JobTypes, Words
      <4>. QED BY <4>1, Blanks DEF Job
    <3>. QED BY <1>3, <3>1, Blanks DEF PanelCrash, TypeOK
  <2>2. wait' \in Seq(JobId)
    <3>1. PICK q \in Orders(Stalled) : wait' = q \o wait
      BY <1>3 DEF PanelCrash
    <3>2. q \in Seq(JobId)
      BY OrdersAreSequences DEF Stalled, Running
    <3>. QED BY <3>1, <3>2 DEF TypeOK
  <2>3. stray' \in SUBSET [node : Node, set : Inbounds]
    <3>1. ASSUME NEW j \in JobId PROVE [node |-> j[1], set |-> job[j].set] \in [node : Node, set : Inbounds]
      BY JobTypes
    <3>2. stray \subseteq [node : Node, set : Inbounds]
      BY DEF TypeOK
    <3> DEFINE called == {j \in Running : job[j].state = "calling"}
    <3>3. {[node |-> j[1], set |-> job[j].set] : j \in called} \subseteq [node : Node, set : Inbounds]
      BY <3>1 DEF Running
    <3>4. stray' = stray \cup {[node |-> j[1], set |-> job[j].set] : j \in called}
      BY <1>3 DEF PanelCrash
    <3>. QED BY <3>2, <3>3, <3>4
  <2>4. why' \in [Node -> Reason]
    BY <1>3, Words DEF PanelCrash, TypeOK
  <2>5. /\ todo' \in [Node \cup Profile -> Nat] /\ admin' \in SUBSET AdminOp
        /\ poll' \in [Node -> {"idle", "online", "unreachable"}] /\ beat' \in [Node -> 0 .. MaxStarts]
    <3>1. /\ todo' = [x \in Node \cup Profile |-> 0] /\ admin' = {}
          /\ poll' = [n \in Node |-> "idle"] /\ beat' = [n \in Node |-> 0]
      BY <1>3 DEF PanelCrash
    <3>. QED BY <3>1
  <2>. QED BY <1>3, <2>1, <2>2, <2>3, <2>4, <2>5 DEF PanelCrash, TypeOK
<1>. QED BY <1>1, <1>2, <1>3

(* Every step keeps the types. *)
LEMMA TypeNext == TypeOK /\ [Next]_vars => TypeOK'
<1>. SUFFICES ASSUME TypeOK, [Next]_vars PROVE TypeOK'
  OBVIOUS
<1>1. CASE AdminStep
  BY <1>1, AdminTypes
<1>2. CASE \/ \E n \in Node : EnqueueStep(n) \/ PollWrite(n) \/ Heartbeat(n) \/ RestartStep(n)
           \/ \E p \in Profile : FanOutStep(p)
           \/ Poll
  BY <1>2, AdderTypes
<1>5. ASSUME NEW j \in JobId, WorkerStep(j) PROVE TypeOK'
  BY <1>5, WorkerTypes
<1>6. CASE (\E x \in stray : StrayApplied(x) \/ StrayLost(x))
           \/ (\E n \in Node : AgentStart(n) \/ AgentStop(n)) \/ PanelCrash
  BY <1>6, ProcessTypes
<1>7. CASE UNCHANGED vars
  BY <1>7 DEF vars, dbVars, panelVars, queueVars, agentVars, TypeOK
<1>. QED BY <1>1, <1>2, <1>5, <1>6, <1>7 DEF Next

(* In every reachable state each variable has the type of what it stands for. *)
THEOREM TypeCorrect == Spec => []TypeOK
BY TypeInit, TypeNext, PTL DEF Spec

-----------------------------------------------------------------------------
(* What the helpers do *)

(* An add due is not forgotten by the next one. *)
LEMMA DueEffect ==
  ASSUME TypeOK, NEW N, NEW x \in Node \cup Profile
  PROVE  /\ todo[x] > 0 => Due(N)[x] > 0
         /\ x \in N => Due(N)[x] > 0
BY DEF TypeOK, Due

(* Work done takes nothing from other work. *)
LEMMA HandledEffect ==
  ASSUME TypeOK, NEW x \in Node \cup Profile, NEW y \in Node \cup Profile, y # x
  PROVE  Handled(x)[y] = todo[y]
BY DEF TypeOK, Handled

(* Only an online node is blamed, and blame is never taken back by blaming. *)
LEMMA BlameEffect ==
  ASSUME TypeOK, NEW N, NEW w, w # "none", NEW n \in Node
  PROVE  /\ n \notin N => Blame(N, w)[n] = why[n]
         /\ n \in N => Blame(N, w)[n] # "none" \/ status[n] # "online"
         /\ Blame(N, w)[n] = why[n] \/ Blame(N, w)[n] # "none"
BY DEF TypeOK, Blame

(* One node is blamed and the others are left alone. *)
LEMMA BlamedOne ==
  ASSUME TypeOK, NEW n \in Node, NEW w, w # "none", why' = Blame({n}, w)
  PROVE  /\ why'[n] # "none" \/ status[n] # "online"
         /\ \A m \in Node \ {n} : why'[m] = why[m]
         /\ \A m \in Node : why'[m] = why[m] \/ why'[m] # "none"
BY BlameEffect

(* Healing a node heals no other. *)
LEMMA HealedEffect ==
  ASSUME TypeOK, NEW N, NEW n \in Node, n \notin N
  PROVE  Healed(N)[n] = why[n]
BY DEF TypeOK, Healed

(* Whatever the state of the job of that id, an add leaves its node excused:
   the job waits, or has yet to read, or the swallowed add is on record. *)
LEMMA AddEffect ==
  ASSUME TypeOK, NEW j \in JobId, Add(j)
  PROVE  /\ \A k \in JobId \ {j} : job'[k] = job[k]
         /\ \A m \in Node \ {j[1]} : why'[m] = why[m]
         /\ \/ job'[j].state \in {"waiting", "gotNode", "delayed"}
            \/ why'[j[1]] # "none" \/ status[j[1]] # "online"
<1>0. j[1] \in Node /\ job \in [JobId -> Job] /\ job[j].state \in JobState
  BY JobTypes DEF TypeOK
<1>1. CASE job[j].state = "none"
  <2>1. job' = Now(j, "waiting") /\ why' = Healed({j[1]})
    BY <1>1 DEF Add
  <2>2. job'[j].state = "waiting" /\ \A k \in JobId \ {j} : job'[k] = job[k]
    BY <1>0, <2>1 DEF Now, Job
  <2>. QED BY <2>1, <2>2, HealedEffect
<1>2. CASE job[j].state # "none" /\ HasRead(j)
  <2>1. why' = Blame({j[1]}, "coalesced") /\ job' = job /\ "coalesced" # "none"
    BY <1>2 DEF Add
  <2>. QED BY <1>0, <2>1, BlamedOne
<1>3. CASE job[j].state # "none" /\ ~HasRead(j)
  BY <1>0, <1>3 DEF Add, HasRead, JobState
<1>. QED BY <1>1, <1>2, <1>3

(* So does an attempt that ends: it is retried, or the job gave up. *)
LEMMA EndAttemptEffect ==
  ASSUME TypeOK, NEW j \in JobId, EndAttempt(j)
  PROVE  /\ \A k \in JobId \ {j} : job'[k] = job[k]
         /\ \A m \in Node \ {j[1]} : why'[m] = why[m]
         /\ \/ job'[j].state \in {"waiting", "gotNode", "delayed"}
            \/ why'[j[1]] # "none" \/ status[j[1]] # "online"
<1>0. j[1] \in Node /\ job \in [JobId -> Job]
  BY JobTypes DEF TypeOK
<1>1. CASE job[j].tries + 1 < Attempts
  <2>1. Retried(j).state = "delayed"
    BY DEF Retried, NoJob
  <2>2. job' = [job EXCEPT ![j] = Retried(j)] /\ why' = why
    BY <1>1 DEF EndAttempt
  <2>. QED BY <1>0, <2>1, <2>2
<1>2. CASE ~(job[j].tries + 1 < Attempts)
  <2>1. job' = [job EXCEPT ![j] = NoJob] /\ why' = Blame({j[1]}, "gaveUp") /\ "gaveUp" # "none"
    BY <1>2 DEF EndAttempt
  <2>. QED BY <1>0, <2>1, BlamedOne
<1>. QED BY <1>1, <1>2

-----------------------------------------------------------------------------
(* What leaves a node as it was *)

\* Nothing that excuses m is taken back.
Calm(m) ==
    /\ nodeRow'[m] = nodeRow[m] /\ up'[m] = up[m] /\ status'[m] = status[m]
    /\ start'[m] = start[m] /\ known'[m] = known[m] /\ beat'[m] = beat[m]
    /\ todo[m] > 0 => todo'[m] > 0
    /\ \A a \in admin : a.op = "createBinding" /\ m \in a.nodes => a \in admin'
    /\ \A j \in JobId : j[1] = m /\ job[j].state \in {"waiting", "gotNode", "delayed"} =>
                          job'[j].state \in {"waiting", "gotNode", "delayed"}
    /\ why'[m] = why[m] \/ why'[m] # "none"

\* No more is settled on m than was, and of that the tables say the same.
Unsettling(m) ==
    \A p \in Profile :
        \/ todo'[p] > 0 /\ <<m, p>> \in bindings'
        \/ want'[m][p] = want[m][p] /\ ~(todo[p] > 0 /\ <<m, p>> \in bindings)

\* Neither the jobs of m nor its agent do anything.
Idle(m) ==
    /\ \A j \in JobId : j[1] = m => job'[j] = job[j]
    /\ file'[m] = file[m] /\ runs'[m] = runs[m] /\ holds'[m] = holds[m] /\ row' = row

(* What excuses a node goes on excusing it. *)
LEMMA ExcusedStays ==
  ASSUME NEW m \in Node, Calm(m), Excused(m)
  PROVE  Excused(m)'
<1>1. CASE ~Live(m) \/ ~up[m] \/ why[m] # "none"
  BY <1>1 DEF Calm, Excused, Live
<1>2. CASE Owed(m)
  <2>1. Owed(m)' \/ why'[m] # "none"
    BY <1>2 DEF Calm, Owed, Restarted
  <2>. QED BY <2>1 DEF Excused
<1>. QED BY <1>1, <1>2 DEF Excused

(* No profile is newly settled, and the settled ones keep their meaning. *)
LEMMA SettledShrinks ==
  ASSUME NEW m \in Node, Unsettling(m)
  PROVE  /\ Settled(m)' \subseteq Settled(m) /\ Enabled(m)' \subseteq Enabled(m)
         /\ \A p \in Settled(m)' : want'[m][p] = want[m][p]
BY DEF Unsettling, Settled, Enabled

(* A node nobody touches is explained as before. *)
LEMMA Stays ==
  ASSUME NEW m \in Node, Kept(m), Calm(m), Unsettling(m), Idle(m)
  PROVE  Kept(m)'
<1>1. CASE Excused(m)
  BY <1>1, ExcusedStays DEF Kept
<1>2. CASE ConfigKept(m) /\ \A u \in User : UserKept(m, u)
  <2>1. ConfigKept(m)'
    BY <1>2, SettledShrinks DEF ConfigKept, SyncedAt, Idle
  <2>2. ASSUME NEW u \in User PROVE UserKept(m, u)'
    BY <1>2, SettledShrinks DEF UserKept, Restores, Idle
  <2>. QED BY <2>1, <2>2 DEF Kept
<1>. QED BY <1>1, <1>2 DEF Kept

\* The tables and the memory behind Unsettling do not move.
LEMMA TablesStand ==
  ASSUME NEW m \in Node, want'[m] = want[m],
         \A p \in Profile : todo[p] > 0 /\ <<m, p>> \in bindings
                              => todo'[p] > 0 /\ <<m, p>> \in bindings'
  PROVE  Unsettling(m)
BY DEF Unsettling

-----------------------------------------------------------------------------
(* The steps of an admin *)

(* A row of a binding, written or dropped alone, with its event or the
   request that will emit it. *)
LEMMA BindingKept ==
  ASSUME TypeOK, NEW n \in Node, NEW p \in Profile, NEW m \in Node, Kept(m),
         \/ InsertBinding(n, p) \/ EmitBindingCreated(n, p) \/ DeleteBinding(n, p)
         \/ DefaultHostThrows(n, p)
         \/ \E enabled \in BOOLEAN : UpdateBinding(n, p, enabled)
  PROVE  Kept(m)'
<1>. USE DEF Requested, dbVars, queueVars, agentVars
<1>0. m # n => \A v : Resolved(n, p, v)[m] = want[m]
  BY DEF TypeOK, Resolved
<1>1. CASE InsertBinding(n, p)
  <2>1. CASE m = n
    <3>1. CreateBindingOp(n, p) \in admin' /\ CreateBindingOp(n, p).op = "createBinding"
          /\ n \in CreateBindingOp(n, p).nodes
      BY <1>1 DEF InsertBinding, CreateBindingOp
    <3>. QED BY <2>1, <3>1 DEF Kept, Excused, Owed
  <2>2. CASE m # n
    <3>1. Unsettling(m)
      BY <1>0, <1>1, <2>2, TablesStand DEF InsertBinding
    <3>2. Calm(m) /\ Idle(m)
      BY <1>1 DEF InsertBinding, Calm, Idle
    <3>. QED BY <3>1, <3>2, Stays
  <2>. QED BY <2>1, <2>2
<1>2. CASE EmitBindingCreated(n, p)
  <2>1. CASE m = n
    <3>1. todo'[n] > 0
      BY <1>2, DueEffect DEF EmitBindingCreated
    <3>. QED BY <2>1, <3>1 DEF Kept, Excused, Owed
  <2>2. CASE m # n
    <3>1. Unsettling(m)
      BY <1>2, DueEffect, TablesStand DEF EmitBindingCreated
    <3>2. todo[m] > 0 => todo'[m] > 0
      BY <1>2, DueEffect DEF EmitBindingCreated
    <3>3. Calm(m) /\ Idle(m)
      BY <1>2, <2>2, <3>2 DEF EmitBindingCreated, CreateBindingOp, Calm, Idle
    <3>. QED BY <3>1, <3>3, Stays
  <2>. QED BY <2>1, <2>2
<1>3. CASE DeleteBinding(n, p)
  <2>0. \A x \in Node \cup Profile : (todo[x] > 0 => todo'[x] > 0) /\ (x = n => todo'[x] > 0)
    BY <1>3, DueEffect DEF DeleteBinding
  <2>1. CASE m = n
    BY <2>0, <2>1 DEF Kept, Excused, Owed
  <2>2. CASE m # n
    <3>1. Unsettling(m)
      BY <1>0, <1>3, <2>0, <2>2, TablesStand DEF DeleteBinding
    <3>2. Calm(m) /\ Idle(m)
      BY <1>3, <2>0 DEF DeleteBinding, Calm, Idle
    <3>. QED BY <3>1, <3>2, Stays
  <2>. QED BY <2>1, <2>2
<1>4. CASE DefaultHostThrows(n, p)
  <2>0. why' = Blame({n}, "lostEvent") /\ "lostEvent" # "none"
    BY <1>4 DEF DefaultHostThrows
  <2>1. CASE m = n
    <3>1. why'[n] # "none" \/ status'[n] # "online"
      BY <1>4, <2>0, BlamedOne DEF DefaultHostThrows
    <3>. QED BY <2>1, <3>1 DEF Kept, Excused, Owed
  <2>2. CASE m # n
    <3>1. Unsettling(m)
      BY <1>4, TablesStand DEF DefaultHostThrows
    <3>2. why'[m] = why[m]
      BY <2>0, <2>2, BlamedOne
    <3>3. Calm(m) /\ Idle(m)
      BY <1>4, <2>2, <3>2 DEF DefaultHostThrows, CreateBindingOp, Calm, Idle
    <3>. QED BY <3>1, <3>3, Stays
  <2>. QED BY <2>1, <2>2
<1>5. ASSUME NEW enabled \in BOOLEAN, UpdateBinding(n, p, enabled) PROVE Kept(m)'
  <2>0. \A x \in Node \cup Profile : (todo[x] > 0 => todo'[x] > 0) /\ (x = n => todo'[x] > 0)
    BY <1>5, DueEffect DEF UpdateBinding
  <2>1. CASE m = n
    BY <2>0, <2>1 DEF Kept, Excused, Owed
  <2>2. CASE m # n
    <3>1. Unsettling(m)
      BY <1>0, <1>5, <2>0, <2>2, TablesStand DEF UpdateBinding
    <3>2. Calm(m) /\ Idle(m)
      BY <1>5, <2>0 DEF UpdateBinding, Calm, Idle
    <3>. QED BY <3>1, <3>2, Stays
  <2>. QED BY <2>1, <2>2
<1>. QED BY <1>1, <1>2, <1>3, <1>4, <1>5

(* A change of a profile: what it changes on a bound node is to be fanned
   out; elsewhere nothing is enabled. A deletion tells the nodes it had read,
   and those bound since are on record. *)
LEMMA ProfileKept ==
  ASSUME TypeOK, NEW p \in Profile, NEW N \in SUBSET Node, NEW m \in Node, Kept(m), Bound(m),
         UpdateProfile(p, N) \/ DeleteProfile(p, N) \/ ReadAffected(p)
  PROVE  Kept(m)'
<1>. USE DEF Requested, dbVars, queueVars, agentVars
<1>1. CASE UpdateProfile(p, N)
  <2>0. \A x \in Node \cup Profile : (todo[x] > 0 => todo'[x] > 0) /\ (x = p => todo'[x] > 0)
    BY <1>1, DueEffect DEF UpdateProfile
  <2>1. /\ \A q \in Profile \ {p} : want'[m][q] = want[m][q]
        /\ want'[m][p] = want[m][p] \/ <<m, p>> \in bindings'
        /\ <<m, p>> \notin bindings' => <<m, p>> \notin bindings
    BY <1>1 DEF UpdateProfile, BoundTo, Bound, TypeOK, Inbounds
  <2>2. Unsettling(m)
    BY <1>1, <2>0, <2>1 DEF UpdateProfile, Unsettling
  <2>3. Calm(m) /\ Idle(m)
    BY <1>1, <2>0 DEF UpdateProfile, Calm, Idle
  <2>. QED BY <2>2, <2>3, Stays
<1>2. CASE DeleteProfile(p, N)
  <2>0. /\ \A x \in Node \cup Profile : (todo[x] > 0 => todo'[x] > 0) /\ (x \in N => todo'[x] > 0)
        /\ UNCHANGED status
    BY <1>2, DueEffect DEF DeleteProfile
  <2>1. /\ \A q \in Profile \ {p} : want'[m][q] = want[m][q]
        /\ want'[m][p] = 0
    BY <1>2 DEF DeleteProfile, TypeOK, Inbounds
  <2>2. why' = Blame(BoundTo(p) \ N, "unannounced") /\ "unannounced" # "none"
    BY <1>2 DEF DeleteProfile
  <2>3. CASE m \in N
    BY <2>0, <2>3 DEF Kept, Excused, Owed
  <2>4. CASE m \in BoundTo(p) \ N
    <3>1. why'[m] # "none" \/ status'[m] # "online"
      BY <2>0, <2>2, <2>4, BlameEffect
    <3>. QED BY <3>1 DEF Kept, Excused, Owed
  <2>5. CASE m \notin BoundTo(p)
    <3>0. <<m, p>> \notin bindings /\ want[m][p] = 0
      BY <2>5 DEF BoundTo, Bound
    <3>1. Unsettling(m)
      BY <1>2, <2>0, <2>1, <3>0 DEF DeleteProfile, Unsettling
    <3>2. why'[m] = why[m]
      BY <2>2, <2>5, BlameEffect
    <3>3. Calm(m) /\ Idle(m)
      BY <1>2, <2>0, <3>2 DEF DeleteProfile, DeleteProfileOp, Calm, Idle
    <3>. QED BY <3>1, <3>3, Stays
  <2>. QED BY <2>3, <2>4, <2>5
<1>3. CASE ReadAffected(p)
  <2>1. Unsettling(m)
    BY <1>3, TablesStand DEF ReadAffected
  <2>2. Calm(m) /\ Idle(m)
    BY <1>3 DEF ReadAffected, Calm, Idle
  <2>. QED BY <2>1, <2>2, Stays
<1>. QED BY <1>1, <1>2, <1>3

(* A node comes, loses its bindings, or goes. *)
LEMMA NodeKept ==
  ASSUME TypeOK, NEW n \in Node, NEW m \in Node, Kept(m),
         CreateNode(n) \/ DropBindings(n) \/ DeleteNode(n)
  PROVE  Kept(m)'
<1>. USE DEF Requested, dbVars, queueVars, agentVars
<1>1. CASE CreateNode(n)
  <2>0. \A x \in Node \cup Profile : (todo[x] > 0 => todo'[x] > 0) /\ (x = n => todo'[x] > 0)
    BY <1>1, DueEffect DEF CreateNode
  <2>1. CASE m = n
    BY <2>0, <2>1 DEF Kept, Excused, Owed
  <2>2. CASE m # n
    <3>1. Unsettling(m)
      BY <1>1, <2>0, TablesStand DEF CreateNode
    <3>2. Calm(m) /\ Idle(m)
      BY <1>1, <2>0, <2>2 DEF CreateNode, Calm, Idle, TypeOK
    <3>. QED BY <3>1, <3>2, Stays
  <2>. QED BY <2>1, <2>2
<1>2. CASE DropBindings(n)
  <2>0. why' = Blame({n}, "unannounced") /\ "unannounced" # "none" /\ UNCHANGED status
    BY <1>2 DEF DropBindings
  <2>1. CASE m = n
    <3>1. why'[n] # "none" \/ status'[n] # "online"
      BY <2>0, BlamedOne
    <3>. QED BY <2>1, <3>1 DEF Kept, Excused, Owed
  <2>2. CASE m # n
    <3>1. Unsettling(m)
      BY <1>2, <2>2, TablesStand DEF DropBindings, TypeOK
    <3>2. why'[m] = why[m]
      BY <2>0, <2>2, BlamedOne
    <3>3. Calm(m) /\ Idle(m)
      BY <1>2, <3>2 DEF DropBindings, Calm, Idle
    <3>. QED BY <3>1, <3>3, Stays
  <2>. QED BY <2>1, <2>2
<1>3. CASE DeleteNode(n)
  <2>1. CASE m = n
    BY <1>3, <2>1 DEF DeleteNode, Kept, Excused, Live, TypeOK
  <2>2. CASE m # n
    <3>1. Unsettling(m)
      BY <1>3, TablesStand DEF DeleteNode
    <3>2. Calm(m) /\ Idle(m)
      BY <1>3, <2>2 DEF DeleteNode, Calm, Idle, TypeOK
    <3>. QED BY <3>1, <3>2, Stays
  <2>. QED BY <2>1, <2>2
<1>. QED BY <1>1, <1>2, <1>3

(* A user who becomes active reaches every live agent that runs; one who
   ceases to be active need not be held. *)
LEMMA SetUserKept ==
  ASSUME TypeOK, NEW u \in User, NEW s \in UserState, NEW m \in Node, Kept(m), SetUser(u, s)
  PROVE  Kept(m)'
<1>. USE DEF dbVars, panelVars, queueVars, agentVars
<1>1. Calm(m) /\ Unsettling(m)
  <2>1. Unsettling(m)
    BY TablesStand DEF SetUser
  <2>. QED BY <2>1 DEF SetUser, Calm
<1>2. CASE Excused(m)
  BY <1>1, <1>2, ExcusedStays DEF Kept
<1>3. CASE ~Excused(m) /\ ConfigKept(m) /\ \A v \in User : UserKept(m, v)
  <2>1. ConfigKept(m)'
    BY <1>3 DEF SetUser, ConfigKept, SyncedAt, Settled
  <2>2. ASSUME NEW v \in User PROVE UserKept(m, v)'
    <3>0. Live(m) /\ up[m]
      BY <1>3 DEF Excused
    <3>1. CASE v = u
      BY <1>3, <3>0, <3>1 DEF SetUser, UserKept, Settled, Enabled, Restores, TypeOK
    <3>2. CASE v # u
      <4>1. row'[v] = row[v] /\ (v \in holds[m] => v \in holds'[m])
        BY <3>2 DEF SetUser, TypeOK
      <4>. QED BY <1>3, <4>1 DEF SetUser, UserKept, Settled, Enabled, Restores
    <3>. QED BY <3>1, <3>2
  <2>. QED BY <2>1, <2>2 DEF Kept
<1>. QED BY <1>2, <1>3 DEF Kept

(* Nobody is owed a user who has lapsed; one whose date is moved is held, or
   what lacks him is on record. *)
LEMMA LapseKept ==
  ASSUME TypeOK, NEW u \in User, NEW m \in Node, Kept(m), Lapse(u) \/ Extend(u)
  PROVE  Kept(m)'
<1>. USE DEF dbVars, panelVars, queueVars, agentVars
<1> DEFINE N == {n \in Node : up[n] /\ u \notin holds[n]}
<1>0. /\ UNCHANGED <<nodeRow, status, bindings, want, panelVars, queueVars, agentVars>>
      /\ \A v \in User \ {u} : row'[v] = row[v]
      /\ \/ row'[u] # "active" /\ why' = why
         \/ why' = Blame(N, "extended") /\ "extended" # "none"
  BY DEF Lapse, Extend, TypeOK
<1>. HIDE DEF N
<1>1. why'[m] = why[m] \/ why'[m] # "none"
  BY <1>0, BlameEffect
<1>2. Calm(m)
  BY <1>0, <1>1 DEF Calm
<1>3. CASE Excused(m)
  BY <1>2, <1>3, ExcusedStays DEF Kept
<1>4. CASE m \in N /\ row'[u] = "active"
  <2>1. why'[m] # "none" \/ status'[m] # "online"
    BY <1>0, <1>4, BlameEffect
  <2>. QED BY <2>1 DEF Kept, Excused, Owed
<1>5. CASE ~Excused(m) /\ (row'[u] # "active" \/ m \notin N)
  <2>0. up[m] /\ ConfigKept(m) /\ \A v \in User : UserKept(m, v)
    BY <1>5 DEF Kept, Excused
  <2>1. row'[u] # "active" \/ u \in holds'[m]
    BY <1>0, <1>5, <2>0 DEF N
  <2>2. ConfigKept(m)'
    BY <1>0, <2>0 DEF ConfigKept, SyncedAt, Settled
  <2>3. ASSUME NEW v \in User PROVE UserKept(m, v)'
    <3>1. CASE v = u
      BY <2>1, <3>1 DEF UserKept
    <3>2. CASE v # u
      BY <1>0, <2>0, <3>2 DEF UserKept, Settled, Enabled, Restores
    <3>. QED BY <3>1, <3>2
  <2>. QED BY <2>2, <2>3 DEF Kept
<1>. QED BY <1>3, <1>4, <1>5

-----------------------------------------------------------------------------
(* The steps of what adds jobs *)

(* An event's or the poll's add: the node's job waits, or had still to read,
   or the loss is on record. *)
LEMMA EnqueueKept ==
  ASSUME TypeOK, NEW n \in Node, NEW m \in Node, Kept(m), EnqueueStep(n)
  PROVE  Kept(m)'
<1>. USE DEF dbVars, queueVars, agentVars
<1>0. /\ todo' = Handled(n)
      /\ \A x \in (Node \cup Profile) \ {n} : todo'[x] = todo[x]
      /\ n \notin Profile
  BY HandledEffect, SetsAssumption DEF EnqueueStep, Enqueue, AddRejected
<1>1. CASE Enqueue(n)
  <2>0. <<n, 0>> \in JobId /\ <<n, 0>>[1] = n /\ Add(<<n, 0>>)
    BY <1>1, BoundsAssumption DEF JobId, Enqueue
  <2> DEFINE j == <<n, 0>>
  <2>1. /\ \A k \in JobId \ {j} : job'[k] = job[k]
        /\ \A k \in Node \ {n} : why'[k] = why[k]
        /\ \/ job'[j].state \in {"waiting", "gotNode", "delayed"}
           \/ why'[n] # "none" \/ status[n] # "online"
    BY <2>0, AddEffect
  <2>. HIDE DEF j
  <2>2. CASE m = n
    <3>1. status' = status
      BY <1>1 DEF Enqueue
    <3>. QED BY <2>0, <2>1, <2>2, <3>1 DEF Kept, Excused, Owed, j
  <2>3. CASE m # n
    <3>0. \A k \in JobId : k[1] = m => job'[k] = job[k]
      BY <2>1, <2>3 DEF j
    <3>1. Unsettling(m)
      BY <1>0, <1>1, TablesStand DEF Enqueue
    <3>2. Calm(m) /\ Idle(m)
      BY <1>0, <1>1, <2>1, <2>3, <3>0 DEF Enqueue, Calm, Idle
    <3>. QED BY <3>1, <3>2, Stays
  <2>. QED BY <2>2, <2>3
<1>2. CASE AddRejected(n)
  <2>0. why' = Blame({n}, "lostEvent") /\ "lostEvent" # "none"
    BY <1>2 DEF AddRejected
  <2>1. CASE m = n
    <3>1. why'[n] # "none" \/ status'[n] # "online"
      BY <1>2, <2>0, BlamedOne DEF AddRejected
    <3>. QED BY <2>1, <3>1 DEF Kept, Excused, Owed
  <2>2. CASE m # n
    <3>0. why'[m] = why[m]
      BY <2>0, <2>2, BlamedOne
    <3>1. Unsettling(m)
      BY <1>0, <1>2, TablesStand DEF AddRejected
    <3>2. Calm(m) /\ Idle(m)
      BY <1>0, <1>2, <2>2, <3>0 DEF AddRejected, Calm, Idle
    <3>. QED BY <3>1, <3>2, Stays
  <2>. QED BY <2>1, <2>2
<1>. QED BY <1>1, <1>2 DEF EnqueueStep

(* A profile's change, fanned out to the nodes bound to it, or lost to them. *)
LEMMA FanOutKept ==
  ASSUME TypeOK, NEW p \in Profile, NEW m \in Node, Kept(m), FanOutStep(p)
  PROVE  Kept(m)'
<1>. USE DEF dbVars, queueVars, agentVars
<1>0. BoundTo(p) \subseteq Node /\ p \notin Node /\ (m \in BoundTo(p) <=> <<m, p>> \in bindings)
  BY SetsAssumption DEF BoundTo
<1>1. CASE FanOut(p)
  <2>1. /\ \A x \in (Node \cup Profile) \ {p} : todo[x] > 0 => todo'[x] > 0
        /\ m \in BoundTo(p) => todo'[m] > 0
    BY <1>0, <1>1 DEF FanOut, TypeOK
  <2>2. CASE m \in BoundTo(p)
    BY <2>1, <2>2 DEF Kept, Excused, Owed
  <2>3. CASE m \notin BoundTo(p)
    <3>1. Unsettling(m)
      BY <1>0, <1>1, <2>1, <2>3, TablesStand DEF FanOut
    <3>2. Calm(m) /\ Idle(m)
      BY <1>0, <1>1, <2>1 DEF FanOut, Calm, Idle
    <3>. QED BY <3>1, <3>2, Stays
  <2>. QED BY <2>2, <2>3
<1>2. CASE FanOutThrows(p)
  <2>1. /\ \A x \in (Node \cup Profile) \ {p} : todo'[x] = todo[x]
        /\ "lostEvent" # "none" /\ why' = Blame(BoundTo(p), "lostEvent") /\ status' = status
    BY <1>2, HandledEffect DEF FanOutThrows
  <2>2. /\ m \notin BoundTo(p) => why'[m] = why[m]
        /\ m \in BoundTo(p) => why'[m] # "none" \/ status'[m] # "online"
    BY <2>1, BlameEffect
  <2>3. CASE m \in BoundTo(p)
    BY <2>2, <2>3 DEF Kept, Excused, Owed
  <2>4. CASE m \notin BoundTo(p)
    <3>1. Unsettling(m)
      BY <1>0, <1>2, <2>1, <2>4, TablesStand DEF FanOutThrows
    <3>2. Calm(m) /\ Idle(m)
      BY <1>0, <1>2, <2>1, <2>2, <2>4 DEF FanOutThrows, Calm, Idle
    <3>. QED BY <3>1, <3>2, Stays
  <2>. QED BY <2>3, <2>4
<1>. QED BY <1>1, <1>2 DEF FanOutStep

(* The poll: a node that comes back is pushed again, one that goes need not
   be explained. *)
LEMMA PollKept ==
  ASSUME TypeOK, NEW m \in Node, Kept(m), Poll \/ \E n \in Node : PollWrite(n)
  PROVE  Kept(m)'
<1>. USE DEF dbVars, queueVars, agentVars
<1>1. CASE Poll
  <2>1. Unsettling(m)
    BY <1>1, TablesStand DEF Poll
  <2>2. Calm(m) /\ Idle(m)
    BY <1>1 DEF Poll, Calm, Idle
  <2>. QED BY <2>1, <2>2, Stays
<1>2. ASSUME NEW n \in Node, PollWrite(n) PROVE Kept(m)'
  <2>0. /\ \A x \in Node \cup Profile : todo[x] > 0 => todo'[x] > 0
        /\ poll[n] = "online" /\ status[n] # "online" => todo'[n] > 0
    BY <1>2, DueEffect DEF PollWrite
  <2>1. Unsettling(m)
    BY <1>2, <2>0, TablesStand DEF PollWrite
  <2>2. Idle(m)
    BY <1>2 DEF PollWrite, Idle
  <2>3. CASE m # n
    <3>1. status'[m] = status[m] /\ why'[m] = why[m]
      BY <1>2, <2>3, HealedEffect DEF PollWrite, TypeOK
    <3>2. Calm(m)
      BY <1>2, <2>0, <3>1 DEF PollWrite, Calm
    <3>. QED BY <2>1, <2>2, <3>2, Stays
  <2>4. CASE m = n /\ poll[n] = "online" /\ status[n] = "online"
    <3>1. status'[m] = status[m] /\ why'[m] = why[m]
      BY <1>2, <2>4 DEF PollWrite, TypeOK
    <3>2. Calm(m)
      BY <1>2, <2>0, <3>1 DEF PollWrite, Calm
    <3>. QED BY <2>1, <2>2, <3>2, Stays
  <2>5. CASE m = n /\ poll[n] = "online" /\ status[n] # "online"
    BY <2>0, <2>5 DEF Kept, Excused, Owed
  <2>6. CASE m = n /\ poll[n] # "online"
    <3>1. status'[n] # "online"
      BY <1>2, <2>6 DEF PollWrite, TypeOK
    <3>. QED BY <2>6, <3>1 DEF Kept, Excused, Owed
  <2>. QED BY <2>3, <2>4, <2>5, <2>6
<1>. QED BY <1>1, <1>2

(* A heartbeat: a restart becomes a job to add, a first start needs none,
   and a restart never seen before is on record. *)
LEMMA HeartbeatKept ==
  ASSUME TypeOK, NEW n \in Node, NEW m \in Node, Kept(m), Unborn(n),
         Heartbeat(n) \/ RestartStep(n)
  PROVE  Kept(m)'
<1>. USE DEF dbVars, agentVars
<1>1. CASE Heartbeat(n)
  <2>0. start[n] \in Nat /\ known[n] \in Nat /\ start[n] # 0
    BY <1>1, BoundsAssumption DEF Heartbeat, TypeOK, Unborn
  <2>1. Unsettling(m)
    BY <1>1, TablesStand DEF Heartbeat
  <2>2. Idle(m)
    BY <1>1 DEF Heartbeat, Idle
  <2>3. CASE m # n
    <3>1. why'[m] = why[m]
      BY <1>1, <2>3, BlamedOne DEF Heartbeat
    <3>2. Calm(m)
      BY <1>1, <2>3, <3>1 DEF Heartbeat, Calm, TypeOK
    <3>. QED BY <2>1, <2>2, <3>2, Stays
  <2>4. CASE m = n /\ known[n] # 0
    <3>1. beat'[n] # 0
      BY <1>1, <2>0, <2>4 DEF Heartbeat, TypeOK
    <3>. QED BY <2>4, <3>1 DEF Kept, Excused, Owed
  <2>5. CASE m = n /\ known[n] = 0 /\ start[n] > 1
    <3>1. why'[n] # "none" \/ status'[n] # "online"
      BY <1>1, <2>5, BlamedOne DEF Heartbeat
    <3>. QED BY <2>5, <3>1 DEF Kept, Excused, Owed
  <2>6. CASE m = n /\ known[n] = 0 /\ ~(start[n] > 1)
    <3>0. start[n] = 1 /\ why' = why
      BY <1>1, <2>0, <2>6 DEF Heartbeat
    <3>1. ~Restarted(n)
      BY <2>6, <3>0 DEF Restarted
    <3>2. Excused(m) => Excused(m)'
      BY <1>1, <2>6, <3>0, <3>1 DEF Heartbeat, Excused, Owed, Live
    <3>3. (ConfigKept(m) /\ \A u \in User : UserKept(m, u))
            => (ConfigKept(m) /\ \A u \in User : UserKept(m, u))'
      BY <1>1 DEF Heartbeat, ConfigKept, SyncedAt, UserKept, Settled, Enabled, Restores
    <3>. QED BY <3>2, <3>3 DEF Kept
  <2>. QED BY <2>3, <2>4, <2>5, <2>6
<1>2. CASE AddRestartJob(n)
  <2> DEFINE j == <<n, beat[n]>>
  <2>0. j \in JobId /\ j[1] = n /\ Add(j)
    BY <1>2 DEF JobId, AddRestartJob, TypeOK
  <2>. HIDE DEF j
  <2>1. /\ \A k \in JobId \ {j} : job'[k] = job[k]
        /\ \A k \in Node \ {n} : why'[k] = why[k]
        /\ \/ job'[j].state \in {"waiting", "gotNode", "delayed"}
           \/ why'[n] # "none" \/ status[n] # "online"
    BY <2>0, AddEffect
  <2>2. CASE m = n
    <3>1. status' = status
      BY <1>2 DEF AddRestartJob
    <3>. QED BY <2>0, <2>1, <2>2, <3>1 DEF Kept, Excused, Owed
  <2>3. CASE m # n
    <3>0. \A k \in JobId : k[1] = m => job'[k] = job[k]
      BY <2>0, <2>1, <2>3
    <3>1. Unsettling(m)
      BY <1>2, TablesStand DEF AddRestartJob
    <3>2. Calm(m) /\ Idle(m)
      BY <1>2, <2>1, <2>3, <3>0 DEF AddRestartJob, Calm, Idle, TypeOK
    <3>. QED BY <3>1, <3>2, Stays
  <2>. QED BY <2>2, <2>3
<1>3. CASE RestartAddRejected(n)
  <2>0. why' = Blame({n}, "lostEvent") /\ "lostEvent" # "none" /\ UNCHANGED status
    BY <1>3 DEF RestartAddRejected
  <2>1. CASE m = n
    <3>1. why'[n] # "none" \/ status'[n] # "online"
      BY <2>0, BlamedOne
    <3>. QED BY <2>1, <3>1 DEF Kept, Excused, Owed
  <2>2. CASE m # n
    <3>0. why'[m] = why[m]
      BY <2>0, <2>2, BlamedOne
    <3>1. Unsettling(m)
      BY <1>3, TablesStand DEF RestartAddRejected
    <3>2. Calm(m) /\ Idle(m)
      BY <1>3, <2>2, <3>0 DEF RestartAddRejected, queueVars, Calm, Idle, TypeOK
    <3>. QED BY <3>1, <3>2, Stays
  <2>. QED BY <2>1, <2>2
<1>. QED BY <1>1, <1>2, <1>3 DEF RestartStep

-----------------------------------------------------------------------------
(* The steps of the worker *)

(* A job's step says nothing of other nodes and of other jobs. *)
LEMMA WorkerElsewhere ==
  ASSUME TypeOK, NEW j \in JobId, WorkerStep(j)
  PROVE  /\ \A k \in JobId \ {j} : job'[k] = job[k]
         /\ \A m \in Node \ {j[1]} : /\ why'[m] = why[m]
                                     /\ file'[m] = file[m] /\ runs'[m] = runs[m]
                                     /\ holds'[m] = holds[m]
         /\ UNCHANGED <<dbVars, panelVars, known, start, up>>
<1>. USE DEF Worked
<1>0. /\ job \in [JobId -> Job] /\ j[1] \in Node /\ why \in [Node -> Reason]
      /\ file \in [Node -> Inbounds] /\ runs \in [Node -> Inbounds] /\ holds \in [Node -> SUBSET User]
  BY JobTypes DEF TypeOK
<1>1. CASE Take(j)
  BY <1>0, <1>1 DEF Take
<1>2. CASE FetchInbounds(j)
  BY <1>0, <1>2 DEF FetchInbounds
<1>3. CASE ApplySucceeds(j)
  <2>1. \A m \in Node \ {j[1]} : why'[m] = why[m]
    <3>1. CASE SetsBack(j[1], job[j].set)
      <4>1. why' = Blame({j[1]}, "staleApply") /\ "staleApply" # "none"
        BY <1>3, <3>1 DEF ApplySucceeds
      <4>. QED BY <1>0, <4>1, BlamedOne
    <3>2. CASE ~SetsBack(j[1], job[j].set)
      BY <1>3, <3>2 DEF ApplySucceeds
    <3>. QED BY <3>1, <3>2
  <2>2. /\ \A k \in JobId \ {j} : job'[k] = job[k]
        /\ \A m \in Node \ {j[1]} : file'[m] = file[m] /\ runs'[m] = runs[m] /\ holds'[m] = holds[m]
    BY <1>0, <1>3 DEF ApplySucceeds, TakeSet
  <2>. QED BY <1>3, <2>1, <2>2 DEF ApplySucceeds
<1>4. CASE ApplyRefused(j) \/ ApplyTimesOut(j) \/ QueryThrows(j)
  <2>1. EndAttempt(j) /\ UNCHANGED <<file, runs, holds, dbVars, panelVars, known, start, up>>
    BY <1>4 DEF ApplyRefused, ApplyTimesOut, QueryThrows
  <2>. QED BY <2>1, EndAttemptEffect
<1>5. ASSUME NEW P \in SUBSET Profile, ApplyPartlyFails(j, P)
      PROVE  /\ \A k \in JobId \ {j} : job'[k] = job[k]
             /\ \A m \in Node \ {j[1]} : /\ why'[m] = why[m]
                                         /\ file'[m] = file[m] /\ runs'[m] = runs[m]
                                         /\ holds'[m] = holds[m]
             /\ UNCHANGED <<dbVars, panelVars, known, start, up>>
  <2>1. EndAttempt(j) /\ UNCHANGED <<holds, dbVars, panelVars, known, start, up>>
        /\ \A m \in Node \ {j[1]} : file'[m] = file[m] /\ runs'[m] = runs[m]
    BY <1>0, <1>5 DEF ApplyPartlyFails, TakeSet
  <2>. QED BY <2>1, EndAttemptEffect
<1>6. CASE FetchUsers(j) \/ NobodyToPush(j)
  BY <1>0, <1>6 DEF FetchUsers, NobodyToPush
<1>7. CASE Promote(j)
  BY <1>0, <1>7 DEF Promote, Now
<1>8. ASSUME NEW u \in User, PushUser(j, u) \/ PushFails(j, u)
      PROVE  /\ \A k \in JobId \ {j} : job'[k] = job[k]
             /\ \A m \in Node \ {j[1]} : /\ why'[m] = why[m]
                                         /\ file'[m] = file[m] /\ runs'[m] = runs[m]
                                         /\ holds'[m] = holds[m]
             /\ UNCHANGED <<dbVars, panelVars, known, start, up>>
  <2>1. \A k \in JobId \ {j} : job'[k] = job[k]
    BY <1>0, <1>8 DEF PushUser, PushFails, Pushed
  <2>2. \A m \in Node \ {j[1]} : why'[m] = why[m]
    <3>1. CASE PushUser(j, u)
      BY <3>1 DEF PushUser
    <3>2. CASE PushFails(j, u)
      <4>1. why' = Blame({j[1]}, "pushFailed") /\ "pushFailed" # "none"
        BY <3>2 DEF PushFails
      <4>. QED BY <1>0, <4>1, BlamedOne
    <3>. QED BY <1>8, <3>1, <3>2
  <2>. QED BY <1>0, <1>8, <2>1, <2>2 DEF PushUser, PushFails
<1>. QED BY <1>1, <1>2, <1>3, <1>4, <1>5, <1>6, <1>7, <1>8 DEF WorkerStep

(* A set that sets no adapter back, and brings none back, leads the agent to
   what the push said, and what it already had right stays right. *)
LEMMA Configures ==
  ASSUME TypeOK, NEW m \in Node, NEW set \in Inbounds, TakeSet(m, set, Profile), ~SetsBack(m, set),
         UNCHANGED want, NEW p \in Settled(m), SyncedAt(m, p) \/ set[p] = want[m][p]
  PROVE  SyncedAt(m, p)'
<1>1. file'[m] = set /\ runs'[m] = Configured(m, set, Profile) /\ p \in Profile
  BY DEF TakeSet, TypeOK, Settled
<1>2. set[p] = 0 \/ set[p] = want[m][p]
  BY <1>1 DEF SetsBack
<1>. QED BY <1>1, <1>2 DEF SyncedAt, Configured

(* Its own node is as explained after a job's step as before. *)
LEMMA WorkerHere ==
  ASSUME TypeOK, NEW j \in JobId, WorkerStep(j), NEW m \in Node, m = j[1], Kept(m)
  PROVE  Kept(m)'
<1>. USE DEF dbVars, panelVars
<1>0. /\ job \in [JobId -> Job] /\ job[j] \in Job /\ job[j].set \in Inbounds
      /\ \A k \in JobId \ {j} : job'[k] = job[k]
      /\ UNCHANGED <<row, nodeRow, status, bindings, want, admin, todo, beat, known, start, up>>
      /\ runs \in [Node -> Inbounds] /\ holds \in [Node -> SUBSET User]
  BY WorkerElsewhere, JobTypes DEF TypeOK
<1>a. Settled(m)' = Settled(m) /\ Enabled(m)' = Enabled(m)
  BY <1>0 DEF Settled, Enabled
<1>b. ASSUME job'[j].state \in {"waiting", "gotNode", "delayed"} \/ why'[m] # "none"
               \/ status[m] # "online"
      PROVE  Kept(m)'
  BY <1>0, <1>b DEF Kept, Excused, Owed
<1>c. ASSUME job[j].state \in {"calling", "applied", "pushing"}, Excused(m),
             why'[m] = why[m] \/ why'[m] # "none"
      PROVE  Kept(m)'
  <2>1. Calm(m)
    BY <1>0, <1>c DEF Calm
  <2>. QED BY <1>c, <2>1, ExcusedStays DEF Kept
<1>1. CASE Take(j)
  <2>1. CASE Live(j[1])
    <3>1. job'[j].state = "gotNode"
      BY <1>0, <1>1, <2>1 DEF Take, Job
    <3>. QED BY <1>b, <3>1
  <2>2. CASE ~Live(j[1])
    BY <1>0, <2>2 DEF Live, Kept, Excused
  <2>. QED BY <2>1, <2>2
<1>2. CASE FetchInbounds(j)
  <2>1. job'[j].state = "calling" /\ job'[j].set = want[m]
    BY <1>0, <1>2 DEF FetchInbounds, Job
  <2>2. ConfigKept(m)'
    BY <1>0, <2>1 DEF ConfigKept
  <2>3. want[m] = NoInbounds => Enabled(m) = {}
    BY DEF NoInbounds, Settled, Enabled
  <2>4. ASSUME NEW u \in User PROVE UserKept(m, u)'
    BY <1>a, <2>1, <2>3 DEF UserKept, Restores
  <2>. QED BY <2>2, <2>4 DEF Kept
<1>3. CASE ApplySucceeds(j)
  <2>0. /\ job[j].state = "calling" /\ TakeSet(m, job[j].set, Profile)
        /\ job[j].set # NoInbounds => job'[j].state = "applied"
        /\ holds' = holds
    BY <1>0, <1>3 DEF ApplySucceeds, Job
  <2>1. CASE SetsBack(m, job[j].set)
    <3>1. why' = Blame({m}, "staleApply") /\ "staleApply" # "none"
      BY <1>3, <2>1 DEF ApplySucceeds
    <3>. QED BY <1>b, <3>1, BlamedOne
  <2>2. CASE ~SetsBack(m, job[j].set)
    <3>0. why' = why
      BY <1>3, <2>2 DEF ApplySucceeds
    <3>1. CASE Excused(m)
      BY <1>c, <2>0, <3>0, <3>1
    <3>2. CASE ConfigKept(m) /\ \A u \in User : UserKept(m, u)
      <4>1. ConfigKept(m)'
        <5>1. CASE \/ \A p \in Settled(m) : SyncedAt(m, p)
                   \/ \A p \in Settled(m) : job[j].set[p] = want[m][p]
          <6>1. \A p \in Settled(m) : SyncedAt(m, p)'
            BY <1>0, <2>0, <2>2, <5>1, Configures
          <6>. QED BY <1>0, <1>a, <6>1 DEF ConfigKept
        <5>2. CASE \E k \in JobId \ {j} : /\ k[1] = m /\ job[k].state = "calling"
                                          /\ \A p \in Settled(m) : job[k].set[p] = want[m][p]
          BY <1>0, <1>a, <5>2 DEF ConfigKept
        <5>. QED BY <3>2, <5>1, <5>2 DEF ConfigKept
      <4>2. ASSUME NEW u \in User PROVE UserKept(m, u)'
        <5>1. CASE row[u] # "active" \/ u \in holds[m] \/ Enabled(m) = {}
          BY <1>0, <1>a, <2>0, <5>1 DEF UserKept
        <5>2. CASE Restores(j, u)
          BY <2>0, <5>2 DEF UserKept, Restores
        <5>3. CASE \E k \in JobId \ {j} : k[1] = m /\ Restores(k, u)
          BY <1>0, <5>3 DEF UserKept, Restores
        <5>. QED BY <3>2, <5>1, <5>2, <5>3 DEF UserKept
      <4>. QED BY <4>1, <4>2 DEF Kept
    <3>. QED BY <3>1, <3>2 DEF Kept
  <2>. QED BY <2>1, <2>2
<1>4. CASE \/ ApplyRefused(j) \/ ApplyTimesOut(j) \/ QueryThrows(j)
           \/ \E P \in SUBSET Profile : ApplyPartlyFails(j, P)
  <2>1. EndAttempt(j)
    BY <1>4 DEF ApplyRefused, ApplyTimesOut, QueryThrows, ApplyPartlyFails
  <2>. QED BY <1>b, <2>1, EndAttemptEffect
<1>5. CASE FetchUsers(j) \/ NobodyToPush(j) \/ \E u \in User : PushUser(j, u)
  <2>0. /\ job[j].state \in {"applied", "pushing"} /\ why' = why /\ file' = file /\ runs' = runs
        /\ \A v \in User : v \in holds[m] => v \in holds'[m]
    BY <1>0, <1>5 DEF FetchUsers, NobodyToPush, PushUser
  <2>1. CASE Excused(m)
    BY <1>c, <2>0, <2>1
  <2>2. CASE ConfigKept(m) /\ \A u \in User : UserKept(m, u)
    <3>1. ConfigKept(m)'
      BY <1>0, <1>a, <2>0, <2>2 DEF ConfigKept, SyncedAt
    <3>2. ASSUME NEW v \in User PROVE UserKept(m, v)'
      <4>1. CASE row[v] # "active" \/ v \in holds[m] \/ Enabled(m) = {}
        BY <1>0, <1>a, <2>0, <4>1 DEF UserKept
      <4>2. CASE \E k \in JobId \ {j} : k[1] = m /\ Restores(k, v)
        BY <1>0, <4>2 DEF UserKept, Restores
      <4>3. CASE Restores(j, v) /\ row[v] = "active"
        <5>1. CASE FetchUsers(j)
          <6>1. job'[j].state = "pushing" /\ job'[j].users = fetchActiveUsers
            BY <1>0, <5>1 DEF FetchUsers, Job
          <6>. QED BY <4>3, <6>1 DEF fetchActiveUsers, UserKept, Restores
        <5>2. ASSUME NEW u \in User, PushUser(j, u) PROVE UserKept(m, v)'
          <6>1. v \in job[j].users /\ u \in holds'[m] /\ job[j].state = "pushing"
            BY <1>0, <4>3, <5>2 DEF PushUser, Restores
          <6>2. CASE v = u
            BY <6>1, <6>2 DEF UserKept
          <6>3. CASE v # u
            <7> DEFINE rest == job[j].users \ {u}
            <7>1. v \in rest /\ job' = [job EXCEPT ![j] = [job[j] EXCEPT !.users = rest]]
              BY <1>0, <5>2, <6>1, <6>3 DEF PushUser, Pushed
            <7>. HIDE DEF rest
            <7>2. job'[j].state = "pushing" /\ job'[j].users = rest
              BY <1>0, <6>1, <7>1 DEF Job
            <7>. QED BY <7>1, <7>2 DEF UserKept, Restores
          <6>. QED BY <6>2, <6>3
        <5>3. CASE NobodyToPush(j)
          BY <4>3, <5>3 DEF NobodyToPush, Restores
        <5>. QED BY <1>5, <5>1, <5>2, <5>3
      <4>. QED BY <2>2, <4>1, <4>2, <4>3 DEF UserKept
    <3>. QED BY <3>1, <3>2 DEF Kept
  <2>. QED BY <2>1, <2>2 DEF Kept
<1>6. ASSUME NEW u \in User, PushFails(j, u) PROVE Kept(m)'
  <2>1. why' = Blame({m}, "pushFailed") /\ "pushFailed" # "none"
    BY <1>6 DEF PushFails
  <2>. QED BY <1>b, <2>1, BlamedOne
<1>7. CASE Promote(j)
  <2>1. job'[j].state = "waiting"
    BY <1>0, <1>7 DEF Promote, Now, Job
  <2>. QED BY <1>b, <2>1
<1>. QED BY <1>1, <1>2, <1>3, <1>4, <1>5, <1>6, <1>7 DEF WorkerStep

(* A step of the worker keeps every node explained. *)
LEMMA WorkerKept ==
  ASSUME TypeOK, NEW j \in JobId, WorkerStep(j), NEW m \in Node, Kept(m)
  PROVE  Kept(m)'
<1>1. CASE m = j[1]
  BY <1>1, WorkerHere
<1>2. CASE m # j[1]
  <2>0. /\ \A k \in JobId : k[1] = m => job'[k] = job[k]
        /\ why'[m] = why[m] /\ file'[m] = file[m] /\ runs'[m] = runs[m]
                            /\ holds'[m] = holds[m]
        /\ UNCHANGED <<dbVars, panelVars, known, start, up>>
    BY <1>2, WorkerElsewhere
  <2>1. Unsettling(m)
    BY <2>0, TablesStand DEF dbVars, panelVars
  <2>2. Calm(m) /\ Idle(m)
    BY <2>0 DEF dbVars, panelVars, Calm, Idle
  <2>. QED BY <2>1, <2>2, Stays
<1>. QED BY <1>1, <1>2

-----------------------------------------------------------------------------
(* Requests nobody awaits, and the processes *)

(* An apply that arrives late sets an adapter back, which is on record, or
   does no harm. *)
LEMMA StrayKept ==
  ASSUME TypeOK, NEW x \in stray, StrayApplied(x) \/ StrayLost(x), NEW m \in Node, Kept(m)
  PROVE  Kept(m)'
<1>. USE DEF Worked, dbVars, panelVars
<1>0. x.node \in Node /\ x.set \in Inbounds /\ runs \in [Node -> Inbounds]
  BY DEF TypeOK
<1>1. Unsettling(m)
  BY TablesStand DEF StrayApplied, StrayLost
<1>2. CASE StrayLost(x)
  BY <1>1, <1>2, Stays DEF StrayLost, Calm, Idle
<1>3. CASE StrayApplied(x) /\ m # x.node
  <2>1. why'[m] = why[m]
    <3>1. CASE SetsBack(x.node, x.set)
      <4>1. why' = Blame({x.node}, "staleApply") /\ "staleApply" # "none"
        BY <1>3, <3>1 DEF StrayApplied
      <4>. QED BY <1>0, <1>3, <4>1, BlamedOne
    <3>2. CASE ~SetsBack(x.node, x.set)
      BY <1>3, <3>2 DEF StrayApplied
    <3>. QED BY <3>1, <3>2
  <2>2. Calm(m) /\ Idle(m)
    BY <1>0, <1>3, <2>1 DEF StrayApplied, TakeSet, Calm, Idle
  <2>. QED BY <1>1, <2>2, Stays
<1>4. CASE StrayApplied(x) /\ m = x.node
  <2>0. TakeSet(m, x.set, Profile)
        /\ UNCHANGED <<row, nodeRow, status, bindings, want, admin, todo, beat, known, start, up,
                       job, holds>>
    BY <1>0, <1>4 DEF StrayApplied
  <2>1. CASE SetsBack(m, x.set)
    <3>1. why' = Blame({m}, "staleApply") /\ "staleApply" # "none"
      BY <1>4, <2>1 DEF StrayApplied
    <3>2. why'[m] # "none" \/ status'[m] # "online"
      BY <2>0, <3>1, BlamedOne
    <3>. QED BY <3>2 DEF Kept, Excused, Owed
  <2>2. CASE ~SetsBack(m, x.set)
    <3>0. why' = why
      BY <1>4, <2>2 DEF StrayApplied
    <3>1. CASE Excused(m)
      <4>1. Calm(m)
        BY <2>0, <3>0 DEF Calm
      <4>. QED BY <3>1, <4>1, ExcusedStays DEF Kept
    <3>2. CASE ConfigKept(m) /\ \A u \in User : UserKept(m, u)
      <4>0. Settled(m)' = Settled(m) /\ Enabled(m)' = Enabled(m)
        BY <2>0 DEF Settled, Enabled
      <4>1. ConfigKept(m)'
        <5>1. CASE \A p \in Settled(m) : SyncedAt(m, p)
          <6>1. \A p \in Settled(m) : SyncedAt(m, p)'
            BY <1>0, <2>0, <2>2, <5>1, Configures
          <6>. QED BY <2>0, <4>0, <6>1 DEF ConfigKept
        <5>2. CASE ~\A p \in Settled(m) : SyncedAt(m, p)
          BY <2>0, <3>2, <4>0, <5>2 DEF ConfigKept
        <5>. QED BY <5>1, <5>2
      <4>2. ASSUME NEW u \in User PROVE UserKept(m, u)'
        BY <2>0, <3>2, <4>0 DEF UserKept, Restores
      <4>. QED BY <4>1, <4>2 DEF Kept
    <3>. QED BY <3>1, <3>2 DEF Kept
  <2>. QED BY <2>1, <2>2
<1>. QED BY <1>2, <1>3, <1>4

(* A new process of an agent is a restart its heartbeat will tell, or the
   node's first, which the poll has yet to find. *)
LEMMA AgentKept ==
  ASSUME TypeOK, NEW n \in Node, AgentStart(n) \/ AgentStop(n), NEW m \in Node, Kept(m), Unborn(n)
  PROVE  Kept(m)'
<1>. USE DEF dbVars, panelVars, queueVars
<1>1. Unsettling(m)
  BY TablesStand DEF AgentStart, AgentStop
<1>2. CASE m # n
  <2>1. Calm(m) /\ Idle(m)
    BY <1>2 DEF AgentStart, AgentStop, Calm, Idle, TypeOK
  <2>. QED BY <1>1, <2>1, Stays
<1>3. CASE m = n /\ AgentStop(n)
  <2>1. ~up'[n]
    BY <1>3 DEF AgentStop, TypeOK
  <2>. QED BY <1>3, <2>1 DEF Kept, Excused
<1>4. CASE m = n /\ AgentStart(n)
  <2>0. start[n] \in Nat /\ known[n] \in Nat /\ start'[n] = start[n] + 1
    BY <1>4, BoundsAssumption DEF AgentStart, TypeOK
  <2>1. CASE start[n] = 0
    BY <1>4, <2>1 DEF AgentStart, Unborn, Kept, Excused, Owed
  <2>2. CASE start[n] # 0
    <3>1. known'[n] # start'[n] /\ start'[n] # 1
      BY <1>4, <2>0, <2>2 DEF AgentStart, Unborn
    <3>. QED BY <1>4, <3>1 DEF Kept, Excused, Owed, Restarted
  <2>. QED BY <2>1, <2>2
<1>. QED BY <1>2, <1>3, <1>4

(* A crash of the panel: what its memory was about, and the jobs stalled
   once too often, are on record; every other running job is taken again. *)
LEMMA CrashKept ==
  ASSUME TypeOK, PanelCrash, NEW m \in Node, Kept(m)
  PROVE  Kept(m)'
<1>. USE DEF dbVars, agentVars
<1>0. /\ UNCHANGED <<row, nodeRow, status, bindings, want, known, start, up, file, runs, holds>>
      /\ \A j \in JobId : j \notin Running => job'[j] = job[j]
      /\ \A j \in Stalled : job'[j].state = "waiting"
      /\ Running = Stalled \cup Dropped
  BY DEF PanelCrash, Stalled, Dropped, Running, NoJob
<1>1. /\ why'[m] = why[m] \/ why'[m] # "none"
      /\ status[m] = "online" /\ m \in Forgotten => why'[m] # "none"
      /\ status[m] = "online" /\ (\E j \in Dropped : j[1] = m) => why'[m] # "none"
  BY DEF PanelCrash
<1>2. CASE ~Live(m) \/ ~up[m] \/ why[m] # "none" \/ status[m] # "online" \/ Restarted(m)
  BY <1>0, <1>1, <1>2 DEF Live, Restarted, Kept, Excused, Owed
<1>3. CASE status[m] = "online" /\ (m \in Forgotten \/ \E j \in Dropped : j[1] = m)
  BY <1>1, <1>3 DEF Kept, Excused
<1>4. CASE \E j \in Stalled : j[1] = m
  BY <1>0, <1>4 DEF Kept, Excused, Owed, Stalled, Running
<1>5. CASE \E j \in JobId \ Running : j[1] = m /\ job[j].state \in {"waiting", "delayed"}
  BY <1>0, <1>5 DEF Kept, Excused, Owed
<1>6. CASE /\ ~Excused(m) \/ ~(\E j \in JobId : j[1] = m /\ job[j].state \in {"waiting", "gotNode", "delayed"})
           /\ ConfigKept(m) /\ \A u \in User : UserKept(m, u)
           /\ m \notin Forgotten /\ ~\E j \in Running : j[1] = m
  <2>1. Settled(m)' \subseteq Settled(m) /\ Enabled(m)' \subseteq Enabled(m) /\ want' = want
    BY <1>0, <1>6 DEF Settled, Enabled, Forgotten
  <2>2. ConfigKept(m)'
    BY <1>0, <1>6, <2>1 DEF ConfigKept, SyncedAt, Running
  <2>3. ASSUME NEW u \in User PROVE UserKept(m, u)'
    BY <1>0, <1>6, <2>1 DEF UserKept, Restores, Running
  <2>. QED BY <2>2, <2>3 DEF Kept
<1>7. Excused(m) => \/ ~Live(m) \/ ~up[m] \/ why[m] # "none" \/ status[m] # "online" \/ Restarted(m)
                    \/ m \in Forgotten \/ (\E j \in Running : j[1] = m)
                    \/ \E j \in JobId \ Running : j[1] = m /\ job[j].state \in {"waiting", "delayed"}
  BY DEF Excused, Owed, Forgotten, Running
<1>. QED BY <1>0, <1>2, <1>3, <1>4, <1>5, <1>6, <1>7 DEF Kept

-----------------------------------------------------------------------------
(* The invariant *)

(* What was never started was never seen. *)
LEMMA UnbornNext ==
  ASSUME TypeOK, TypeOK', [Next]_vars, NEW n \in Node, Unborn(n)
  PROVE  Unborn(n)'
<1>. USE DEF dbVars, panelVars, queueVars, agentVars
<1>0. /\ start[n] \in Nat /\ known[n] \in Nat /\ start'[n] \in Nat /\ known'[n] \in Nat
  BY BoundsAssumption DEF TypeOK
<1>1. ASSUME NEW k \in Node, PollWrite(k) PROVE Unborn(n)'
  BY <1>1 DEF PollWrite, Unborn, TypeOK
<1>2. ASSUME NEW k \in Node, Heartbeat(k) PROVE Unborn(n)'
  BY <1>0, <1>2 DEF Heartbeat, Unborn, TypeOK
<1>3. CASE Poll
  BY <1>3 DEF Poll, Answers, Unborn
<1>4. ASSUME NEW k \in Node, AgentStart(k) PROVE Unborn(n)'
  BY <1>0, <1>4 DEF AgentStart, Unborn, TypeOK
<1>5. ASSUME NEW k \in Node, AgentStop(k) PROVE Unborn(n)'
  BY <1>5 DEF AgentStop, Unborn, TypeOK
<1>6. CASE PanelCrash
  BY <1>6 DEF PanelCrash, Unborn
<1>7. ASSUME UNCHANGED <<known, start, up, status, poll>> PROVE Unborn(n)'
  BY <1>7 DEF Unborn
<1>8. CASE AdminStep
  <2>1. ASSUME NEW k \in Node, NEW p \in Profile,
               \/ InsertBinding(k, p) \/ EmitBindingCreated(k, p) \/ DefaultHostThrows(k, p)
               \/ DeleteBinding(k, p) \/ \E enabled \in BOOLEAN : UpdateBinding(k, p, enabled)
        PROVE  Unborn(n)'
    BY <1>7, <2>1 DEF Requested, InsertBinding, EmitBindingCreated, DefaultHostThrows,
       DeleteBinding, UpdateBinding
  <2>2. ASSUME NEW p \in Profile, NEW N \in SUBSET Node,
               UpdateProfile(p, N) \/ DeleteProfile(p, N) \/ ReadAffected(p)
        PROVE  Unborn(n)'
    BY <1>7, <2>2 DEF Requested, UpdateProfile, DeleteProfile, ReadAffected
  <2>3. ASSUME NEW k \in Node, CreateNode(k) \/ DropBindings(k) \/ DeleteNode(k)
        PROVE  Unborn(n)'
    BY <1>7, <2>3 DEF Requested, CreateNode, DropBindings, DeleteNode
  <2>4. ASSUME NEW u \in User, NEW t \in UserState, SetUser(u, t) PROVE Unborn(n)'
    BY <1>7, <2>4 DEF SetUser
  <2>5. ASSUME NEW u \in User, Lapse(u) \/ Extend(u) PROVE Unborn(n)'
    BY <1>7, <2>5 DEF Lapse, Extend
  <2>. QED BY <1>8, <2>1, <2>2, <2>3, <2>4, <2>5 DEF AdminStep
<1>9. ASSUME NEW k \in Node, EnqueueStep(k) \/ RestartStep(k) PROVE Unborn(n)'
  BY <1>7, <1>9 DEF EnqueueStep, Enqueue, AddRejected, RestartStep, AddRestartJob, RestartAddRejected
<1>10. ASSUME NEW p \in Profile, FanOutStep(p) PROVE Unborn(n)'
  BY <1>7, <1>10 DEF FanOutStep, FanOut, FanOutThrows
<1>11. ASSUME NEW j \in JobId, WorkerStep(j) PROVE Unborn(n)'
  BY <1>7, <1>11, WorkerElsewhere
<1>12. ASSUME NEW x \in stray, StrayApplied(x) \/ StrayLost(x) PROVE Unborn(n)'
  BY <1>7, <1>12 DEF StrayApplied, StrayLost, Worked
<1>13. CASE UNCHANGED vars
  BY <1>7, <1>13 DEF vars
<1>. QED
  BY <1>1, <1>2, <1>3, <1>4, <1>5, <1>6, <1>8, <1>9, <1>10, <1>11, <1>12, <1>13 DEF Next

(* What is resolved for a node has a binding behind it. *)
LEMMA BoundNext ==
  ASSUME TypeOK, [Next]_vars, NEW n \in Node, Bound(n)
  PROVE  Bound(n)'
<1>. USE DEF dbVars, panelVars, queueVars, agentVars
<1>1. ASSUME UNCHANGED <<want, bindings>> PROVE Bound(n)'
  BY <1>1 DEF Bound
<1>2. ASSUME NEW k \in Node, NEW p \in Profile, NEW v, want' = Resolved(k, p, v),
             \A q \in Profile : q # p \/ n # k => (<<n, q>> \in bindings => <<n, q>> \in bindings'),
             v = 0 \/ <<k, p>> \in bindings'
      PROVE  Bound(n)'
  BY <1>2 DEF Resolved, Bound, TypeOK, Inbounds
<1>3. CASE AdminStep
  <2>1. ASSUME NEW k \in Node, NEW p \in Profile, InsertBinding(k, p) \/ DeleteBinding(k, p)
        PROVE  Bound(n)'
    <3>1. CASE InsertBinding(k, p)
      BY <1>2, <3>1 DEF InsertBinding
    <3>2. CASE DeleteBinding(k, p)
      BY <1>2, <3>2 DEF DeleteBinding
    <3>. QED BY <2>1, <3>1, <3>2
  <2>2. ASSUME NEW k \in Node, NEW p \in Profile, EmitBindingCreated(k, p) \/ DefaultHostThrows(k, p)
        PROVE  Bound(n)'
    BY <1>1, <2>2 DEF EmitBindingCreated, DefaultHostThrows
  <2>3. ASSUME NEW k \in Node, NEW p \in Profile, NEW enabled \in BOOLEAN, UpdateBinding(k, p, enabled)
        PROVE  Bound(n)'
    BY <1>2, <2>3 DEF UpdateBinding
  <2>4. ASSUME NEW p \in Profile, NEW N \in SUBSET Node,
               UpdateProfile(p, N) \/ DeleteProfile(p, N) \/ ReadAffected(p)
        PROVE  Bound(n)'
    <3>1. CASE UpdateProfile(p, N)
      BY <3>1 DEF UpdateProfile, BoundTo, Bound, TypeOK, Inbounds
    <3>2. CASE DeleteProfile(p, N)
      BY <3>2 DEF DeleteProfile, Bound, TypeOK, Inbounds
    <3>3. CASE ReadAffected(p)
      BY <1>1, <3>3 DEF ReadAffected
    <3>. QED BY <2>4, <3>1, <3>2, <3>3
  <2>5. ASSUME NEW k \in Node, CreateNode(k) \/ DropBindings(k) \/ DeleteNode(k)
        PROVE  Bound(n)'
    <3>1. CASE DropBindings(k)
      BY <3>1 DEF DropBindings, Bound, TypeOK, NoInbounds
    <3>. QED BY <1>1, <2>5, <3>1 DEF CreateNode, DeleteNode
  <2>6. ASSUME NEW u \in User, Lapse(u) \/ Extend(u) \/ \E t \in UserState : SetUser(u, t)
        PROVE  Bound(n)'
    BY <1>1, <2>6 DEF Lapse, Extend, SetUser
  <2>. QED BY <1>3, <2>1, <2>2, <2>3, <2>4, <2>5, <2>6 DEF AdminStep
<1>4. ASSUME NEW k \in Node, EnqueueStep(k) \/ PollWrite(k) \/ Heartbeat(k) \/ RestartStep(k)
      PROVE  Bound(n)'
  BY <1>1, <1>4 DEF EnqueueStep, Enqueue, AddRejected, PollWrite, Heartbeat, RestartStep,
     AddRestartJob, RestartAddRejected
<1>5. ASSUME NEW p \in Profile, FanOutStep(p) PROVE Bound(n)'
  BY <1>1, <1>5 DEF FanOutStep, FanOut, FanOutThrows
<1>6. ASSUME NEW j \in JobId, WorkerStep(j) PROVE Bound(n)'
  BY <1>1, <1>6, WorkerElsewhere
<1>7. CASE \/ Poll \/ PanelCrash \/ UNCHANGED vars
           \/ \E x \in stray : StrayApplied(x) \/ StrayLost(x)
           \/ \E k \in Node : AgentStart(k) \/ AgentStop(k)
  BY <1>1, <1>7 DEF Poll, PanelCrash, vars, StrayApplied, StrayLost, Worked, AgentStart, AgentStop
<1>. QED BY <1>3, <1>4, <1>5, <1>6, <1>7 DEF Next

(* Every node is explained after any step. *)
LEMMA KeptNext ==
  ASSUME TypeOK, [Next]_vars, \A n \in Node : Unborn(n) /\ Bound(n) /\ Kept(n), NEW m \in Node
  PROVE  Kept(m)'
<1>0. Kept(m) /\ Bound(m)
  OBVIOUS
<1>1. CASE AdminStep
  <2>1. ASSUME NEW p \in Profile, NEW N \in SUBSET Node,
               UpdateProfile(p, N) \/ DeleteProfile(p, N) \/ ReadAffected(p)
        PROVE  Kept(m)'
    BY <1>0, <2>1, ProfileKept
  <2>. QED BY <1>0, <1>1, <2>1, BindingKept, NodeKept, SetUserKept, LapseKept DEF AdminStep
<1>2. ASSUME NEW n \in Node, EnqueueStep(n) PROVE Kept(m)'
  BY <1>0, <1>2, EnqueueKept
<1>3. CASE Poll \/ \E n \in Node : PollWrite(n)
  BY <1>0, <1>3, PollKept
<1>4. ASSUME NEW n \in Node, Heartbeat(n) \/ RestartStep(n) PROVE Kept(m)'
  BY <1>0, <1>4, HeartbeatKept
<1>5. ASSUME NEW p \in Profile, FanOutStep(p) PROVE Kept(m)'
  BY <1>0, <1>5, FanOutKept
<1>6. ASSUME NEW j \in JobId, WorkerStep(j) PROVE Kept(m)'
  BY <1>0, <1>6, WorkerKept
<1>7. ASSUME NEW x \in stray, StrayApplied(x) \/ StrayLost(x) PROVE Kept(m)'
  BY <1>0, <1>7, StrayKept
<1>8. ASSUME NEW n \in Node, AgentStart(n) \/ AgentStop(n) PROVE Kept(m)'
  BY <1>0, <1>8, AgentKept
<1>9. CASE PanelCrash
  BY <1>0, <1>9, CrashKept
<1>10. CASE UNCHANGED vars
  <2>1. Calm(m) /\ Idle(m) /\ Unsettling(m)
    BY <1>10, TablesStand DEF vars, dbVars, panelVars, queueVars, agentVars, Calm, Idle
  <2>. QED BY <1>0, <2>1, Stays
<1>. QED BY <1>1, <1>2, <1>3, <1>4, <1>5, <1>6, <1>7, <1>8, <1>9, <1>10 DEF Next

(* No node exists at first. *)
LEMMA InvInit == Init => IInv
<1>. SUFFICES ASSUME Init PROVE IInv
  OBVIOUS
<1>1. TypeOK
  BY TypeInit
<1>2. ASSUME NEW n \in Node PROVE Unborn(n) /\ Bound(n) /\ Kept(n)
  BY DEF Init, Unborn, Bound, NoInbounds, Kept, Excused, Live
<1>. QED BY <1>1, <1>2 DEF IInv

(* Every step keeps the inductive invariant. *)
LEMMA InvNext == IInv /\ [Next]_vars => IInv'
<1>. SUFFICES ASSUME IInv, [Next]_vars PROVE IInv'
  OBVIOUS
<1>1. TypeOK /\ TypeOK'
  BY TypeNext DEF IInv
<1>2. ASSUME NEW m \in Node PROVE Unborn(m)' /\ Bound(m)' /\ Kept(m)'
  BY <1>1, UnbornNext, BoundNext, KeptNext DEF IInv
<1>. QED BY <1>1, <1>2 DEF IInv

(* The inductive invariant always holds. *)
LEMMA InvAlways == Spec => []IInv
BY InvInit, InvNext, PTL DEF Spec

(* What is owed is what the property calls due. *)
LEMMA OwedIsDue ==
  ASSUME NEW n \in Node
  PROVE  /\ Owed(n) => ReapplyDue(n)
         /\ (\E p \in Profile : p \notin Settled(n)) => ReapplyDue(n)
BY DEF Owed, Restarted, ReapplyDue, Settled

(* A running agent that does not run every enabled binding as it is, or that
   was last sent a set with an inbound its node has no more (disabled,
   deleted, its profile gone), has a push coming that will carry the present
   state, or one of the losses on record happened (applyInboundsForNode and
   everything that adds its jobs). *)
THEOREM ConfigExplainedHolds == Spec => []ConfigExplained
<1>1. ASSUME IInv PROVE ConfigExplained
  <2>. SUFFICES ASSUME NEW n \in Node, Live(n), up[n], ~ConfigSynced(n),
                       ~ReapplyDue(n), why[n] = "none"
                PROVE  \E j \in JobId : j[1] = n /\ Carries(j)
    BY DEF ConfigExplained
  <2>1. ConfigKept(n) /\ Settled(n) = Profile
    BY <1>1, OwedIsDue DEF IInv, Kept, Excused, Settled
  <2>2. PICK j \in JobId : /\ j[1] = n /\ job[j].state = "calling"
                           /\ \A p \in Profile : job[j].set[p] = want[n][p]
    BY <2>1 DEF ConfigKept, ConfigSynced, SyncedAt
  <2>3. job[j].set \in Inbounds /\ want[n] \in Inbounds
    BY <1>1, JobTypes DEF IInv, TypeOK
  <2>. QED BY <2>2, <2>3 DEF Carries, Inbounds
<1>. QED BY <1>1, InvAlways, PTL

(* An agent with inbounds lacks an active user only while the push that
   restores him is due or under way, or after one of those losses, or because
   a push left him out while his date was past (fetchActiveUsers looks at it)
   and it was moved afterwards. *)
THEOREM UsersExplainedHolds == Spec => []UsersExplained
<1>1. ASSUME IInv PROVE UsersExplained
  <2>. SUFFICES ASSUME NEW n \in Node, NEW u \in User, Live(n), up[n], Lacks(n, u),
                       ~ReapplyDue(n), why[n] = "none"
                PROVE  \E j \in JobId : j[1] = n /\ Restores(j, u)
    BY DEF UsersExplained, Restores
  <2>1. UserKept(n, u) /\ Settled(n) = Profile
    BY <1>1, OwedIsDue DEF IInv, Kept, Excused, Settled
  <2>2. \E p \in Profile : want[n][p] # 0
    BY <1>1 DEF IInv, TypeOK, Inbounds, NoInbounds, Lacks
  <2>. QED BY <2>1, <2>2 DEF UserKept, Enabled, Lacks
<1>. QED BY <1>1, InvAlways, PTL
=============================================================================

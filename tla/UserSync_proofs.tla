--------------------------- MODULE UserSync_proofs ---------------------------
(***************************************************************************)
(* Type correctness and the two explanation invariants of UserSync, for    *)
(* every set of users and nodes, every bound and every set of faults.      *)
(***************************************************************************)
EXTENDS UserSync, FiniteSetTheorems, SequenceTheorems, TLAPS

-----------------------------------------------------------------------------
(* Helpers *)

\* A function on 1 .. n is a sequence.
LEMMA FunctionIsSequence ==
    ASSUME NEW S, NEW n \in Nat, NEW f \in [1 .. n -> S]
    PROVE  f \in Seq(S) /\ Len(f) = n /\ DOMAIN f = 1 .. n
OBVIOUS

\* A visiting order of a finite set is a sequence over it.
LEMMA OrdersAreSequences ==
    ASSUME NEW S, IsFiniteSet(S), NEW q \in Orders(S)
    PROVE  /\ Cardinality(S) \in Nat
           /\ q \in Seq(S)
           /\ Len(q) = Cardinality(S)
<1>1. Cardinality(S) \in Nat
  BY FS_CardinalityType
<1>2. q \in [1 .. Cardinality(S) -> S]
  BY DEF Orders
<1>. QED
  BY <1>1, <1>2

\* The sets the model loops over or counts are finite.
LEMMA FiniteSubsets ==
    /\ \A S \in SUBSET User : IsFiniteSet(S)
    /\ \A S \in SUBSET JobId : IsFiniteSet(S)
    /\ \A S \in SUBSET Push : IsFiniteSet(S)
<1>1. IsFiniteSet(JobId) /\ IsFiniteSet(Push)
  BY FS_Interval, BoundsAssumption DEF JobId, Push
<1>. QED
  BY <1>1, FS_Subset, UserNodeAssumption

LEMMA IdleType == Idle \in AdminOp
BY DEF Idle, AdminOp, Subject, Status

-----------------------------------------------------------------------------
(* What the updates of a job do *)

\* The two jobs ask for the same thing.
SameWork(x, y) == y.name = x.name /\ y.arg = x.arg

LEMMA SetState ==
    ASSUME NEW x \in Job, NEW s \in JobState
    PROVE  /\ [x EXCEPT !.state = s] \in Job
           /\ [x EXCEPT !.state = s].state = s
           /\ SameWork(x, [x EXCEPT !.state = s])
BY DEF Job, SameWork

LEMMA Retry ==
    ASSUME NEW x \in Job
    PROVE  LET y == [x EXCEPT !.state = "delayed", !.tries = @ + 1]
           IN  y \in Job /\ y.state = "delayed" /\ SameWork(x, y)
<1>1. x.tries + 1 \in Nat
  BY DEF Job
<1>2. [x EXCEPT !.state = "delayed", !.tries = @ + 1]
        = [x EXCEPT !.state = "delayed", !.tries = x.tries + 1]
  BY DEF Job
<1>3. [x EXCEPT !.state = "delayed", !.tries = x.tries + 1] \in Job
  BY <1>1 DEF Job, JobState
<1>4. x.tries + 1 \in Nat => [x EXCEPT !.state = "delayed", !.tries = x.tries + 1].state = "delayed" /\ SameWork(x, [x EXCEPT !.state = "delayed", !.tries = x.tries + 1])
  BY DEF Job, SameWork
<1>. QED
  BY <1>1, <1>2, <1>3, <1>4

LEMMA Stall ==
    ASSUME NEW x \in Job
    PROVE  LET y == [x EXCEPT !.state = "waiting", !.stalls = @ + 1]
           IN  y \in Job /\ y.state = "waiting" /\ SameWork(x, y)
<1>1. x.stalls + 1 \in Nat
  BY DEF Job
<1>2. [x EXCEPT !.state = "waiting", !.stalls = @ + 1]
        = [x EXCEPT !.state = "waiting", !.stalls = x.stalls + 1]
  BY DEF Job
<1>3. [x EXCEPT !.state = "waiting", !.stalls = x.stalls + 1] \in Job
  BY <1>1 DEF Job, JobState
<1>4. [x EXCEPT !.state = "waiting", !.stalls = x.stalls + 1].state = "waiting" /\ SameWork(x, [x EXCEPT !.state = "waiting", !.stalls = x.stalls + 1])
  BY DEF Job, SameWork
<1>. QED
  BY <1>1, <1>2, <1>3, <1>4

LEMMA OverFields ==
    ASSUME NEW o \in JobState
    PROVE  Over(o) \in Job /\ Over(o).name = "none" /\ Over(o).arg = None /\ Over(o).state = o
BY DEF Over, NoJob, Job, JobState, Subject

-----------------------------------------------------------------------------
(* Type correctness *)

LEMMA InitType == Init => TypeOK
<1>. SUFFICES ASSUME Init PROVE TypeOK
  OBVIOUS
<1>1. NoJob \in Job /\ Idle \in AdminOp
  BY DEF NoJob, Job, JobState, Idle, AdminOp, Subject, Status, JobName
<1>2. Addressed
  BY DEF Init, Addressed, NoJob, Idle, UserJob, NoPush
<1>3. NoPush \in PushState
  BY DEF NoPush, PushState
<1>. QED
  BY <1>1, <1>2, <1>3 DEF Init, TypeOK, Status, LeakReason, GapReason

LEMMA RowStatus ==
    ASSUME NEW x \in [status : Status \cup {"absent"}, deleted : BOOLEAN], NEW s \in Status
    PROVE  [x EXCEPT !.status = s] \in [status : Status \cup {"absent"}, deleted : BOOLEAN]
OBVIOUS

\* What the two kinds of update of a row return.
LEMMA RowUpdates ==
    ASSUME TypeOK, NEW u \in User, NEW s \in Status
    PROVE  /\ [row EXCEPT ![u].status = s]
                \in [User -> [status : Status \cup {"absent"}, deleted : BOOLEAN]]
           /\ [row EXCEPT ![u].deleted = TRUE]
                \in [User -> [status : Status \cup {"absent"}, deleted : BOOLEAN]]
<1>1. row[u] \in [status : Status \cup {"absent"}, deleted : BOOLEAN]
  BY DEF TypeOK
<1>2. /\ [row[u] EXCEPT !.status = s] \in [status : Status \cup {"absent"}, deleted : BOOLEAN]
      /\ [row[u] EXCEPT !.deleted = TRUE] \in [status : Status \cup {"absent"}, deleted : BOOLEAN]
  BY <1>1
<1>. QED
  BY <1>2 DEF TypeOK

LEMMA AdminType ==
    ASSUME TypeOK, AdminStep PROVE TypeOK'
<1>. USE DEF TypeOK, queueVars, netVars, agentVars, ghostVars, dbVars, panelVars,
             Status, Event, Ev, AdminOp, Idle, Subject, EventName, Addressed, IsBackfill
<1>1. ASSUME NEW u \in User, CreateUser(u) PROVE TypeOK'
  BY <1>1 DEF CreateUser
<1>2. ASSUME NEW r \in Request, NEW u \in User, NEW to \in {"active", "disabled"},
             ReadForUpdate(r, u, to) PROVE TypeOK'
  BY <1>2 DEF ReadForUpdate, Exists
<1>3. ASSUME NEW r \in Request, NEW u \in User, CheckDelete(r, u) PROVE TypeOK'
  BY <1>3 DEF CheckDelete
<1>4. ASSUME NEW r \in Request, WriteUpdate(r) PROVE TypeOK'
  <2>. DEFINE a == admin[r]
              e == Ev("user.status-changed", a.arg, a.seen, a.to)
  <2>1. a.arg \in User /\ a \in AdminOp /\ a.to \in Status
    BY <1>4 DEF WriteUpdate
  <2>2. row' \in [User -> [status : Status \cup {"absent"}, deleted : BOOLEAN]]
    BY <1>4, <2>1, RowUpdates DEF WriteUpdate
  <2>3. \/ events' = Append(events, e) /\ ~IsBackfill(e) /\ e.arg \in User /\ e \in Event
        \/ events' = events
    BY <1>4, <2>1 DEF WriteUpdate, ChangesStatus
  <2>. HIDE DEF e
  <2>4. events' \in Seq(Event)
    <3>1. events \in Seq(Event)
      OBVIOUS
    <3>. HIDE DEF TypeOK, Event
    <3>. QED
      BY <2>3, <3>1
  <2>7. admin' \in [Request -> AdminOp]
    <3>1. admin' = [admin EXCEPT ![r] = Idle]
      BY <1>4 DEF WriteUpdate
    <3>. QED
      BY <3>1, IdleType
  <2>5. Addressed'
    BY <1>4, <2>3 DEF WriteUpdate
  <2>6. leak' \in [Node -> [User -> LeakReason]] /\ gap' \in [Node -> [User -> GapReason]]
    BY <1>4, <2>1 DEF WriteUpdate, LeakReason, GapReason
  <2>. QED
    BY <1>4, <2>2, <2>4, <2>5, <2>6, <2>7 DEF WriteUpdate
<1>5. ASSUME NEW r \in Request, SoftDelete(r) PROVE TypeOK'
  <2>1. admin[r].arg \in User
    BY <1>5 DEF SoftDelete
  <2>2. row' \in [User -> [status : Status \cup {"absent"}, deleted : BOOLEAN]]
    BY <1>5, <2>1, RowUpdates DEF SoftDelete
  <2>3. PICK e \in Event : e.name = "user.deleted" /\ e.arg \in User /\ events' = Append(events, e)
    BY <1>5, <2>1 DEF SoftDelete
  <2>4. events' \in Seq(Event) /\ admin' \in [Request -> AdminOp]
    BY <1>5, <2>3 DEF SoftDelete
  <2>5. Addressed'
    BY <1>5, <2>3 DEF SoftDelete
  <2>. QED
    BY <1>5, <2>2, <2>4, <2>5 DEF SoftDelete
<1>6. ASSUME NEW r \in Request, NEW n \in Node, InsertNode(r, n) PROVE TypeOK'
  BY <1>6 DEF InsertNode
<1>7. ASSUME NEW r \in Request, FinishCreateNode(r) PROVE TypeOK'
  BY <1>7 DEF FinishCreateNode
<1>8. ASSUME NEW r \in Request, AbandonCreateNode(r) PROVE TypeOK'
  BY <1>8 DEF AbandonCreateNode, GapReason
<1>9. ASSUME NEW n \in Node, DeleteNode(n) PROVE TypeOK'
  BY <1>9 DEF DeleteNode
<1>. HIDE DEF TypeOK, Addressed
<1>. QED
  BY <1>1, <1>2, <1>3, <1>4, <1>5, <1>6, <1>7, <1>8, <1>9 DEF AdminStep

LEMMA CronType ==
    ASSUME TypeOK, CronStep PROVE TypeOK'
<1>. USE DEF TypeOK, queueVars, netVars, agentVars, ghostVars, dbVars
<1>1. ASSUME NEW k \in LapseKind, NEW S \in SUBSET User, CronFind(k, S) PROVE TypeOK'
  <2>1. cron' \in [kind : LapseKind \cup {"idle"}, ids : SUBSET User]
    BY <1>1 DEF CronFind
  <2>2. UNCHANGED <<dbVars, admin, events, push, queueVars, netVars, agentVars, ghostVars>>
    BY <1>1 DEF CronFind
  <2>3. Addressed'
    BY <2>2 DEF Addressed
  <2>. QED
    BY <2>1, <2>2, <2>3
<1>2. ASSUME CronFlip PROVE TypeOK'
  <2>. DEFINE ids == cron.ids
  <2>1. ids \in SUBSET User /\ cron.kind \in Status
    BY <1>2, EnvironmentAssumption DEF CronFlip, Status
  <2>2. PICK q \in Orders(ids) :
           events' = events \o [i \in 1 .. Cardinality(ids) |-> FlipEvent(cron.kind, q[i])]
    BY <1>2 DEF CronFlip
  <2>. DEFINE flips == [i \in 1 .. Cardinality(ids) |-> FlipEvent(cron.kind, q[i])]
  <2>3. Cardinality(ids) \in Nat /\ q \in [1 .. Cardinality(ids) -> User]
    BY <2>1, <2>2, FiniteSubsets, OrdersAreSequences DEF Orders
  <2>4. /\ flips \in Seq(Event)
        /\ Len(flips) = Cardinality(ids)
        /\ \A i \in DOMAIN flips : flips[i].arg \in User /\ ~IsBackfill(flips[i])
    <3>1. ASSUME NEW u \in User
          PROVE  /\ FlipEvent(cron.kind, u) \in Event
                 /\ FlipEvent(cron.kind, u).arg = u
                 /\ ~IsBackfill(FlipEvent(cron.kind, u))
      BY <2>1 DEF FlipEvent, Ev, Event, EventName, Subject, Status, IsBackfill
    <3>2. flips \in [1 .. Cardinality(ids) -> Event]
      BY <2>3, <3>1
    <3>3. flips \in Seq(Event) /\ Len(flips) = Cardinality(ids)
      <4>. HIDE DEF flips, TypeOK
      <4>. QED
        BY <2>3, <3>2, FunctionIsSequence
    <3>. QED
      BY <2>3, <3>1, <3>3
  <2>5. events' = events \o flips
    BY <2>2
  <2>6. events' \in Seq(Event)
    BY <2>4, <2>5
  <2>7. ASSUME NEW i \in DOMAIN events'
        PROVE  IF IsBackfill(events'[i]) THEN events'[i].arg \in Node ELSE events'[i].arg \in User
    <3>. HIDE DEF flips
    <3>1. CASE i \in DOMAIN events
      BY <2>4, <2>5, <3>1 DEF Addressed
    <3>2. CASE i \notin DOMAIN events
      <4>1. i - Len(events) \in DOMAIN flips /\ events'[i] = flips[i - Len(events)]
        BY <2>4, <2>5, <2>6, <2>7, <3>2
      <4>. QED
        BY <2>4, <4>1
    <3>. QED
      BY <3>1, <3>2
  <2>8. row' \in [User -> [status : Status \cup {"absent"}, deleted : BOOLEAN]]
    <3>1. \A u \in User : [row[u] EXCEPT !.status = cron.kind]
                             \in [status : Status \cup {"absent"}, deleted : BOOLEAN]
      BY <2>1, RowStatus
    <3>2. row' = [u \in User |-> IF u \in cron.ids
                                 THEN [row[u] EXCEPT !.status = cron.kind] ELSE row[u]]
      BY <1>2 DEF CronFlip
    <3>. QED
      BY <3>1, <3>2
  <2>9. cron' \in [kind : LapseKind \cup {"idle"}, ids : SUBSET User]
    BY <1>2 DEF CronFlip
  <2>10. UNCHANGED <<nodeRow, admin, push, queueVars, netVars, agentVars, ghostVars>>
    BY <1>2 DEF CronFlip
  <2>11. Addressed'
    BY <2>7, <2>10 DEF Addressed
  <2>. QED
    BY <2>6, <2>8, <2>9, <2>10, <2>11
<1>. QED
  BY <1>1, <1>2 DEF CronStep

LEMMA HandlerType ==
    ASSUME TypeOK, HandleEvent PROVE TypeOK'
<1>. USE DEF TypeOK, netVars, agentVars, ghostVars, dbVars
<1>. DEFINE e == Head(events)
            new == [NoJob EXCEPT !.name = JobNameOf(e), !.arg = e.arg, !.state = "waiting"]
<1>1. /\ e \in Event
      /\ IF IsBackfill(e) THEN e.arg \in Node ELSE e.arg \in User
      /\ events' = Tail(events) /\ events' \in Seq(Event)
  BY DEF HandleEvent, Addressed
<1>2. CASE IsRemoval(e) \/ IsAddition(e) \/ IsBackfill(e)
  <2>1. /\ new \in Job
        /\ new.name \in UserJob => new.arg \in User
        /\ new.name = "backfillNode" => new.arg \in Node
    BY <1>1, <1>2 DEF JobNameOf, IsRemoval, IsAddition, IsBackfill, NoJob, Job, JobState,
                      JobName, Event, UserJob
  <2>2. /\ nextJob \in JobId /\ job' = [job EXCEPT ![nextJob] = new]
        /\ wait' = Append(wait, nextJob) /\ nextJob' = nextJob + 1
    BY <1>2 DEF HandleEvent
  <2>. QED
    BY <1>1, <2>1, <2>2 DEF HandleEvent, Addressed
<1>3. CASE ~(IsRemoval(e) \/ IsAddition(e) \/ IsBackfill(e))
  BY <1>1, <1>3 DEF HandleEvent, Addressed
<1>. QED
  BY <1>2, <1>3

\* The oldest event is gone, the others move up.
LEMMA EventTail ==
    ASSUME TypeOK, events # <<>>, events' = Tail(events)
    PROVE  /\ events \in Seq(Event) /\ events' \in Seq(Event) /\ Len(events') = Len(events) - 1
           /\ \A i \in DOMAIN events' : i + 1 \in DOMAIN events /\ events'[i] = events[i + 1]
<1>1. events \in Seq(Event)
  BY DEF TypeOK
<1>. HIDE DEF Event
<1>2. events' \in Seq(Event) /\ Len(events') = Len(events) - 1
  BY <1>1, HeadTailProperties
<1>3. \A i \in DOMAIN events' : i + 1 \in DOMAIN events /\ events'[i] = events[i + 1]
  BY <1>1, <1>2
<1>. QED
  BY <1>1, <1>2, <1>3

LEMMA EventMovesUp ==
    ASSUME TypeOK, events # <<>>, events' = Tail(events), NEW i \in DOMAIN events
    PROVE  \/ events[i] = Head(events)
           \/ i - 1 \in DOMAIN events' /\ events'[i - 1] = events[i]
<1>1. CASE i = 1
  BY <1>1, EventTail
<1>2. CASE i # 1
  <2>1. i - 1 \in DOMAIN events' /\ (i - 1) + 1 = i
    BY <1>2, EventTail, LenProperties
  <2>. QED
    BY <2>1, EventTail
<1>. QED
  BY <1>1, <1>2

LEMMA ThrowType ==
    ASSUME TypeOK, HandlerThrows PROVE TypeOK'
<1>1. /\ events' \in Seq(Event)
      /\ \A i \in DOMAIN events' : i + 1 \in DOMAIN events /\ events'[i] = events[i + 1]
  BY EventTail DEF HandlerThrows
<1>2. leak' \in [Node -> [User -> LeakReason]] /\ gap' \in [Node -> [User -> GapReason]]
  BY DEF HandlerThrows, TypeOK, LeakReason, GapReason
<1>3. UNCHANGED <<dbVars, admin, cron, push, queueVars, netVars, agentVars>>
  BY DEF HandlerThrows
<1>4. Addressed'
  BY <1>1, <1>3 DEF TypeOK, Addressed, queueVars
<1>. QED
  BY <1>1, <1>2, <1>3, <1>4 DEF TypeOK, dbVars, queueVars, netVars, agentVars

\* The three ways an attempt ends.
LEMMA EndAttemptEffect ==
    ASSUME TypeOK, NEW j \in JobId, NEW missed, EndAttempt(j, missed)
    PROVE  /\ job' \in [JobId -> Job]
           /\ \A i \in JobId \ {j} : job'[i] = job[i]
           /\ \/ missed = {} /\ job'[j] = Over("completed") /\ UNCHANGED ghostVars
              \/ job'[j].state = "delayed" /\ SameWork(job[j], job'[j]) /\ UNCHANGED ghostVars
              \/ /\ job'[j] = Over("failed")
                 /\ leak' \in [Node -> [User -> LeakReason]]
                 /\ gap' \in [Node -> [User -> GapReason]]
                 /\ \A u \in User, n \in Node :
                       leak'[n][u] = IF job[j].name = "removeUser" /\ <<u, n>> \in missed THEN "gaveUp"
                                     ELSE leak[n][u]
                 /\ \A u \in User, n \in Node :
                       gap'[n][u] = IF job[j].name # "removeUser" /\ <<u, n>> \in missed THEN "gaveUp"
                                     ELSE gap[n][u]
<1>1. job \in [JobId -> Job] /\ job[j] \in Job
  BY DEF TypeOK
<1>2. \A o \in {"completed", "failed"} : Over(o) \in Job
  BY OverFields DEF JobState
<1>3. CASE missed = {}
  BY <1>1, <1>2, <1>3 DEF EndAttempt
<1>4. CASE missed # {} /\ job[j].tries + 1 < Attempts
  <2>1. job' = [job EXCEPT ![j].state = "delayed", ![j].tries = @ + 1] /\ UNCHANGED ghostVars
    BY <1>4 DEF EndAttempt
  <2>2. job' = [job EXCEPT ![j] = [job[j] EXCEPT !.state = "delayed", !.tries = @ + 1]]
    BY <1>1, <2>1
  <2>. QED
    BY <1>1, <2>1, <2>2, Retry
<1>5. CASE missed # {} /\ ~(job[j].tries + 1 < Attempts)
  <2>1. /\ job' = [job EXCEPT ![j] = Over("failed")]
        /\ leak' = IF job[j].name = "removeUser"
                   THEN [n \in Node |-> [u \in User |->
                            IF <<u, n>> \in missed THEN "gaveUp" ELSE leak[n][u]]]
                   ELSE leak
        /\ gap' =  IF job[j].name = "removeUser" THEN gap
                   ELSE [n \in Node |-> [u \in User |->
                            IF <<u, n>> \in missed THEN "gaveUp" ELSE gap[n][u]]]
    BY <1>5 DEF EndAttempt
  <2>2. leak' \in [Node -> [User -> LeakReason]] /\ gap' \in [Node -> [User -> GapReason]]
    BY <2>1 DEF TypeOK, LeakReason, GapReason
  <2>. QED
    BY <1>1, <1>2, <2>1, <2>2 DEF TypeOK
<1>. QED
  BY <1>3, <1>4, <1>5

\* A worker slot takes job j.
LEMMA StartEffect ==
    ASSUME TypeOK, NEW j \in JobId, NEW name \in JobName, NEW goesOn, Start(j, name, goesOn)
    PROVE  /\ job' \in [JobId -> Job]
           /\ \A i \in JobId \ {j} : job'[i] = job[i]
           /\ job[j].state = "waiting" /\ job[j].name = name
           /\ IF goesOn THEN job'[j].state = FirstState(name) /\ SameWork(job[j], job'[j])
              ELSE job'[j] = Over("completed")
           /\ wait' \in Seq(JobId)
           /\ UNCHANGED <<dbVars, panelVars, nextJob, failed, stray, agentVars, ghostVars>>
<1>1. job \in [JobId -> Job] /\ job[j] \in Job /\ wait \in Seq(JobId)
  BY DEF TypeOK
<1>2. Over("completed") \in Job
  BY OverFields DEF JobState
<1>3. FirstState(name) \in JobState
  BY DEF FirstState, JobState
<1>4. wait' \in Seq(JobId)
  BY <1>1 DEF Start, TakeSlot
<1>5. /\ job[j].state = "waiting" /\ job[j].name = name
      /\ UNCHANGED <<dbVars, panelVars, nextJob, failed, stray, agentVars, ghostVars>>
  BY DEF Start, TakeSlot
<1>6. job' = [job EXCEPT ![j] = IF goesOn THEN [job[j] EXCEPT !.state = FirstState(name)]
                                ELSE Over("completed")]
  BY <1>1 DEF Start
<1>7. CASE goesOn
  BY <1>1, <1>3, <1>4, <1>5, <1>6, <1>7, SetState
<1>8. CASE ~goesOn
  BY <1>1, <1>2, <1>4, <1>5, <1>6, <1>8
<1>. QED
  BY <1>7, <1>8

\* Job j only changes its state.
LEMMA SetJobState ==
    ASSUME TypeOK, NEW j \in JobId, NEW s \in JobState, job' = [job EXCEPT ![j].state = s]
    PROVE  /\ job' \in [JobId -> Job]
           /\ \A i \in JobId \ {j} : job'[i] = job[i]
           /\ job'[j].state = s /\ SameWork(job[j], job'[j])
<1>1. job \in [JobId -> Job] /\ job[j] \in Job
  BY DEF TypeOK
<1>2. job' = [job EXCEPT ![j] = [job[j] EXCEPT !.state = s]]
  BY <1>1
<1>. QED
  BY <1>1, <1>2, SetState

\* The calls a job issues are typed.
LEMMA CallsType ==
    ASSUME NEW j \in JobId, NEW users \in SUBSET User, NEW nodes \in SUBSET Node
    PROVE  CallsTo(j, users, nodes) \in SUBSET Call
BY DEF CallsTo, Call

LEMMA WorkerType ==
    ASSUME TypeOK, NEW j \in JobId, WorkerStep(j) PROVE TypeOK'
<1>. USE DEF dbVars, panelVars, queueVars, netVars, agentVars, ghostVars
<1>. DEFINE kept == /\ job' \in [JobId -> Job]
                    /\ \A i \in JobId : SameWork(job[i], job'[i]) \/ job'[i].name = "none"
<1>1. ASSUME kept, wait' \in Seq(JobId), net' \in SUBSET Call,
             failed' \in [JobId -> SUBSET (User \X Node)],
             leak' \in [Node -> [User -> LeakReason]],
             gap' \in [Node -> [User -> GapReason]],
             UNCHANGED <<dbVars, panelVars, nextJob, stray, agentVars>>
      PROVE  TypeOK'
  <2>1. ASSUME NEW i \in JobId
        PROVE  /\ job'[i].name \in UserJob => job'[i].arg \in User
               /\ job'[i].name = "backfillNode" => job'[i].arg \in Node
    BY <1>1 DEF TypeOK, Addressed, UserJob, SameWork
  <2>2. Addressed'
    BY <1>1, <2>1 DEF TypeOK, Addressed
  <2>. QED
    BY <1>1, <2>2 DEF TypeOK
<1>2. ASSUME job' \in [JobId -> Job], \A i \in JobId \ {j} : job'[i] = job[i],
             SameWork(job[j], job'[j]) \/ \E o \in JobState : job'[j] = Over(o)
      PROVE  kept
  BY <1>2, OverFields DEF SameWork
<1>3. /\ net \in SUBSET Call /\ wait \in Seq(JobId)
      /\ failed \in [JobId -> SUBSET (User \X Node)]
      /\ leak \in [Node -> [User -> LeakReason]] /\ gap \in [Node -> [User -> GapReason]]
      /\ fetchActiveNodes \in SUBSET Node /\ backfillUsers \in SUBSET User
  BY DEF TypeOK, fetchActiveNodes, backfillUsers
<1>. DEFINE frame == UNCHANGED <<dbVars, panelVars, nextJob, stray, agentVars>>
<1>4. ASSUME NEW name \in JobName, NEW goesOn, Start(j, name, goesOn)
      PROVE  /\ kept /\ wait' \in Seq(JobId)
             /\ UNCHANGED <<dbVars, panelVars, nextJob, failed, stray, agentVars, ghostVars>>
  <2>1. SameWork(job[j], job'[j]) \/ job'[j] = Over("completed")
    BY <1>4, StartEffect
  <2>. QED
    BY <1>2, <1>4, <2>1, StartEffect DEF JobState
<1>5. ASSUME NEW missed, EndAttempt(j, missed)
      PROVE  /\ kept /\ leak' \in [Node -> [User -> LeakReason]]
             /\ gap' \in [Node -> [User -> GapReason]]
  <2>1. \/ SameWork(job[j], job'[j]) \/ job'[j] = Over("completed")
        \/ job'[j] = Over("failed")
    BY <1>5, EndAttemptEffect
  <2>. QED
    BY <1>2, <1>3, <1>5, <2>1, EndAttemptEffect DEF JobState
<1>6. CASE StartAddUser(j) \/ StartBackfill(j)
  BY <1>1, <1>3, <1>4, <1>6 DEF StartAddUser, StartBackfill, JobName
<1>7. CASE StartRemoveUser(j)
  <2>1. job[j].arg \in User
    BY <1>7 DEF StartRemoveUser, Start, TypeOK, Addressed, UserJob
  <2>. QED
    BY <1>1, <1>3, <1>4, <1>7, <2>1, CallsType DEF StartRemoveUser, JobName
<1>8. CASE FetchNodes(j)
  <2>1. job[j].arg \in User
    BY <1>8 DEF FetchNodes, TypeOK, Addressed, UserJob
  <2>2. kept
    BY <1>2, <1>8, SetJobState DEF FetchNodes, JobState
  <2>. QED
    BY <1>1, <1>3, <1>8, <2>1, <2>2, CallsType DEF FetchNodes
<1>9. CASE FetchUsers(j)
  <2>1. job[j].arg \in Node
    BY <1>9 DEF FetchUsers, TypeOK, Addressed
  <2>2. kept
    BY <1>2, <1>9, SetJobState DEF FetchUsers, JobState
  <2>. QED
    BY <1>1, <1>3, <1>9, <2>1, <2>2, CallsType DEF FetchUsers
<1>10. CASE FinishJob(j)
  BY <1>1, <1>3, <1>5, <1>10 DEF FinishJob
<1>11. CASE QueryThrows(j)
  <2>1. \/ wait # <<>> /\ wait' = Tail(wait)
        \/ wait' = wait
    BY <1>11 DEF QueryThrows, TakeSlot
  <2>2. wait' \in Seq(JobId)
    BY <1>3, <2>1, HeadTailProperties
  <2>. QED
    BY <1>1, <1>3, <1>5, <1>11, <2>2 DEF QueryThrows
<1>12. CASE Promote(j)
  <2>1. kept
    BY <1>2, <1>12, SetJobState DEF Promote, JobState
  <2>2. wait' \in Seq(JobId)
    BY <1>3, <1>12 DEF Promote
  <2>. QED
    BY <1>1, <1>3, <1>12, <2>1, <2>2 DEF Promote
<1>. QED
  BY <1>6, <1>7, <1>8, <1>9, <1>10, <1>11, <1>12 DEF WorkerStep

\* The ghosts are updated at one pair.
LEMMA PairUpdate ==
    ASSUME NEW R, NEW g \in [Node -> [User -> R]], NEW n \in Node, NEW u \in User, NEW v \in R
    PROVE  /\ [g EXCEPT ![n][u] = v] \in [Node -> [User -> R]]
           /\ [g EXCEPT ![n][u] = v][n][u] = v
           /\ \A m \in Node, w \in User :
                 m # n \/ w # u => [g EXCEPT ![n][u] = v][m][w] = g[m][w]
<1>1. [g EXCEPT ![n][u] = v] = [g EXCEPT ![n] = [g[n] EXCEPT ![u] = v]]
  OBVIOUS
<1>. QED
  BY <1>1

\* A request applied by an agent.
LEMMA ApplyType ==
    ASSUME TypeOK, NEW x \in Stray, Apply(x)
    PROVE  /\ holds' \in [Node -> SUBSET User]
           /\ leak' \in [Node -> [User -> LeakReason]]
           /\ gap' \in [Node -> [User -> GapReason]]
           /\ UNCHANGED up
<1>1. x.node \in Node /\ x.user \in User
  BY DEF Stray
<1>2. /\ holds \in [Node -> SUBSET User]
      /\ leak \in [Node -> [User -> LeakReason]]
      /\ gap \in [Node -> [User -> GapReason]]
  BY DEF TypeOK
<1>3. {"none", "staleAdd", "restored"} \subseteq LeakReason /\ {"none", "staleRemove"} \subseteq GapReason
  BY DEF LeakReason, GapReason
<1>4. CASE x.op \in {"add", "restore"}
  <2>. DEFINE v == IF Active(x.user) THEN "none"
                   ELSE IF x.op = "restore" THEN "restored" ELSE "staleAdd"
  <2>1. /\ holds' = [holds EXCEPT ![x.node] = @ \cup {x.user}] /\ UNCHANGED up
        /\ leak' = [leak EXCEPT ![x.node][x.user] = v]
        /\ gap' = [gap EXCEPT ![x.node][x.user] = "none"]
    BY <1>4 DEF Apply
  <2>2. v \in LeakReason
    BY <1>3
  <2>. HIDE DEF v
  <2>. QED
    BY <1>1, <1>2, <1>3, <2>1, <2>2, PairUpdate
<1>5. CASE x.op \notin {"add", "restore"}
  <2>. DEFINE v == IF Active(x.user) THEN "staleRemove" ELSE "none"
  <2>1. /\ holds' = [holds EXCEPT ![x.node] = @ \ {x.user}] /\ UNCHANGED up
        /\ leak' = [leak EXCEPT ![x.node][x.user] = "none"]
        /\ gap' = [gap EXCEPT ![x.node][x.user] = v]
    BY <1>5 DEF Apply
  <2>2. v \in GapReason
    BY <1>3
  <2>. HIDE DEF v
  <2>. QED
    BY <1>1, <1>2, <1>3, <2>1, <2>2, PairUpdate
<1>. QED
  BY <1>4, <1>5

LEMMA StrayOfType ==
    ASSUME TypeOK, NEW c \in net
    PROVE  c \in Call /\ StrayOf(c) \in Stray
BY DEF TypeOK, Call, Stray, StrayOf, OpOf

LEMMA WireType ==
    ASSUME TypeOK, NEW c \in net, WireStep(c) PROVE TypeOK'
<1>. USE DEF dbVars, panelVars, queueVars, netVars, agentVars, ghostVars
<1>1. c \in Call /\ StrayOf(c) \in Stray
  BY StrayOfType
<1>2. net \ {c} \in SUBSET Call
  BY DEF TypeOK
<1>3. ASSUME CallFailed(c) PROVE failed' \in [JobId -> SUBSET (User \X Node)]
  BY <1>1, <1>3 DEF CallFailed, TypeOK, Call
<1>4. Addressed'
  <2>. UNCHANGED <<admin, events, job, push>>
    BY DEF WireStep, CallSucceeds, CallAppliedButFails, CallRefused, CallTimesOut
  <2>. QED
    BY DEF TypeOK, Addressed
<1>5. CASE CallSucceeds(c)
  <2>1. Apply(StrayOf(c))
    BY <1>5 DEF CallSucceeds
  <2>. QED
    BY <1>1, <1>2, <1>4, <1>5, <2>1, ApplyType DEF CallSucceeds, TypeOK
<1>6. CASE CallAppliedButFails(c)
  <2>1. Apply(StrayOf(c)) /\ CallFailed(c)
    BY <1>6 DEF CallAppliedButFails
  <2>. QED
    BY <1>1, <1>2, <1>3, <1>4, <1>6, <2>1, ApplyType DEF CallAppliedButFails, TypeOK
<1>7. CASE CallRefused(c)
  <2>1. CallFailed(c)
    BY <1>7 DEF CallRefused
  <2>. QED
    BY <1>2, <1>3, <1>4, <1>7, <2>1 DEF CallRefused, TypeOK
<1>8. CASE CallTimesOut(c)
  <2>1. CallFailed(c) /\ stray' = [stray EXCEPT ![StrayOf(c)] = @ + 1]
    BY <1>8 DEF CallTimesOut
  <2>2. stray' \in [Stray -> Nat]
    BY <1>1, <2>1 DEF TypeOK
  <2>. QED
    BY <1>2, <1>3, <1>4, <1>8, <2>1, <2>2 DEF CallTimesOut, TypeOK
<1>. QED
  BY <1>5, <1>6, <1>7, <1>8 DEF WireStep

LEMMA StrayType ==
    ASSUME TypeOK, NEW x \in Stray, StrayStep(x) PROVE TypeOK'
<1>. USE DEF dbVars, panelVars, queueVars, netVars, agentVars, ghostVars
<1>1. stray' \in [Stray -> Nat]
  <2>1. stray[x] \in Nat /\ stray[x] > 0 /\ stray' = [stray EXCEPT ![x] = @ - 1]
    BY DEF StrayStep, StrayApplied, StrayLost, TypeOK
  <2>2. stray[x] - 1 \in Nat
    BY <2>1
  <2>. QED
    BY <2>1, <2>2 DEF TypeOK
<1>2. Addressed'
  <2>. UNCHANGED <<admin, events, job, push>>
    BY DEF StrayStep, StrayApplied, StrayLost
  <2>. QED
    BY DEF TypeOK, Addressed
<1>3. CASE StrayApplied(x)
  <2>1. Apply(x)
    BY <1>3 DEF StrayApplied
  <2>. QED
    BY <1>1, <1>2, <1>3, <2>1, ApplyType DEF StrayApplied, TypeOK
<1>4. CASE StrayLost(x)
  BY <1>1, <1>2, <1>4 DEF StrayLost, TypeOK
<1>. QED
  BY <1>3, <1>4 DEF StrayStep

\* The calls of a push: an add, or the return of a deleted user.
LEMMA PushOfType ==
    ASSUME TypeOK, NEW i \in Push, NEW u \in User, u \in push[i].users
    PROVE  PushOf(i, u) \in Stray /\ PushOf(i, u).user = u /\ PushOf(i, u).node = push[i].node
BY DEF TypeOK, Addressed, PushOf, Stray

\* One user fewer to hand over, to the same node.
LEMMA HandOverType ==
    ASSUME TypeOK, NEW i \in Push, NEW u \in User, HandOver(i, u)
    PROVE  /\ push' \in [Push -> PushState]
           /\ \A k \in Push : push'[k].users # {} => push'[k].node \in Node
<1>. DEFINE rest == [push[i] EXCEPT !.users = @ \ {u}, !.gone = @ \ {u}]
<1>1. push[i] \in PushState /\ push[i].node \in Node
  BY DEF HandOver, TypeOK, Addressed
<1>2. rest \in PushState /\ rest.node \in Node
  BY <1>1 DEF PushState
<1>3. push' = [push EXCEPT ![i] = rest]
  BY <1>1 DEF HandOver, TypeOK, PushState
<1>. HIDE DEF rest
<1>. QED
  BY <1>2, <1>3 DEF TypeOK, Addressed

LEMMA PushType ==
    ASSUME TypeOK, NEW i \in Push, PushStep(i) PROVE TypeOK'
<1>. USE DEF dbVars, queueVars, netVars, agentVars, ghostVars
<1>1. UNCHANGED <<dbVars, admin, cron, events, queueVars, net>>
  BY DEF PushStep, ReadForPush, PushUser, PushFails, PushTimesOut
<1>2. ASSUME \A k \in Push : push'[k].users # {} => push'[k].node \in Node PROVE Addressed'
  BY <1>1, <1>2 DEF TypeOK, Addressed
<1>3. ASSUME NEW n \in Node, NEW lapsed \in SUBSET User, ReadForPush(i, n, lapsed) PROVE TypeOK'
  <2>. DEFINE users == fetchActiveUsers(lapsed)
              read == [node |-> n, users |-> users, gone |-> {u \in users : row[u].deleted}]
  <2>1. users \in SUBSET User
    BY DEF fetchActiveUsers
  <2>2. read \in PushState /\ read.node \in Node
    BY <2>1 DEF PushState
  <2>3. push' = [push EXCEPT ![i] = read] /\ UNCHANGED <<stray, agentVars, ghostVars>>
    BY <1>3 DEF ReadForPush
  <2>. HIDE DEF read
  <2>4. push' \in [Push -> PushState] /\ Addressed'
    BY <1>2, <2>2, <2>3 DEF TypeOK, Addressed
  <2>. QED
    BY <1>1, <2>3, <2>4 DEF TypeOK
<1>4. ASSUME NEW u \in User, HandOver(i, u)
      PROVE  push' \in [Push -> PushState] /\ Addressed'
  BY <1>2, <1>4, HandOverType
<1>5. ASSUME NEW u \in User, PushUser(i, u) PROVE TypeOK'
  <2>1. HandOver(i, u) /\ Apply(PushOf(i, u)) /\ UNCHANGED stray
    BY <1>5 DEF PushUser
  <2>2. PushOf(i, u) \in Stray
    BY <2>1, PushOfType DEF HandOver
  <2>. QED
    BY <1>1, <1>4, <2>1, <2>2, ApplyType DEF TypeOK
<1>6. ASSUME NEW u \in User, PushFails(i, u) PROVE TypeOK'
  BY <1>1, <1>4, <1>6 DEF PushFails, TypeOK
<1>7. ASSUME NEW u \in User, PushTimesOut(i, u) PROVE TypeOK'
  <2>1. /\ HandOver(i, u) /\ stray' = [stray EXCEPT ![PushOf(i, u)] = @ + 1]
        /\ UNCHANGED <<agentVars, ghostVars>>
    BY <1>7 DEF PushTimesOut
  <2>2. PushOf(i, u) \in Stray
    BY <2>1, PushOfType DEF HandOver
  <2>3. stray' \in [Stray -> Nat]
    BY <2>1, <2>2 DEF TypeOK
  <2>. QED
    BY <1>1, <1>4, <2>1, <2>3 DEF TypeOK
<1>. QED
  BY <1>3, <1>5, <1>6, <1>7 DEF PushStep

LEMMA AgentType ==
    ASSUME TypeOK, NEW n \in Node, AgentStep(n) PROVE TypeOK'
<1>. USE DEF dbVars, panelVars, queueVars, netVars, agentVars, ghostVars
<1>1. Addressed'
  <2>. UNCHANGED <<admin, events, job, push>>
    BY DEF AgentStep, AgentStart, AgentStop
  <2>. QED
    BY DEF TypeOK, Addressed
<1>2. CASE AgentStart(n)
  BY <1>1, <1>2 DEF AgentStart, TypeOK
<1>3. CASE AgentStop(n)
  BY <1>1, <1>3 DEF AgentStop, TypeOK, GapReason
<1>. QED
  BY <1>2, <1>3 DEF AgentStep

\* A crash leaves each job as it was, waiting again, or over.
LEMMA CrashJobs ==
    ASSUME TypeOK, PanelCrash
    PROVE  /\ job' \in [JobId -> Job]
           /\ \A j \in JobId :
                 \/ j \in Stalled /\ job'[j].state = "waiting" /\ SameWork(job[j], job'[j])
                 \/ j \in Dropped /\ job'[j] = Over("failed")
                 \/ ~Running(j) /\ job'[j] = job[j]
<1>. DEFINE after(j) == IF j \in Stalled THEN [job[j] EXCEPT !.state = "waiting", !.stalls = @ + 1]
                        ELSE IF j \in Dropped THEN Over("failed") ELSE job[j]
<1>1. job' = [j \in JobId |-> after(j)]
  BY DEF PanelCrash
<1>2. ASSUME NEW j \in JobId
      PROVE  /\ after(j) \in Job
             /\ \/ j \in Stalled /\ after(j).state = "waiting" /\ SameWork(job[j], after(j))
                \/ j \in Dropped /\ after(j) = Over("failed")
                \/ ~Running(j) /\ after(j) = job[j]
  <2>1. job[j] \in Job /\ Over("failed") \in Job
    BY OverFields DEF TypeOK, JobState
  <2>2. CASE j \in Stalled
    BY <2>1, <2>2, Stall
  <2>3. CASE j \notin Stalled /\ j \in Dropped
    BY <2>1, <2>3
  <2>4. CASE j \notin Stalled /\ j \notin Dropped
    <3>1. ~Running(j)
      BY <2>1, <2>4, BoundsAssumption DEF Stalled, Dropped, RunningJobs, Job
    <3>. QED
      BY <2>1, <2>4, <3>1
  <2>. QED
    BY <2>2, <2>3, <2>4
<1>. HIDE DEF after
<1>. QED
  BY <1>1, <1>2

LEMMA CrashType ==
    ASSUME TypeOK, PanelCrash PROVE TypeOK'
<1>1. Stalled \in SUBSET JobId
  BY DEF Stalled, RunningJobs
<1>2. wait' \in Seq(JobId)
  <2>1. PICK q \in Orders(Stalled) : wait' = q \o wait
    BY DEF PanelCrash
  <2>2. q \in Seq(Stalled)
    BY <1>1, FiniteSubsets, OrdersAreSequences
  <2>3. q \in Seq(JobId) /\ wait \in Seq(JobId)
    BY <1>1, <2>2, SeqMonotonic DEF TypeOK
  <2>. QED
    BY <2>1, <2>3
<1>3. stray' \in [Stray -> Nat]
  <2>. DEFINE extra(x) == Cardinality({j \in JobId : Awaits(j, x)})
  <2>1. PICK f \in OnTheWire :
           stray' = [x \in Stray |-> stray[x] + extra(x)
                       + Cardinality({i \in Push : f[i] # None /\ PushOf(i, f[i]) = x})]
    BY DEF PanelCrash
  <2>. DEFINE pushed(x) == Cardinality({i \in Push : f[i] # None /\ PushOf(i, f[i]) = x})
  <2>2. \A x \in Stray : extra(x) \in Nat /\ pushed(x) \in Nat
    BY FiniteSubsets, FS_CardinalityType
  <2>3. stray' = [x \in Stray |-> stray[x] + extra(x) + pushed(x)]
    BY <2>1
  <2>4. stray \in [Stray -> Nat]
    BY DEF TypeOK
  <2>. HIDE DEF extra, pushed
  <2>. QED
    BY <2>2, <2>3, <2>4
<1>4. leak' \in [Node -> [User -> LeakReason]] /\ gap' \in [Node -> [User -> GapReason]]
  <2>1. /\ leak' = [n \in Node |-> [u \in User |->
                       IF RemovalEmitted(u) THEN "lostEvent"
                       ELSE IF DropsFor(u, n, TRUE) THEN "gaveUp" ELSE leak[n][u]]]
        /\ gap'  = [n \in Node |-> [u \in User |->
                       IF AdditionEmitted(u, n) THEN "lostEvent"
                       ELSE IF DropsFor(u, n, FALSE) THEN "gaveUp" ELSE gap[n][u]]]
    BY DEF PanelCrash
  <2>. QED
    BY <2>1 DEF TypeOK, LeakReason, GapReason
<1>5. admin' \in [Request -> AdminOp] /\ events' \in Seq(Event)
  <2>1. admin' = [r \in Request |-> Idle] /\ events' = <<>>
    BY DEF PanelCrash
  <2>2. <<>> \in Seq(Event)
    OBVIOUS
  <2>. QED
    BY <2>1, <2>2, IdleType
<1>6. Addressed'
  <2>1. \A r \in Request : admin'[r].op = "idle"
    BY DEF PanelCrash, Idle
  <2>2. events' = <<>>
    BY DEF PanelCrash
  <2>3. ASSUME NEW j \in JobId
        PROVE  /\ job'[j].name \in UserJob => job'[j].arg \in User
               /\ job'[j].name = "backfillNode" => job'[j].arg \in Node
    <3>1. SameWork(job[j], job'[j]) \/ job'[j].name = "none"
      BY CrashJobs, OverFields DEF SameWork, JobState
    <3>. QED
      BY <3>1 DEF TypeOK, Addressed, UserJob, SameWork
  <2>4. \A i \in Push : push'[i].users = {}
    <3>1. push' = [i \in Push |-> [push[i] EXCEPT !.users = {}, !.gone = {}]]
      BY DEF PanelCrash
    <3>2. \A i \in Push : push[i] \in PushState
      BY DEF TypeOK
    <3>. QED
      BY <3>1, <3>2 DEF PushState
  <2>. QED
    BY <2>1, <2>2, <2>3, <2>4 DEF Addressed
<1>7. push' \in [Push -> PushState]
  <2>1. push \in [Push -> PushState]
    BY DEF TypeOK
  <2>2. \A i \in Push : [push[i] EXCEPT !.users = {}, !.gone = {}] \in PushState
    BY <2>1 DEF PushState
  <2>. QED
    BY <2>2 DEF PanelCrash
<1>8. /\ cron' \in [kind : LapseKind \cup {"idle"}, ids : SUBSET User]
      /\ failed' \in [JobId -> SUBSET (User \X Node)] /\ net' \in SUBSET Call
      /\ UNCHANGED <<row, nodeRow, nextJob, up, holds>>
  BY DEF PanelCrash, dbVars, agentVars
<1>. QED
  BY <1>2, <1>3, <1>4, <1>5, <1>6, <1>7, <1>8, CrashJobs DEF TypeOK

LEMMA NextType == TypeOK /\ [Next]_vars => TypeOK'
<1>. SUFFICES ASSUME TypeOK, [Next]_vars PROVE TypeOK'
  OBVIOUS
<1>1. CASE UNCHANGED vars
  BY <1>1 DEF vars, dbVars, panelVars, queueVars, netVars, agentVars, ghostVars, TypeOK, Addressed
<1>. QED
  BY <1>1, AdminType, CronType, HandlerType, ThrowType, WorkerType, WireType, StrayType, PushType,
     AgentType, CrashType DEF Next

(* Every variable keeps its shape, and queued work always names what its kind
   of work is about: a user for the user jobs, a node for the backfill. *)
THEOREM TypeCorrect == Spec => []TypeOK
<1>. QED
  BY InitType, NextType, PTL DEF Spec

-----------------------------------------------------------------------------
(* The inductive invariant behind LeakExplained and GapExplained *)

\* queue.add never overwrites a job somebody still waits for.
FreshSlots == \A j \in JobId : j >= nextJob => job[j].state = "none"

\* A node nobody has registered has no agent.
UnregisteredIsEmpty == \A n \in Node : nodeRow[n] = "absent" => ~up[n] /\ holds[n] = {}

\* The two invariants at one pair.
LeakAt(u, n) ==
    Live(n) /\ u \in holds[n] /\ ~Active(u) => RemovalPending(u, n) \/ leak[n][u] # "none"
GapAt(u, n) ==
    Live(n) /\ Active(u) /\ u \notin holds[n] => AdditionPending(u, n) \/ gap[n][u] # "none"
ExplainedAt(u, n) == LeakAt(u, n) /\ GapAt(u, n)
Explained == \A u \in User, n \in Node : ExplainedAt(u, n)

IInv == TypeOK /\ FreshSlots /\ UnregisteredIsEmpty /\ Explained

\* A job that asks for the removal (the addition) of u on n.
RemovesAt(j, u, n) == job[j].name = "removeUser" /\ job[j].arg = u
AddsAt(j, u, n) == \/ job[j].name = "addUser" /\ job[j].arg = u
                   \/ job[j].name = "backfillNode" /\ job[j].arg = n

LEMMA ExplainedIsBoth == Explained <=> LeakExplained /\ GapExplained
BY DEF Explained, ExplainedAt, LeakAt, GapAt, LeakExplained, GapExplained

LEMMA PendingJobs ==
    ASSUME NEW u \in User, NEW n \in Node
    PROVE  /\ RemovalPending(u, n) <=> \/ RemovalEmitted(u)
                                      \/ \E j \in JobId : RemovesAt(j, u, n) /\ JobWillServe(j, u, n)
           /\ AdditionPending(u, n) <=> \/ AdditionEmitted(u, n)
                                       \/ \E j \in JobId : AddsAt(j, u, n) /\ JobWillServe(j, u, n)
BY DEF RemovalPending, AdditionPending, RemovesAt, AddsAt

\* A job that is untouched and keeps its failures and calls still serves.
LEMMA JobKept ==
    ASSUME NEW j \in JobId, NEW u \in User, NEW n \in Node,
           job'[j] = job[j], failed[j] \subseteq failed'[j],
           \A c \in net : c.job = j /\ c.user = u /\ c.node = n
                            => c \in net' \/ <<u, n>> \in failed'[j]
    PROVE  JobWillServe(j, u, n) => JobWillServe(j, u, n)'
BY DEF JobWillServe, Unsettled, Outstanding

\* Appending events loses none.
LEMMA EventsKept ==
    ASSUME NEW u \in User, NEW n \in Node,
           \A i \in DOMAIN events : i \in DOMAIN events' /\ events'[i] = events[i]
    PROVE  /\ RemovalEmitted(u) => RemovalEmitted(u)'
           /\ \A i \in DOMAIN events :
                 \/ IsAddition(events[i]) /\ events[i].arg = u
                 \/ IsBackfill(events[i]) /\ events[i].arg = n
                 => AdditionEmitted(u, n)'
BY DEF RemovalEmitted, AdditionEmitted

\* Nothing a pair waits for is lost by a step that leaves the queue alone,
\* appends events and ends no createNode request of that node.
LEMMA PendingKept ==
    ASSUME NEW u \in User, NEW n \in Node,
           UNCHANGED <<job, failed, net>>,
           \A i \in DOMAIN events : i \in DOMAIN events' /\ events'[i] = events[i],
           \A r \in BeingCreated : admin[r].arg = n => admin'[r] = admin[r]
    PROVE  /\ RemovalPending(u, n) => RemovalPending(u, n)'
           /\ AdditionPending(u, n) => AdditionPending(u, n)'
<1>1. \A j \in JobId : JobWillServe(j, u, n) => JobWillServe(j, u, n)'
  BY JobKept
<1>2. AdditionEmitted(u, n) => AdditionEmitted(u, n)'
  BY EventsKept DEF AdditionEmitted, BeingCreated
<1>3. RemovalEmitted(u) => RemovalEmitted(u)'
  BY EventsKept
<1>. QED
  BY <1>1, <1>2, <1>3 DEF RemovalPending, AdditionPending

LEMMA InitIInv == Init => IInv
<1>. SUFFICES ASSUME Init PROVE IInv
  OBVIOUS
<1>1. FreshSlots /\ UnregisteredIsEmpty
  BY DEF Init, FreshSlots, UnregisteredIsEmpty, NoJob
<1>2. Explained
  BY DEF Init, Explained, ExplainedAt, LeakAt, GapAt, Live
<1>. QED
  BY <1>1, <1>2, InitType DEF IInv

LEMMA NextUnregistered ==
    ASSUME IInv, Next PROVE UnregisteredIsEmpty'
<1>. USE DEF dbVars, panelVars, queueVars, netVars, agentVars, ghostVars
<1>. DEFINE Same == UNCHANGED <<nodeRow, up, holds>>
<1>1. CASE Same
  BY <1>1 DEF IInv, UnregisteredIsEmpty
<1>2. CASE HandleEvent \/ HandlerThrows
  BY <1>1, <1>2 DEF HandleEvent, HandlerThrows
<1>3. CASE AdminStep
  <2>1. CASE \E r \in Request, n \in Node : InsertNode(r, n)
    BY <2>1 DEF InsertNode, IInv, UnregisteredIsEmpty, TypeOK
  <2>2. CASE \E n \in Node : DeleteNode(n)
    BY <2>2 DEF DeleteNode, IInv, UnregisteredIsEmpty, TypeOK
  <2>. QED
    BY <1>1, <1>3, <2>1, <2>2
       DEF AdminStep, CreateUser, ReadForUpdate, CheckDelete, WriteUpdate, SoftDelete,
           FinishCreateNode, AbandonCreateNode
<1>4. CASE CronStep
  BY <1>1, <1>4 DEF CronStep, CronFind, CronFlip
<1>5. CASE \E j \in JobId : WorkerStep(j)
  BY <1>1, <1>5 DEF WorkerStep, StartAddUser, StartRemoveUser, StartBackfill, Start,
                    FetchNodes, FetchUsers, FinishJob, QueryThrows, Promote
<1>6. ASSUME NEW x \in Stray, Apply(x), UNCHANGED nodeRow PROVE UnregisteredIsEmpty'
  BY <1>6 DEF Apply, Stray, IInv, UnregisteredIsEmpty, TypeOK
<1>7. CASE \E c \in net : WireStep(c)
  <2>. PICK c \in net : WireStep(c)
    BY <1>7
  <2>1. StrayOf(c) \in Stray
    BY StrayOfType DEF IInv
  <2>2. CASE Apply(StrayOf(c)) /\ UNCHANGED nodeRow
    BY <1>6, <2>1, <2>2
  <2>. QED
    BY <1>1, <2>2 DEF WireStep, CallSucceeds, CallAppliedButFails, CallRefused, CallTimesOut
<1>8. CASE \E x \in Stray : StrayStep(x)
  BY <1>1, <1>6, <1>8 DEF StrayStep, StrayApplied, StrayLost
<1>9. CASE \E i \in Push : PushStep(i)
  <2>. PICK i \in Push : PushStep(i)
    BY <1>9
  <2>1. UNCHANGED nodeRow
    BY DEF PushStep, ReadForPush, PushUser, PushFails, PushTimesOut
  <2>2. ASSUME NEW u \in User, PushUser(i, u) PROVE UnregisteredIsEmpty'
    <3>1. HandOver(i, u) /\ Apply(PushOf(i, u))
      BY <2>2 DEF PushUser
    <3>2. PushOf(i, u) \in Stray
      BY <3>1, PushOfType DEF IInv, HandOver
    <3>. QED
      BY <1>6, <2>1, <3>1, <3>2
  <2>. QED
    BY <1>1, <2>1, <2>2 DEF PushStep, ReadForPush, PushFails, PushTimesOut
<1>10. CASE \E n \in Node : AgentStep(n)
  BY <1>10 DEF AgentStep, AgentStart, AgentStop, IInv, UnregisteredIsEmpty, TypeOK
<1>11. CASE PanelCrash
  BY <1>1, <1>11 DEF PanelCrash
<1>. QED
  BY <1>2, <1>3, <1>4, <1>5, <1>7, <1>8, <1>9, <1>10, <1>11 DEF Next

LEMMA NextFreshSlots ==
    ASSUME IInv, Next PROVE FreshSlots'
<1>. USE DEF dbVars, panelVars, queueVars, netVars, agentVars, ghostVars
<1>. TypeOK /\ nextJob \in Nat
  BY DEF IInv, TypeOK
<1>1. CASE UNCHANGED <<job, nextJob>>
  BY <1>1 DEF IInv, FreshSlots
<1>2. CASE HandleEvent
  <2>1. CASE UNCHANGED <<job, nextJob>>
    BY <1>1, <2>1
  <2>2. CASE nextJob' = nextJob + 1
    <3>1. \A i \in JobId \ {nextJob} : job'[i] = job[i]
      BY <1>2, <2>2 DEF HandleEvent, TypeOK
    <3>. QED
      BY <2>2, <3>1 DEF IInv, FreshSlots, JobId
  <2>. QED
    BY <1>2, <2>1, <2>2 DEF HandleEvent
<1>3. ASSUME UNCHANGED nextJob,
             \A i \in JobId : job'[i] = job[i] \/ job[i].state # "none"
      PROVE  FreshSlots'
  BY <1>3 DEF IInv, FreshSlots
<1>4. CASE \E j \in JobId : WorkerStep(j)
  <2>. PICK j \in JobId : WorkerStep(j)
    BY <1>4
  <2>1. job[j].state # "none"
    BY DEF WorkerStep, StartAddUser, StartRemoveUser, StartBackfill, Start, TakeSlot,
           FetchNodes, FetchUsers, FinishJob, QueryThrows, Promote
  <2>2. \A i \in JobId \ {j} : job'[i] = job[i]
    BY DEF WorkerStep, StartAddUser, StartRemoveUser, StartBackfill, Start,
           FetchNodes, FetchUsers, FinishJob, QueryThrows, Promote, EndAttempt, TypeOK
  <2>3. UNCHANGED nextJob
    BY DEF WorkerStep, StartAddUser, StartRemoveUser, StartBackfill, Start,
           FetchNodes, FetchUsers, FinishJob, QueryThrows, Promote
  <2>. QED
    BY <1>3, <2>1, <2>2, <2>3
<1>5. CASE PanelCrash
  <2>1. \A i \in JobId : job'[i] = job[i] \/ job[i].state # "none"
    BY <1>5, CrashJobs DEF Stalled, Dropped, RunningJobs, Running
  <2>. QED
    BY <1>3, <1>5, <2>1 DEF PanelCrash
<1>. QED
  BY <1>1, <1>2, <1>4, <1>5
     DEF Next, HandlerThrows, AdminStep, CreateUser, ReadForUpdate, CheckDelete, WriteUpdate, SoftDelete,
         InsertNode, FinishCreateNode, AbandonCreateNode, DeleteNode, CronStep, CronFind, CronFlip,
         WireStep, CallSucceeds, CallAppliedButFails, CallRefused, CallTimesOut,
         StrayStep, StrayApplied, StrayLost, PushStep, ReadForPush, PushUser, PushFails, PushTimesOut,
         AgentStep, AgentStart, AgentStop

\* With the queue and the agents untouched, a pair stays explained unless the
\* row changes sides, and then an event or a ghost accounts for it.
LEMMA ExplainedKept ==
    ASSUME IInv, NEW u \in User, NEW n \in Node,
           UNCHANGED <<job, failed, net, holds>>,
           Live(n)' => Live(n),
           \A i \in DOMAIN events : i \in DOMAIN events' /\ events'[i] = events[i],
           Active(u)' => Active(u) \/ AdditionPending(u, n)' \/ gap'[n][u] # "none",
           Active(u) => Active(u)' \/ RemovalPending(u, n)' \/ leak'[n][u] # "none",
           leak'[n][u] = leak[n][u] \/ leak'[n][u] # "none",
           gap'[n][u] = gap[n][u] \/ gap'[n][u] # "none",
           \A r \in BeingCreated : admin[r].arg = n =>
              admin'[r] = admin[r] \/ AdditionPending(u, n)' \/ gap'[n][u] # "none"
    PROVE  ExplainedAt(u, n)'
<1>1. ExplainedAt(u, n)
  BY DEF IInv, Explained
<1>2. RemovalPending(u, n) => RemovalPending(u, n)'
  <2>1. RemovalEmitted(u) => RemovalEmitted(u)'
    BY EventsKept
  <2>2. \A j \in JobId : JobWillServe(j, u, n) => JobWillServe(j, u, n)'
    BY JobKept
  <2>. QED
    BY <2>1, <2>2 DEF RemovalPending
<1>3. AdditionPending(u, n) => AdditionPending(u, n)' \/ gap'[n][u] # "none"
  <2>1. CASE \A r \in BeingCreated : admin[r].arg = n => admin'[r] = admin[r]
    BY <2>1, PendingKept
  <2>. QED
    BY <2>1
<1>. QED
  BY <1>1, <1>2, <1>3 DEF ExplainedAt, LeakAt, GapAt

\* The event just emitted is pending, and so are the others.
LEMMA Emitted ==
    ASSUME TypeOK, NEW e, events' = Append(events, e), NEW u \in User, NEW n \in Node
    PROVE  /\ \A i \in DOMAIN events : i \in DOMAIN events' /\ events'[i] = events[i]
           /\ IsRemoval(e) /\ e.arg = u => RemovalPending(u, n)'
           /\ IsAddition(e) /\ e.arg = u => AdditionPending(u, n)'
           /\ IsBackfill(e) /\ e.arg = n => AdditionPending(u, n)'
<1>1. events \in Seq(Event)
  BY DEF TypeOK
<1>2. \A i \in DOMAIN events : i \in DOMAIN events' /\ events'[i] = events[i]
  BY <1>1
<1>3. Len(events) + 1 \in DOMAIN events' /\ events'[Len(events) + 1] = e
  BY <1>1
<1>. QED
  BY <1>2, <1>3 DEF RemovalPending, AdditionPending, RemovalEmitted, AdditionEmitted

\* The admin handlers.
LEMMA AdminExplained ==
    ASSUME IInv, AdminStep PROVE Explained'
<1>. USE DEF dbVars, panelVars, queueVars, netVars, agentVars, ghostVars
<1>. SUFFICES ASSUME NEW u \in User, NEW n \in Node PROVE ExplainedAt(u, n)'
  BY DEF Explained
<1>1. /\ row \in [User -> [status : Status \cup {"absent"}, deleted : BOOLEAN]]
      /\ admin \in [Request -> AdminOp] /\ events \in Seq(Event) /\ TypeOK
      /\ nodeRow \in [Node -> {"absent", "live", "deleted"}]
      /\ leak \in [Node -> [User -> LeakReason]] /\ gap \in [Node -> [User -> GapReason]]
  BY DEF IInv, TypeOK
<1>2. ASSUME NEW v \in User, CreateUser(v) PROVE ExplainedAt(u, n)'
  <2>. DEFINE e == Ev("user.created", v, "active", "active")
  <2>1. /\ events' = Append(events, e) /\ UNCHANGED <<nodeRow, admin, queueVars, netVars, agentVars, ghostVars>>
        /\ row' = [row EXCEPT ![v] = [status |-> "active", deleted |-> FALSE]]
    BY <1>2 DEF CreateUser
  <2>2. IsAddition(e) /\ e.arg = v
    BY DEF Ev, IsAddition
  <2>3. Active(u)' => Active(u) \/ AdditionPending(u, n)'
    BY <1>1, <2>1, <2>2, Emitted DEF Active
  <2>4. Active(u) => Active(u)'
    BY <1>1, <2>1 DEF Active
  <2>. QED
    BY <1>1, <2>1, <2>3, <2>4, ExplainedKept, Emitted DEF Live
<1>3. ASSUME NEW r \in Request, NEW v \in User, NEW to, ReadForUpdate(r, v, to) \/ CheckDelete(r, v)
      PROVE ExplainedAt(u, n)'
  <2>1. \A q \in BeingCreated : admin'[q] = admin[q]
    BY <1>1, <1>3 DEF ReadForUpdate, CheckDelete, BeingCreated, Idle
  <2>2. UNCHANGED <<row, nodeRow, events, queueVars, netVars, agentVars, ghostVars>>
    BY <1>3 DEF ReadForUpdate, CheckDelete
  <2>. QED
    BY <2>1, <2>2, ExplainedKept DEF Active, Live
<1>4. ASSUME NEW r \in Request, WriteUpdate(r) PROVE ExplainedAt(u, n)'
  <2>. DEFINE a == admin[r]
              e == Ev("user.status-changed", a.arg, a.seen, a.to)
  <2>1. /\ a.op = "update" /\ a.arg \in User /\ a.to \in Status
        /\ row' = [row EXCEPT ![a.arg].status = a.to]
        /\ events' = IF ChangesStatus(a) THEN Append(events, e) ELSE events
        /\ admin' = [admin EXCEPT ![r] = Idle]
        /\ UNCHANGED <<nodeRow, cron, queueVars, netVars, agentVars>>
    BY <1>1, <1>4 DEF WriteUpdate, TypeOK, Addressed, AdminOp
  <2>2. /\ leak' = IF SilentlyRevokes(a)
                    THEN [m \in Node |-> [leak[m] EXCEPT ![a.arg] = "silentWrite"]] ELSE leak
        /\ gap' = IF SilentlyGrants(a)
                   THEN [m \in Node |-> [gap[m] EXCEPT ![a.arg] = "silentWrite"]] ELSE gap
    BY <1>4 DEF WriteUpdate
  <2>3. \A q \in BeingCreated : admin'[q] = admin[q]
    BY <1>1, <2>1 DEF BeingCreated
  <2>4. /\ e.name = "user.status-changed" /\ e.arg = a.arg /\ e.from = a.seen /\ e.to = a.to
    BY DEF Ev
  <2>5. row[a.arg] \in [status : Status \cup {"absent"}, deleted : BOOLEAN]
    BY <1>1, <2>1
  <2>6. /\ row'[u] = IF u = a.arg THEN [row[u] EXCEPT !.status = a.to] ELSE row[u]
    BY <1>1, <2>1
  <2>7. /\ row'[u].deleted = row[u].deleted
        /\ row'[u].status = IF u = a.arg THEN a.to ELSE row[u].status
    BY <1>1, <2>6
  <2>8. /\ leak'[n][u] = leak[n][u] \/ leak'[n][u] # "none"
        /\ gap'[n][u] = gap[n][u] \/ gap'[n][u] # "none"
        /\ u = a.arg /\ SilentlyRevokes(a) => leak'[n][u] = "silentWrite"
        /\ u = a.arg /\ SilentlyGrants(a) => gap'[n][u] = "silentWrite"
    BY <1>1, <2>1, <2>2
  <2>9. \A i \in DOMAIN events : i \in DOMAIN events' /\ events'[i] = events[i]
    BY <1>1, <2>1, Emitted
  <2>10. Active(u) => Active(u)' \/ RemovalPending(u, n)' \/ leak'[n][u] # "none"
    <3>. SUFFICES ASSUME Active(u), ~Active(u)'
                  PROVE  RemovalPending(u, n)' \/ leak'[n][u] # "none"
      OBVIOUS
    <3>1. u = a.arg /\ a.to # "active"
      BY <2>7 DEF Active
    <3>2. CASE ChangesStatus(a)
      <4>1. IsRemoval(e)
        BY <2>1, <2>4, <3>1 DEF IsRemoval, Status
      <4>. QED
        BY <1>1, <2>1, <2>4, <3>1, <3>2, <4>1, Emitted
    <3>3. CASE ~ChangesStatus(a)
      BY <2>8, <3>1, <3>3 DEF SilentlyRevokes
    <3>. QED
      BY <3>2, <3>3
  <2>11. Active(u)' => Active(u) \/ AdditionPending(u, n)' \/ gap'[n][u] # "none"
    <3>. SUFFICES ASSUME Active(u)', ~Active(u)
                  PROVE  AdditionPending(u, n)' \/ gap'[n][u] # "none"
      OBVIOUS
    <3>1. u = a.arg /\ a.to = "active"
      BY <2>7 DEF Active
    <3>2. CASE ChangesStatus(a)
      <4>1. IsAddition(e)
        BY <2>1, <2>4, <3>1, <3>2 DEF IsAddition, ChangesStatus
      <4>. QED
        BY <1>1, <2>1, <2>4, <3>1, <3>2, <4>1, Emitted
    <3>3. CASE ~ChangesStatus(a)
      BY <2>8, <3>1, <3>3 DEF SilentlyGrants
    <3>. QED
      BY <3>2, <3>3
  <2>. HIDE DEF a, e
  <2>. QED
    BY <2>1, <2>3, <2>8, <2>9, <2>10, <2>11, ExplainedKept DEF Live
<1>5. ASSUME NEW r \in Request, SoftDelete(r) PROVE ExplainedAt(u, n)'
  <2>. DEFINE v == admin[r].arg
              e == Ev("user.deleted", v, "active", "active")
  <2>1. /\ admin[r].op = "delete" /\ v \in User
        /\ row' = [row EXCEPT ![v].deleted = TRUE]
        /\ events' = Append(events, e)
        /\ admin' = [admin EXCEPT ![r] = Idle]
        /\ UNCHANGED <<nodeRow, cron, queueVars, netVars, agentVars, ghostVars>>
    BY <1>1, <1>5 DEF SoftDelete, TypeOK, Addressed
  <2>2. IsRemoval(e) /\ e.arg = v
    BY DEF Ev, IsRemoval
  <2>3. \A q \in BeingCreated : admin'[q] = admin[q]
    BY <1>1, <2>1 DEF BeingCreated
  <2>4. row'[u] = IF u = v THEN [row[u] EXCEPT !.deleted = TRUE] ELSE row[u]
    BY <1>1, <2>1
  <2>5. /\ Active(u)' => Active(u)
        /\ Active(u) => Active(u)' \/ u = v
    BY <1>1, <2>4 DEF Active
  <2>6. Active(u) => Active(u)' \/ RemovalPending(u, n)'
    BY <1>1, <2>1, <2>2, <2>5, Emitted
  <2>7. \A i \in DOMAIN events : i \in DOMAIN events' /\ events'[i] = events[i]
    BY <1>1, <2>1, Emitted
  <2>. HIDE DEF v, e
  <2>. QED
    BY <2>1, <2>3, <2>5, <2>6, <2>7, ExplainedKept DEF Live
<1>6. ASSUME NEW r \in Request, NEW m \in Node, InsertNode(r, m) PROVE ExplainedAt(u, n)'
  <2>1. /\ admin[r] = Idle /\ nodeRow[m] = "absent"
        /\ nodeRow' = [nodeRow EXCEPT ![m] = "live"]
        /\ admin' = [admin EXCEPT ![r] = [Idle EXCEPT !.op = "createNode", !.arg = m]]
        /\ UNCHANGED <<row, events, queueVars, netVars, agentVars, ghostVars>>
    BY <1>6 DEF InsertNode
  <2>2. CASE n = m
    <3>1. holds'[n] = {}
      BY <2>1, <2>2 DEF IInv, UnregisteredIsEmpty
    <3>2. admin'[r].op = "createNode" /\ admin'[r].arg = n
      BY <1>1, <2>1, <2>2 DEF Idle
    <3>3. AdditionPending(u, n)'
      BY <3>2 DEF AdditionPending, AdditionEmitted, BeingCreated
    <3>. QED
      BY <3>1, <3>3 DEF ExplainedAt, LeakAt, GapAt
  <2>3. CASE n # m
    <3>1. Live(n)' => Live(n)
      BY <1>1, <2>1, <2>3 DEF Live
    <3>2. \A q \in BeingCreated : admin'[q] = admin[q]
      BY <1>1, <2>1 DEF BeingCreated, Idle
    <3>. QED
      BY <2>1, <3>1, <3>2, ExplainedKept DEF Active
  <2>. QED
    BY <2>2, <2>3
<1>7. ASSUME NEW r \in Request, FinishCreateNode(r) PROVE ExplainedAt(u, n)'
  <2>. DEFINE e == Ev("node.created", admin[r].arg, "active", "active")
  <2>1. /\ events' = Append(events, e)
        /\ admin' = [admin EXCEPT ![r] = Idle]
        /\ UNCHANGED <<dbVars, queueVars, netVars, agentVars, ghostVars>>
    BY <1>7 DEF FinishCreateNode
  <2>2. IsBackfill(e) /\ e.arg = admin[r].arg
    BY DEF Ev, IsBackfill
  <2>3. \A q \in BeingCreated : admin[q].arg = n => admin'[q] = admin[q] \/ AdditionPending(u, n)'
    BY <1>1, <2>1, <2>2, Emitted DEF BeingCreated
  <2>. QED
    BY <1>1, <2>1, <2>3, ExplainedKept, Emitted DEF Live, Active
<1>8. ASSUME NEW r \in Request, AbandonCreateNode(r) PROVE ExplainedAt(u, n)'
  <2>1. /\ admin' = [admin EXCEPT ![r] = Idle]
        /\ gap' = [gap EXCEPT ![admin[r].arg] = [w \in User |-> "lostEvent"]]
        /\ UNCHANGED <<dbVars, events, queueVars, netVars, agentVars, leak>>
    BY <1>8 DEF AbandonCreateNode
  <2>2. /\ gap'[n][u] = gap[n][u] \/ gap'[n][u] # "none"
        /\ admin[r].arg = n => gap'[n][u] # "none"
    BY <1>1, <2>1
  <2>3. \A q \in BeingCreated : admin[q].arg = n => admin'[q] = admin[q] \/ gap'[n][u] # "none"
    BY <1>1, <2>1, <2>2 DEF BeingCreated
  <2>. QED
    BY <2>1, <2>2, <2>3, ExplainedKept DEF Live, Active
<1>9. ASSUME NEW m \in Node, DeleteNode(m) PROVE ExplainedAt(u, n)'
  <2>1. (Live(n)' => Live(n)) /\ UNCHANGED <<row, panelVars, queueVars, netVars, agentVars, ghostVars>>
    BY <1>1, <1>9 DEF DeleteNode, Live
  <2>. QED
    BY <2>1, ExplainedKept DEF Active
<1>. QED
  BY <1>2, <1>3, <1>4, <1>5, <1>6, <1>7, <1>8, <1>9 DEF AdminStep

\* The cron task.
LEMMA CronExplained ==
    ASSUME IInv, CronStep PROVE Explained'
<1>. USE DEF dbVars, panelVars, queueVars, netVars, agentVars, ghostVars
<1>. SUFFICES ASSUME NEW u \in User, NEW n \in Node PROVE ExplainedAt(u, n)'
  BY DEF Explained
<1>1. ASSUME NEW k, NEW S, CronFind(k, S) PROVE ExplainedAt(u, n)'
  <2>1. UNCHANGED <<dbVars, admin, events, push, queueVars, netVars, agentVars, ghostVars>>
    BY <1>1 DEF CronFind
  <2>. QED
    BY <2>1, ExplainedKept DEF Active, Live
<1>2. CASE CronFlip
  <2>. DEFINE ids == cron.ids
              N == Cardinality(ids)
  <2>1. /\ ids \in SUBSET User /\ cron.kind \in {"expired", "limited"}
        /\ row \in [User -> [status : Status \cup {"absent"}, deleted : BOOLEAN]]
        /\ events \in Seq(Event)
    BY <1>2, EnvironmentAssumption DEF CronFlip, IInv, TypeOK
  <2>2. PICK q \in Orders(ids) :
           events' = events \o [i \in 1 .. N |-> FlipEvent(cron.kind, q[i])]
    BY <1>2 DEF CronFlip
  <2>. DEFINE flips == [i \in 1 .. N |-> FlipEvent(cron.kind, q[i])]
  <2>3. /\ N \in Nat /\ q \in [1 .. N -> User]
        /\ \A x \in ids : \E i \in 1 .. N : q[i] = x
    BY <2>1, <2>2, FiniteSubsets, OrdersAreSequences DEF Orders
  <2>4. /\ DOMAIN flips = 1 .. N /\ flips \in Seq({FlipEvent(cron.kind, v) : v \in User})
        /\ Len(flips) = N
    <3>1. flips \in [1 .. N -> {FlipEvent(cron.kind, v) : v \in User}]
      BY <2>3
    <3>. HIDE DEF flips, N
    <3>. QED
      BY <2>3, <3>1, FunctionIsSequence
  <2>5. /\ \A i \in DOMAIN events : i \in DOMAIN events' /\ events'[i] = events[i]
        /\ \A i \in 1 .. N : Len(events) + i \in DOMAIN events'
                             /\ events'[Len(events) + i] = flips[i]
    <3>1. events' = events \o flips
      BY <2>2
    <3>. HIDE DEF flips, N
    <3>. QED
      BY <2>1, <2>3, <2>4, <3>1
  <2>6. ASSUME u \in ids PROVE RemovalPending(u, n)'
    <3>1. PICK i \in 1 .. N : q[i] = u
      BY <2>3, <2>6
    <3>2. events'[Len(events) + i] = FlipEvent(cron.kind, u)
      BY <2>5, <3>1
    <3>3. IsRemoval(FlipEvent(cron.kind, u)) /\ FlipEvent(cron.kind, u).arg = u
      BY <2>1 DEF FlipEvent, Ev, IsRemoval
    <3>4. RemovalEmitted(u)'
      BY <2>5, <3>1, <3>2, <3>3 DEF RemovalEmitted
    <3>. QED
      BY <3>4 DEF RemovalPending
  <2>7. row'[u] = IF u \in ids THEN [row[u] EXCEPT !.status = cron.kind] ELSE row[u]
    BY <1>2 DEF CronFlip
  <2>8. (Active(u)' => Active(u)) /\ (Active(u) => Active(u)' \/ u \in ids)
    BY <2>1, <2>7 DEF Active
  <2>9. UNCHANGED <<nodeRow, admin, push, queueVars, netVars, agentVars, ghostVars>>
    BY <1>2 DEF CronFlip
  <2>. HIDE DEF ids, N, flips
  <2>. QED
    BY <2>5, <2>6, <2>8, <2>9, ExplainedKept DEF Live
<1>. QED
  BY <1>1, <1>2 DEF CronStep

\* The handler turns the oldest event into a job: what was pending stays so.
LEMMA HandlerExplained ==
    ASSUME IInv, HandleEvent PROVE Explained'
<1>. USE DEF dbVars, netVars, agentVars, ghostVars
<1>. SUFFICES ASSUME NEW u \in User, NEW n \in Node PROVE ExplainedAt(u, n)'
  BY DEF Explained
<1>. DEFINE e == Head(events)
            new == [NoJob EXCEPT !.name = JobNameOf(e), !.arg = e.arg, !.state = "waiting"]
<1>1. /\ events \in Seq(Event) /\ events # <<>> /\ events' = Tail(events) /\ TypeOK
      /\ nextJob \in JobId /\ ExplainedAt(u, n)
      /\ UNCHANGED <<dbVars, admin, cron, failed, netVars, agentVars, ghostVars>>
  BY DEF HandleEvent, IInv, TypeOK, Explained
<1>2. ASSUME NEW i \in DOMAIN events
      PROVE  \/ events[i] = e
             \/ i - 1 \in DOMAIN events' /\ events'[i - 1] = events[i]
  BY <1>1
<1>3. \A j \in JobId : JobWillServe(j, u, n) => j # nextJob
  BY <1>1 DEF IInv, FreshSlots, JobWillServe, JobId
<1>4. ASSUME NEW j \in JobId, JobWillServe(j, u, n)
      PROVE  job'[j] = job[j] /\ JobWillServe(j, u, n)'
  <2>1. job'[j] = job[j]
    BY <1>1, <1>3, <1>4 DEF HandleEvent, TypeOK
  <2>. QED
    BY <1>1, <1>4, <2>1, JobKept
<1>5. PICK k \in JobId : k = nextJob
  BY <1>1
<1>6. ASSUME IsRemoval(e) \/ IsAddition(e) \/ IsBackfill(e)
      PROVE  JobWillServe(k, u, n)' /\ job'[k].name = JobNameOf(e) /\ job'[k].arg = e.arg
  <2>1. job' = [job EXCEPT ![k] = new]
    BY <1>5, <1>6 DEF HandleEvent
  <2>2. new.state = "waiting" /\ new.name = JobNameOf(e) /\ new.arg = e.arg
    BY DEF NoJob
  <2>3. job'[k] = new
    BY <1>1, <2>1 DEF TypeOK
  <2>. HIDE DEF e, new
  <2>. QED
    BY <2>2, <2>3 DEF JobWillServe
<1>. HIDE DEF e, new
\* Three ways to be pending after the step.
<1>7. /\ RemovalEmitted(u)' => RemovalPending(u, n)'
      /\ AdditionEmitted(u, n)' => AdditionPending(u, n)'
      /\ \A j \in JobId : JobWillServe(j, u, n)' /\ RemovesAt(j, u, n)' => RemovalPending(u, n)'
      /\ \A j \in JobId : JobWillServe(j, u, n)' /\ AddsAt(j, u, n)' => AdditionPending(u, n)'
  BY DEF RemovalPending, AdditionPending, RemovesAt, AddsAt
<1>8. RemovalPending(u, n) => RemovalPending(u, n)'
  <2>1. CASE \E j \in JobId : RemovesAt(j, u, n) /\ JobWillServe(j, u, n)
    <3>. PICK j \in JobId : RemovesAt(j, u, n) /\ JobWillServe(j, u, n)
      BY <2>1
    <3>1. RemovesAt(j, u, n)' /\ JobWillServe(j, u, n)'
      BY <1>4 DEF RemovesAt
    <3>. QED
      BY <1>7, <3>1
  <2>2. CASE RemovalEmitted(u)
    <3>1. PICK i \in DOMAIN events : IsRemoval(events[i]) /\ events[i].arg = u
      BY <2>2 DEF RemovalEmitted
    <3>2. CASE events[i] = e
      <4>1. JobNameOf(e) = "removeUser"
        BY <3>1, <3>2 DEF JobNameOf, IsAddition, IsRemoval, IsBackfill
      <4>. QED
        BY <1>6, <1>7, <3>1, <3>2, <4>1 DEF RemovesAt
    <3>3. CASE i - 1 \in DOMAIN events' /\ events'[i - 1] = events[i]
      BY <3>1, <3>3 DEF RemovalPending, RemovalEmitted
    <3>. QED
      BY <1>2, <3>2, <3>3
  <2>. QED
    BY <2>1, <2>2, PendingJobs
<1>9. AdditionPending(u, n) => AdditionPending(u, n)'
  <2>1. CASE \E j \in JobId : AddsAt(j, u, n) /\ JobWillServe(j, u, n)
    <3>. PICK j \in JobId : AddsAt(j, u, n) /\ JobWillServe(j, u, n)
      BY <2>1
    <3>1. AddsAt(j, u, n)' /\ JobWillServe(j, u, n)'
      BY <1>4 DEF AddsAt
    <3>. QED
      BY <1>7, <3>1
  <2>2. ASSUME NEW r \in BeingCreated, admin[r].arg = n PROVE AdditionPending(u, n)'
    BY <1>1, <2>2 DEF AdditionPending, AdditionEmitted, BeingCreated
  <2>3. ASSUME NEW i \in DOMAIN events,
               \/ IsAddition(events[i]) /\ events[i].arg = u
               \/ IsBackfill(events[i]) /\ events[i].arg = n
        PROVE  AdditionPending(u, n)'
    <3>1. CASE events[i] = e
      <4>1. /\ IsAddition(e) => JobNameOf(e) = "addUser"
            /\ IsBackfill(e) => JobNameOf(e) = "backfillNode"
        BY DEF JobNameOf, IsAddition, IsRemoval, IsBackfill
      <4>. QED
        BY <1>6, <1>7, <2>3, <3>1, <4>1 DEF AddsAt
    <3>2. CASE i - 1 \in DOMAIN events' /\ events'[i - 1] = events[i]
      BY <2>3, <3>2 DEF AdditionPending, AdditionEmitted
    <3>. QED
      BY <1>2, <3>1, <3>2
  <2>4. CASE AdditionEmitted(u, n)
    BY <2>2, <2>3, <2>4 DEF AdditionEmitted
  <2>. QED
    BY <2>1, <2>4, PendingJobs
<1>. QED
  BY <1>1, <1>8, <1>9 DEF ExplainedAt, LeakAt, GapAt, Live, Active

\* An event that never becomes a job is blamed on every pair it was for.
LEMMA ThrowExplained ==
    ASSUME IInv, HandlerThrows PROVE Explained'
<1>. USE DEF dbVars, queueVars, netVars, agentVars
<1>. SUFFICES ASSUME NEW u \in User, NEW n \in Node PROVE ExplainedAt(u, n)'
  BY DEF Explained
<1>. DEFINE e == Head(events)
<1>0. TypeOK /\ ExplainedAt(u, n)
  BY DEF IInv, Explained
<1>1. /\ UNCHANGED <<dbVars, admin, cron, queueVars, netVars, agentVars>>
      /\ IsRemoval(e) /\ e.arg = u => leak'[n][u] = "lostEvent"
      /\ ~(IsRemoval(e) /\ e.arg = u) => leak'[n][u] = leak[n][u]
      /\ IsAddition(e) /\ e.arg = u => gap'[n][u] = "lostEvent"
      /\ IsBackfill(e) /\ e.arg = n => gap'[n][u] = "lostEvent"
      /\ gap'[n][u] # "none" \/ gap'[n][u] = gap[n][u]
  <2>1. /\ leak' = [m \in Node |-> [w \in User |->
                      IF IsRemoval(e) /\ e.arg = w THEN "lostEvent" ELSE leak[m][w]]]
        /\ gap' = [m \in Node |-> [w \in User |->
                      IF \/ IsAddition(e) /\ e.arg = w
                         \/ IsBackfill(e) /\ e.arg = m THEN "lostEvent" ELSE gap[m][w]]]
    BY DEF HandlerThrows
  <2>2. UNCHANGED <<dbVars, admin, cron, queueVars, netVars, agentVars>>
    BY DEF HandlerThrows
  <2>. QED
    BY <2>1, <2>2
<1>2. events # <<>> /\ events' = Tail(events)
  BY DEF HandlerThrows
<1>. HIDE DEF e
<1>3. /\ RemovalEmitted(u) => RemovalEmitted(u)' \/ leak'[n][u] # "none"
      /\ AdditionEmitted(u, n) => AdditionEmitted(u, n)' \/ gap'[n][u] # "none"
  <2>1. ASSUME NEW i \in DOMAIN events, IsRemoval(events[i]) /\ events[i].arg = u
        PROVE  RemovalEmitted(u)' \/ leak'[n][u] # "none"
    <3>1. CASE events[i] = e
      BY <1>1, <2>1, <3>1
    <3>2. CASE i - 1 \in DOMAIN events' /\ events'[i - 1] = events[i]
      BY <2>1, <3>2 DEF RemovalEmitted
    <3>. QED
      BY <1>0, <1>2, <3>1, <3>2, EventMovesUp DEF e
  <2>2. ASSUME NEW i \in DOMAIN events,
               \/ IsAddition(events[i]) /\ events[i].arg = u
               \/ IsBackfill(events[i]) /\ events[i].arg = n
        PROVE  AdditionEmitted(u, n)' \/ gap'[n][u] # "none"
    <3>1. CASE events[i] = e
      BY <1>1, <2>2, <3>1
    <3>2. CASE i - 1 \in DOMAIN events' /\ events'[i - 1] = events[i]
      BY <2>2, <3>2 DEF AdditionEmitted
    <3>. QED
      BY <1>0, <1>2, <3>1, <3>2, EventMovesUp DEF e
  <2>3. ASSUME NEW r \in BeingCreated, admin[r].arg = n PROVE AdditionEmitted(u, n)'
    BY <1>1, <2>3 DEF AdditionEmitted, BeingCreated
  <2>. QED
    BY <2>1, <2>2, <2>3 DEF RemovalEmitted, AdditionEmitted
<1>4. \A j \in JobId : JobWillServe(j, u, n) => JobWillServe(j, u, n)'
  BY <1>1, JobKept
<1>5. /\ RemovalPending(u, n) => RemovalPending(u, n)' \/ leak'[n][u] # "none"
      /\ AdditionPending(u, n) => AdditionPending(u, n)' \/ gap'[n][u] # "none"
  BY <1>1, <1>3, <1>4 DEF RemovalPending, AdditionPending
<1>. QED
  BY <1>0, <1>1, <1>5 DEF ExplainedAt, LeakAt, GapAt, Live, Active

\* A worker step moves one job. If the job served the pair, it still does, or
\* it gives the pair up and the ghost says so, or the pair needs nothing.
LEMMA WorkerExplained ==
    ASSUME IInv, NEW j \in JobId, WorkerStep(j) PROVE Explained'
<1>. USE DEF dbVars, panelVars, queueVars, netVars, agentVars, ghostVars
<1>. SUFFICES ASSUME NEW u \in User, NEW n \in Node PROVE ExplainedAt(u, n)'
  BY DEF Explained
<1>1. TypeOK /\ ExplainedAt(u, n) /\ job[j] \in Job
  BY DEF IInv, Explained, TypeOK
\* It is enough to look at job j and the ghosts.
<1>2. ASSUME UNCHANGED <<dbVars, panelVars, agentVars>>,
             \A i \in JobId \ {j} : job'[i] = job[i] /\ failed'[i] = failed[i],
             net \subseteq net',
             leak'[n][u] = leak[n][u] \/ leak'[n][u] # "none",
             gap'[n][u] = gap[n][u] \/ gap'[n][u] # "none",
             Live(n) /\ RemovesAt(j, u, n) /\ JobWillServe(j, u, n) =>
                \/ RemovesAt(j, u, n)' /\ JobWillServe(j, u, n)'
                \/ leak'[n][u] # "none",
             Live(n) /\ Active(u) /\ AddsAt(j, u, n) /\ JobWillServe(j, u, n) =>
                \/ AddsAt(j, u, n)' /\ JobWillServe(j, u, n)'
                \/ gap'[n][u] # "none"
      PROVE  ExplainedAt(u, n)'
  <2>3. /\ RemovalEmitted(u) => RemovalEmitted(u)'
        /\ AdditionEmitted(u, n) => AdditionEmitted(u, n)'
        /\ (Live(n)' <=> Live(n)) /\ (Active(u)' <=> Active(u)) /\ holds' = holds
    BY <1>2 DEF RemovalEmitted, AdditionEmitted, BeingCreated, Live, Active
  <2>4. Live(n) /\ RemovalPending(u, n) => RemovalPending(u, n)' \/ leak'[n][u] # "none"
    <3>1. \A i \in JobId : RemovesAt(i, u, n)' /\ JobWillServe(i, u, n)' => RemovalPending(u, n)'
      BY DEF RemovalPending, RemovesAt
    <3>2. RemovalEmitted(u)' => RemovalPending(u, n)'
      BY DEF RemovalPending
    <3>3. ASSUME NEW i \in JobId \ {j}, RemovesAt(i, u, n), JobWillServe(i, u, n)
          PROVE  RemovalPending(u, n)'
      <4>1. job'[i] = job[i] /\ JobWillServe(i, u, n)'
        BY <1>2, <3>3, JobKept
      <4>2. RemovesAt(i, u, n)'
        BY <3>3, <4>1 DEF RemovesAt
      <4>. QED
        BY <3>1, <4>1, <4>2
    <3>4. RemovesAt(j, u, n)' /\ JobWillServe(j, u, n)' => RemovalPending(u, n)'
      BY DEF RemovalPending, RemovesAt
    <3>5. RemovalPending(u, n) =>
             \/ RemovalEmitted(u)
             \/ \E i \in JobId \ {j} : RemovesAt(i, u, n) /\ JobWillServe(i, u, n)
             \/ RemovesAt(j, u, n) /\ JobWillServe(j, u, n)
      BY DEF RemovalPending, RemovesAt
    <3>. QED
      BY <1>2, <2>3, <3>2, <3>3, <3>4, <3>5
  <2>5. Live(n) /\ Active(u) /\ AdditionPending(u, n) => AdditionPending(u, n)' \/ gap'[n][u] # "none"
    <3>1. \A i \in JobId : AddsAt(i, u, n)' /\ JobWillServe(i, u, n)' => AdditionPending(u, n)'
      BY DEF AdditionPending, AddsAt
    <3>2. AdditionEmitted(u, n)' => AdditionPending(u, n)'
      BY DEF AdditionPending
    <3>3. ASSUME NEW i \in JobId \ {j}, AddsAt(i, u, n), JobWillServe(i, u, n)
          PROVE  AdditionPending(u, n)'
      <4>1. job'[i] = job[i] /\ JobWillServe(i, u, n)'
        BY <1>2, <3>3, JobKept
      <4>2. AddsAt(i, u, n)'
        BY <3>3, <4>1 DEF AddsAt
      <4>. QED
        BY <3>1, <4>1, <4>2
    <3>4. AddsAt(j, u, n)' /\ JobWillServe(j, u, n)' => AdditionPending(u, n)'
      BY DEF AdditionPending, AddsAt
    <3>5. AdditionPending(u, n) =>
             \/ AdditionEmitted(u, n)
             \/ \E i \in JobId \ {j} : AddsAt(i, u, n) /\ JobWillServe(i, u, n)
             \/ AddsAt(j, u, n) /\ JobWillServe(j, u, n)
      BY DEF AdditionPending, AddsAt
    <3>. QED
      BY <1>2, <2>3, <3>2, <3>3, <3>4, <3>5
  <2>. QED
    BY <1>1, <1>2, <2>3, <2>4, <2>5 DEF ExplainedAt, LeakAt, GapAt
\* Job j goes on to a state in which it serves whatever it did.
<1>3. ASSUME SameWork(job[j], job'[j]), job'[j].state \in {"waiting", "gotRow", "delayed"}
      PROVE  /\ RemovesAt(j, u, n) => RemovesAt(j, u, n)' /\ JobWillServe(j, u, n)'
             /\ AddsAt(j, u, n) => AddsAt(j, u, n)' /\ JobWillServe(j, u, n)'
  BY <1>3 DEF SameWork, RemovesAt, AddsAt, JobWillServe
\* Job j has issued its calls.
<1>4. ASSUME SameWork(job[j], job'[j]), job'[j].state = "calling",
             NEW users, NEW nodes, net' = net \cup CallsTo(j, users, nodes),
             u \in users, n \in nodes
      PROVE  /\ RemovesAt(j, u, n) => RemovesAt(j, u, n)' /\ JobWillServe(j, u, n)'
             /\ AddsAt(j, u, n) => AddsAt(j, u, n)' /\ JobWillServe(j, u, n)'
  <2>1. /\ [job |-> j, user |-> u, node |-> n] \in net'
        /\ [job |-> j, user |-> u, node |-> n].job = j
        /\ [job |-> j, user |-> u, node |-> n].user = u
        /\ [job |-> j, user |-> u, node |-> n].node = n
    BY <1>4 DEF CallsTo
  <2>2. Unsettled(j, u, n)'
    BY <2>1 DEF Unsettled, Outstanding
  <2>. QED
    BY <1>4, <2>2 DEF SameWork, RemovesAt, AddsAt, JobWillServe
<1>5. CASE StartAddUser(j)
  <2>1. /\ Start(j, "addUser", Exists(job[j].arg)) /\ UNCHANGED net
    BY <1>5 DEF StartAddUser
  <2>2. /\ \A i \in JobId \ {j} : job'[i] = job[i]
        /\ job[j].name = "addUser"
        /\ Exists(job[j].arg) => job'[j].state = "gotRow" /\ SameWork(job[j], job'[j])
        /\ UNCHANGED <<dbVars, panelVars, nextJob, failed, stray, agentVars, ghostVars>>
    BY <1>1, <2>1, StartEffect DEF FirstState, JobName
  <2>3. Active(u) /\ AddsAt(j, u, n) => Exists(job[j].arg)
    BY <2>2 DEF AddsAt, Active, Exists
  <2>. QED
    BY <1>2, <1>3, <2>1, <2>2, <2>3 DEF RemovesAt
<1>6. CASE StartRemoveUser(j)
  <2>1. /\ Start(j, "removeUser", TRUE)
        /\ net' = net \cup CallsTo(j, {job[j].arg}, fetchActiveNodes)
    BY <1>6 DEF StartRemoveUser
  <2>2. /\ \A i \in JobId \ {j} : job'[i] = job[i]
        /\ job[j].name = "removeUser"
        /\ job'[j].state = "calling" /\ SameWork(job[j], job'[j])
        /\ UNCHANGED <<dbVars, panelVars, nextJob, failed, stray, agentVars, ghostVars>>
    BY <1>1, <2>1, StartEffect DEF FirstState, JobName
  <2>3. /\ Live(n) /\ RemovesAt(j, u, n) => u \in {job[j].arg} /\ n \in fetchActiveNodes
        /\ ~AddsAt(j, u, n)
    BY <2>2 DEF RemovesAt, AddsAt, fetchActiveNodes
  <2>4. Live(n) /\ RemovesAt(j, u, n) => RemovesAt(j, u, n)' /\ JobWillServe(j, u, n)'
    BY <1>4, <2>1, <2>2, <2>3
  <2>. QED
    BY <1>2, <2>1, <2>2, <2>3, <2>4
<1>7. CASE StartBackfill(j)
  <2>1. /\ Start(j, "backfillNode", Live(job[j].arg)) /\ UNCHANGED net
    BY <1>7 DEF StartBackfill
  <2>2. /\ \A i \in JobId \ {j} : job'[i] = job[i]
        /\ job[j].name = "backfillNode"
        /\ Live(job[j].arg) => job'[j].state = "gotRow" /\ SameWork(job[j], job'[j])
        /\ UNCHANGED <<dbVars, panelVars, nextJob, failed, stray, agentVars, ghostVars>>
    BY <1>1, <2>1, StartEffect DEF FirstState, JobName
  <2>3. Live(n) /\ AddsAt(j, u, n) => Live(job[j].arg)
    BY <2>2 DEF AddsAt
  <2>. QED
    BY <1>2, <1>3, <2>1, <2>2, <2>3 DEF RemovesAt
<1>8. CASE FetchNodes(j)
  <2>1. /\ \A i \in JobId \ {j} : job'[i] = job[i]
        /\ job[j].name = "addUser"
        /\ job'[j].state = "calling" /\ SameWork(job[j], job'[j])
        /\ net' = net \cup CallsTo(j, {job[j].arg}, fetchActiveNodes)
        /\ UNCHANGED <<dbVars, panelVars, nextJob, wait, failed, stray, agentVars, ghostVars>>
    BY <1>1, <1>8, SetJobState DEF FetchNodes, JobState
  <2>2. Live(n) /\ AddsAt(j, u, n) => u \in {job[j].arg} /\ n \in fetchActiveNodes
    BY <2>1 DEF AddsAt, fetchActiveNodes
  <2>3. Live(n) /\ AddsAt(j, u, n) => AddsAt(j, u, n)' /\ JobWillServe(j, u, n)'
    BY <1>4, <2>1, <2>2
  <2>. QED
    BY <1>2, <2>1, <2>3 DEF RemovesAt
<1>9. CASE FetchUsers(j)
  <2>1. /\ \A i \in JobId \ {j} : job'[i] = job[i]
        /\ job[j].name = "backfillNode"
        /\ job'[j].state = "calling" /\ SameWork(job[j], job'[j])
        /\ net' = net \cup CallsTo(j, backfillUsers, {job[j].arg})
        /\ UNCHANGED <<dbVars, panelVars, nextJob, wait, failed, stray, agentVars, ghostVars>>
    BY <1>1, <1>9, SetJobState DEF FetchUsers, JobState
  <2>2. Active(u) /\ AddsAt(j, u, n) => u \in backfillUsers /\ n \in {job[j].arg}
    BY <2>1 DEF AddsAt, backfillUsers
  <2>3. Active(u) /\ AddsAt(j, u, n) => AddsAt(j, u, n)' /\ JobWillServe(j, u, n)'
    BY <1>4, <2>1, <2>2
  <2>. QED
    BY <1>2, <2>1, <2>3 DEF RemovesAt
\* The attempt ends; `missed` covers the pair if the job still served it.
<1>10. ASSUME NEW missed, EndAttempt(j, missed),
              (RemovesAt(j, u, n) \/ AddsAt(j, u, n)) /\ JobWillServe(j, u, n)
                 => <<u, n>> \in missed,
              \A i \in JobId \ {j} : failed'[i] = failed[i],
              UNCHANGED <<dbVars, panelVars, agentVars, net>>
       PROVE  ExplainedAt(u, n)'
  <2>1. \A i \in JobId \ {j} : job'[i] = job[i]
    BY <1>1, <1>10, EndAttemptEffect
  <2>2. CASE missed = {} /\ UNCHANGED ghostVars
    BY <1>2, <1>10, <2>1, <2>2
  <2>3. CASE job'[j].state = "delayed" /\ SameWork(job[j], job'[j]) /\ UNCHANGED ghostVars
    BY <1>2, <1>3, <1>10, <2>1, <2>3
  <2>4. CASE /\ leak'[n][u] = IF job[j].name = "removeUser" /\ <<u, n>> \in missed
                              THEN "gaveUp" ELSE leak[n][u]
             /\ gap'[n][u] = IF job[j].name # "removeUser" /\ <<u, n>> \in missed
                             THEN "gaveUp" ELSE gap[n][u]
    <3>1. RemovesAt(j, u, n) => job[j].name = "removeUser"
      BY DEF RemovesAt
    <3>2. AddsAt(j, u, n) => job[j].name # "removeUser"
      BY DEF AddsAt
    <3>. QED
      BY <1>2, <1>10, <2>1, <2>4, <3>1, <3>2
  <2>. QED
    BY <1>1, <1>10, <2>2, <2>3, <2>4, EndAttemptEffect
<1>11. CASE FinishJob(j)
  <2>1. JobWillServe(j, u, n) => <<u, n>> \in failed[j]
    BY <1>11 DEF FinishJob, JobWillServe, Unsettled
  <2>2. \A i \in JobId \ {j} : failed'[i] = failed[i]
    BY <1>1, <1>11 DEF FinishJob, TypeOK
  <2>. QED
    BY <1>10, <1>11, <2>1, <2>2 DEF FinishJob
<1>12. CASE QueryThrows(j)
  <2>. DEFINE missed == {p \in User \X Node : MayMiss(j, p[1], p[2])}
  <2>1. RemovesAt(j, u, n) \/ AddsAt(j, u, n) => <<u, n>> \in missed
    BY DEF RemovesAt, AddsAt, MayMiss
  <2>2. /\ EndAttempt(j, missed)
        /\ UNCHANGED <<dbVars, panelVars, nextJob, failed, netVars, agentVars>>
    BY <1>12 DEF QueryThrows
  <2>. HIDE DEF missed
  <2>. QED
    BY <1>10, <2>1, <2>2
<1>13. CASE Promote(j)
  <2>1. /\ \A i \in JobId \ {j} : job'[i] = job[i]
        /\ job'[j].state = "waiting" /\ SameWork(job[j], job'[j])
        /\ UNCHANGED <<dbVars, panelVars, nextJob, failed, netVars, agentVars, ghostVars>>
    BY <1>1, <1>13, SetJobState DEF Promote, JobState
  <2>. QED
    BY <1>2, <1>3, <2>1
<1>. QED
  BY <1>5, <1>6, <1>7, <1>8, <1>9, <1>11, <1>12, <1>13 DEF WorkerStep

\* What one applied request does to a pair.
LEMMA ApplyEffect ==
    ASSUME TypeOK, NEW x \in Stray, Apply(x), NEW u \in User, NEW n \in Node, UNCHANGED row
    PROVE  /\ u = x.user /\ n = x.node =>
                 /\ u \in holds'[n] /\ ~Active(u)' => leak'[n][u] # "none"
                 /\ u \notin holds'[n] /\ Active(u)' => gap'[n][u] # "none"
           /\ u # x.user \/ n # x.node =>
                 /\ u \in holds'[n] <=> u \in holds[n]
                 /\ leak'[n][u] = leak[n][u] /\ gap'[n][u] = gap[n][u]
<1>1. /\ x.node \in Node /\ x.user \in User
      /\ holds \in [Node -> SUBSET User]
      /\ leak \in [Node -> [User -> LeakReason]] /\ gap \in [Node -> [User -> GapReason]]
      /\ {"none", "staleAdd", "restored"} \subseteq LeakReason /\ {"none", "staleRemove"} \subseteq GapReason
  BY DEF Stray, TypeOK, LeakReason, GapReason
<1>2. Active(u)' <=> Active(u)
  BY DEF Active
<1>3. CASE x.op \in {"add", "restore"}
  <2>. DEFINE v == IF Active(x.user) THEN "none"
                   ELSE IF x.op = "restore" THEN "restored" ELSE "staleAdd"
  <2>1. /\ holds' = [holds EXCEPT ![x.node] = @ \cup {x.user}]
        /\ leak' = [leak EXCEPT ![x.node][x.user] = v]
        /\ gap' = [gap EXCEPT ![x.node][x.user] = "none"]
    BY <1>3 DEF Apply
  <2>2. v \in LeakReason /\ (u = x.user /\ ~Active(u) => v # "none")
    BY <1>1
  <2>. HIDE DEF v
  <2>3. /\ leak'[x.node][x.user] = v
        /\ u # x.user \/ n # x.node => leak'[n][u] = leak[n][u] /\ gap'[n][u] = gap[n][u]
    BY <1>1, <2>1, <2>2, PairUpdate
  <2>4. /\ u = x.user /\ n = x.node => u \in holds'[n]
        /\ u # x.user \/ n # x.node => (u \in holds'[n] <=> u \in holds[n])
    BY <1>1, <2>1
  <2>. QED
    BY <1>2, <2>2, <2>3, <2>4
<1>4. CASE x.op \notin {"add", "restore"}
  <2>. DEFINE v == IF Active(x.user) THEN "staleRemove" ELSE "none"
  <2>1. /\ holds' = [holds EXCEPT ![x.node] = @ \ {x.user}]
        /\ leak' = [leak EXCEPT ![x.node][x.user] = "none"]
        /\ gap' = [gap EXCEPT ![x.node][x.user] = v]
    BY <1>4 DEF Apply
  <2>2. v \in GapReason /\ (u = x.user /\ Active(u) => v # "none")
    BY <1>1
  <2>. HIDE DEF v
  <2>3. /\ gap'[x.node][x.user] = v
        /\ u # x.user \/ n # x.node => leak'[n][u] = leak[n][u] /\ gap'[n][u] = gap[n][u]
    BY <1>1, <2>1, <2>2, PairUpdate
  <2>4. /\ u = x.user /\ n = x.node => u \notin holds'[n]
        /\ u # x.user \/ n # x.node => (u \in holds'[n] <=> u \in holds[n])
    BY <1>1, <2>1
  <2>. QED
    BY <1>2, <2>2, <2>3, <2>4
<1>. QED
  BY <1>3, <1>4

\* An answered call settles its pair, one way or the other; all others wait on.
LEMMA WireExplained ==
    ASSUME IInv, NEW c \in net, WireStep(c) PROVE Explained'
<1>. USE DEF dbVars, panelVars, queueVars, netVars, agentVars, ghostVars
<1>. SUFFICES ASSUME NEW u \in User, NEW n \in Node PROVE ExplainedAt(u, n)'
  BY DEF Explained
<1>1. /\ TypeOK /\ ExplainedAt(u, n) /\ c \in Call /\ StrayOf(c) \in Stray
      /\ StrayOf(c).user = c.user /\ StrayOf(c).node = c.node
      /\ failed \in [JobId -> SUBSET (User \X Node)]
  BY StrayOfType DEF IInv, Explained, TypeOK, StrayOf
<1>2. /\ net' = net \ {c}
      /\ UNCHANGED <<dbVars, panelVars, job, nextJob, wait>>
      /\ CallFailed(c) \/ UNCHANGED failed
  BY DEF WireStep, CallSucceeds, CallAppliedButFails, CallRefused, CallTimesOut
<1>3. /\ \A j \in JobId : failed[j] \subseteq failed'[j]
      /\ CallFailed(c) => <<c.user, c.node>> \in failed'[c.job]
  BY <1>1, <1>2 DEF CallFailed, Call
<1>4. ASSUME CallFailed(c) \/ u # c.user \/ n # c.node
      PROVE  /\ RemovalPending(u, n) => RemovalPending(u, n)'
             /\ AdditionPending(u, n) => AdditionPending(u, n)'
  <2>1. ASSUME NEW j \in JobId, NEW d \in net, d.job = j /\ d.user = u /\ d.node = n
        PROVE  d \in net' \/ <<u, n>> \in failed'[j]
    BY <1>2, <1>3, <1>4, <2>1
  <2>2. \A j \in JobId : JobWillServe(j, u, n) => JobWillServe(j, u, n)'
    BY <1>2, <1>3, <2>1, JobKept
  <2>. QED
    BY <1>2, <2>2 DEF RemovalPending, AdditionPending, RemovalEmitted, AdditionEmitted, BeingCreated
<1>5. (Live(n)' <=> Live(n)) /\ (Active(u)' <=> Active(u))
  BY <1>2 DEF Live, Active
<1>6. CASE Apply(StrayOf(c))
  <2>1. CASE u = c.user /\ n = c.node
    BY <1>1, <1>2, <1>6, <2>1, ApplyEffect DEF ExplainedAt, LeakAt, GapAt
  <2>2. CASE u # c.user \/ n # c.node
    <3>1. /\ u \in holds'[n] <=> u \in holds[n]
          /\ leak'[n][u] = leak[n][u] /\ gap'[n][u] = gap[n][u]
      BY <1>1, <1>2, <1>6, <2>2, ApplyEffect
    <3>. QED
      BY <1>1, <1>4, <1>5, <2>2, <3>1 DEF ExplainedAt, LeakAt, GapAt
  <2>. QED
    BY <2>1, <2>2
<1>7. CASE CallFailed(c) /\ UNCHANGED <<agentVars, ghostVars>>
  BY <1>1, <1>4, <1>5, <1>7 DEF ExplainedAt, LeakAt, GapAt
<1>. QED
  BY <1>6, <1>7 DEF WireStep, CallSucceeds, CallAppliedButFails, CallRefused, CallTimesOut

LEMMA StrayExplained ==
    ASSUME IInv, NEW x \in Stray, StrayStep(x) PROVE Explained'
<1>. USE DEF dbVars, panelVars, queueVars, netVars, agentVars, ghostVars
<1>. SUFFICES ASSUME NEW u \in User, NEW n \in Node PROVE ExplainedAt(u, n)'
  BY DEF Explained
<1>1. TypeOK /\ ExplainedAt(u, n)
  BY DEF IInv, Explained
<1>2. UNCHANGED <<dbVars, panelVars, queueVars, net>>
  BY DEF StrayStep, StrayApplied, StrayLost
<1>3. /\ RemovalPending(u, n) => RemovalPending(u, n)'
      /\ AdditionPending(u, n) => AdditionPending(u, n)'
      /\ (Live(n)' <=> Live(n)) /\ (Active(u)' <=> Active(u))
  BY <1>2, PendingKept DEF Live, Active
<1>4. CASE Apply(x)
  <2>1. CASE u = x.user /\ n = x.node
    BY <1>1, <1>2, <1>4, <2>1, ApplyEffect DEF ExplainedAt, LeakAt, GapAt
  <2>2. CASE u # x.user \/ n # x.node
    BY <1>1, <1>2, <1>3, <1>4, <2>2, ApplyEffect DEF ExplainedAt, LeakAt, GapAt
  <2>. QED
    BY <2>1, <2>2
<1>5. CASE UNCHANGED <<agentVars, ghostVars>>
  BY <1>1, <1>3, <1>5 DEF ExplainedAt, LeakAt, GapAt
<1>. QED
  BY <1>4, <1>5 DEF StrayStep, StrayApplied, StrayLost

\* A push hands one user to one agent; the jobs and their work go on.
LEMMA PushExplained ==
    ASSUME IInv, NEW i \in Push, PushStep(i) PROVE Explained'
<1>. USE DEF dbVars, queueVars, netVars, agentVars, ghostVars
<1>. SUFFICES ASSUME NEW u \in User, NEW n \in Node PROVE ExplainedAt(u, n)'
  BY DEF Explained
<1>1. TypeOK /\ ExplainedAt(u, n)
  BY DEF IInv, Explained
<1>2. UNCHANGED <<dbVars, admin, cron, events, queueVars, net>>
  BY DEF PushStep, ReadForPush, PushUser, PushFails, PushTimesOut
<1>3. /\ RemovalPending(u, n) => RemovalPending(u, n)'
      /\ AdditionPending(u, n) => AdditionPending(u, n)'
      /\ (Live(n)' <=> Live(n)) /\ (Active(u)' <=> Active(u))
  BY <1>2, PendingKept DEF Live, Active
<1>4. ASSUME NEW w \in User, PushUser(i, w) PROVE ExplainedAt(u, n)'
  <2>. DEFINE x == PushOf(i, w)
  <2>1. HandOver(i, w) /\ Apply(x)
    BY <1>4 DEF PushUser
  <2>2. x \in Stray
    BY <1>1, <2>1, PushOfType DEF HandOver
  <2>. HIDE DEF x
  <2>3. CASE u = x.user /\ n = x.node
    BY <1>1, <1>2, <2>1, <2>2, <2>3, ApplyEffect DEF ExplainedAt, LeakAt, GapAt
  <2>4. CASE u # x.user \/ n # x.node
    BY <1>1, <1>2, <1>3, <2>1, <2>2, <2>4, ApplyEffect DEF ExplainedAt, LeakAt, GapAt
  <2>. QED
    BY <2>3, <2>4
<1>5. CASE UNCHANGED <<agentVars, ghostVars>>
  BY <1>1, <1>3, <1>5 DEF ExplainedAt, LeakAt, GapAt
<1>. QED
  BY <1>4, <1>5 DEF PushStep, ReadForPush, PushFails, PushTimesOut

LEMMA AgentExplained ==
    ASSUME IInv, NEW m \in Node, AgentStep(m) PROVE Explained'
<1>. USE DEF dbVars, panelVars, queueVars, netVars, agentVars, ghostVars
<1>. SUFFICES ASSUME NEW u \in User, NEW n \in Node PROVE ExplainedAt(u, n)'
  BY DEF Explained
<1>1. TypeOK /\ ExplainedAt(u, n)
  BY DEF IInv, Explained
<1>2. UNCHANGED <<dbVars, panelVars, queueVars, netVars, leak>>
  BY DEF AgentStep, AgentStart, AgentStop
<1>3. /\ RemovalPending(u, n) => RemovalPending(u, n)'
      /\ AdditionPending(u, n) => AdditionPending(u, n)'
      /\ (Live(n)' <=> Live(n)) /\ (Active(u)' <=> Active(u))
  BY <1>2, PendingKept DEF Live, Active
<1>4. CASE AgentStart(m)
  BY <1>1, <1>3, <1>4 DEF AgentStart, ExplainedAt, LeakAt, GapAt
<1>5. CASE AgentStop(m)
  <2>1. /\ holds'[n] = IF n = m THEN {} ELSE holds[n]
        /\ gap'[n][u] = IF n = m THEN "agentStopped" ELSE gap[n][u]
        /\ UNCHANGED leak
    BY <1>1, <1>5 DEF AgentStop, TypeOK
  <2>. QED
    BY <1>1, <1>3, <2>1 DEF ExplainedAt, LeakAt, GapAt
<1>. QED
  BY <1>4, <1>5 DEF AgentStep

\* A crash either leaves a job that served the pair waiting again, or blames
\* the job it dropped; what was only in memory is blamed on the lost event.
LEMMA CrashExplained ==
    ASSUME IInv, PanelCrash PROVE Explained'
<1>. SUFFICES ASSUME NEW u \in User, NEW n \in Node PROVE ExplainedAt(u, n)'
  BY DEF Explained
<1>1. TypeOK /\ ExplainedAt(u, n) /\ UNCHANGED <<row, nodeRow, holds>>
  BY DEF IInv, Explained, PanelCrash, dbVars, agentVars
<1>2. (Live(n)' <=> Live(n)) /\ (Active(u)' <=> Active(u))
  BY <1>1 DEF Live, Active
<1>3. /\ leak'[n][u] = IF RemovalEmitted(u) THEN "lostEvent"
                       ELSE IF DropsFor(u, n, TRUE) THEN "gaveUp" ELSE leak[n][u]
      /\ gap'[n][u] = IF AdditionEmitted(u, n) THEN "lostEvent"
                      ELSE IF DropsFor(u, n, FALSE) THEN "gaveUp" ELSE gap[n][u]
  BY DEF PanelCrash
\* The fate of one job.
<1>4. ASSUME NEW j \in JobId, JobWillServe(j, u, n)
      PROVE  \/ j \in Dropped
             \/ JobWillServe(j, u, n)' /\ SameWork(job[j], job'[j])
  <2>1. CASE j \in Stalled /\ job'[j].state = "waiting" /\ SameWork(job[j], job'[j])
    BY <2>1 DEF JobWillServe
  <2>2. CASE ~Running(j) /\ job'[j] = job[j]
    BY <1>4, <2>2 DEF JobWillServe, Running, SameWork
  <2>. QED
    BY <1>1, <2>1, <2>2, CrashJobs
<1>5. RemovalPending(u, n) => RemovalPending(u, n)' \/ leak'[n][u] # "none"
  <2>1. CASE RemovalEmitted(u)
    BY <1>3, <2>1
  <2>2. ASSUME NEW j \in JobId, RemovesAt(j, u, n), JobWillServe(j, u, n)
        PROVE  RemovalPending(u, n)' \/ leak'[n][u] # "none"
    <3>1. CASE j \in Dropped
      <4>1. DropsFor(u, n, TRUE)
        BY <2>2, <3>1 DEF DropsFor, MayMiss, RemovesAt
      <4>. QED
        BY <1>3, <4>1
    <3>2. CASE JobWillServe(j, u, n)' /\ SameWork(job[j], job'[j])
      BY <2>2, <3>2 DEF RemovalPending, RemovesAt, SameWork
    <3>. QED
      BY <1>4, <2>2, <3>1, <3>2
  <2>. QED
    BY <2>1, <2>2, PendingJobs
<1>6. AdditionPending(u, n) => AdditionPending(u, n)' \/ gap'[n][u] # "none"
  <2>1. CASE AdditionEmitted(u, n)
    BY <1>3, <2>1
  <2>2. ASSUME NEW j \in JobId, AddsAt(j, u, n), JobWillServe(j, u, n)
        PROVE  AdditionPending(u, n)' \/ gap'[n][u] # "none"
    <3>1. CASE j \in Dropped
      <4>1. DropsFor(u, n, FALSE)
        BY <2>2, <3>1 DEF DropsFor, MayMiss, AddsAt
      <4>. QED
        BY <1>3, <4>1
    <3>2. CASE JobWillServe(j, u, n)' /\ SameWork(job[j], job'[j])
      BY <2>2, <3>2 DEF AdditionPending, AddsAt, SameWork
    <3>. QED
      BY <1>4, <2>2, <3>1, <3>2
  <2>. QED
    BY <2>1, <2>2, PendingJobs
<1>. QED
  BY <1>1, <1>2, <1>3, <1>5, <1>6 DEF ExplainedAt, LeakAt, GapAt

LEMMA NextIInv == IInv /\ [Next]_vars => IInv'
<1>. SUFFICES ASSUME IInv, [Next]_vars PROVE IInv'
  OBVIOUS
<1>1. CASE UNCHANGED vars
  <2>1. UNCHANGED <<row, admin, cron, nodeRow, events, job, nextJob, wait, failed, push, net, stray,
                    up, holds, leak, gap>>
    BY <1>1 DEF vars, dbVars, panelVars, queueVars, netVars, agentVars, ghostVars
  <2>2. TypeOK' /\ FreshSlots' /\ UnregisteredIsEmpty'
    BY <1>1, <2>1, NextType DEF IInv, FreshSlots, UnregisteredIsEmpty
  <2>3. ASSUME NEW u \in User, NEW n \in Node PROVE ExplainedAt(u, n)'
    <3>1. /\ RemovalPending(u, n) => RemovalPending(u, n)'
          /\ AdditionPending(u, n) => AdditionPending(u, n)'
      BY <2>1, PendingKept
    <3>. QED
      BY <2>1, <3>1 DEF IInv, Explained, ExplainedAt, LeakAt, GapAt, Live, Active
  <2>. QED
    BY <2>2, <2>3 DEF IInv, Explained
<1>2. CASE Next
  <2>1. TypeOK' /\ FreshSlots' /\ UnregisteredIsEmpty'
    BY <1>2, NextType, NextFreshSlots, NextUnregistered DEF IInv
  <2>2. Explained'
    BY <1>2, HandlerExplained, ThrowExplained, AdminExplained, CronExplained, WorkerExplained, WireExplained,
       StrayExplained, PushExplained, AgentExplained, CrashExplained DEF Next
  <2>. QED
    BY <2>1, <2>2 DEF IInv
<1>. QED
  BY <1>1, <1>2

(* users.events.ts: whoever still holds a non-active user on a registered node
   is about to be told, or the last thing that happened to that pair is an add
   that was under way before the revocation, a push of inbounds that read the
   user after his deletion, a job out of attempts, or an event that was lost or
   never emitted. The pushes (inbounds.queue.ts) are steps of the
   specification, with their own idea of who is active. *)
THEOREM LeakIsExplained == Spec => []LeakExplained
<1>1. IInv => LeakExplained
  BY ExplainedIsBoth DEF IInv
<1>. QED
  BY <1>1, InitIInv, NextIInv, PTL DEF Spec

(* users.queue.ts: no registered node misses an active user unless an addition
   is on its way, or a removal of before his return, a job out of attempts, a
   lost or silent event or a stop of the agent is the last thing that happened
   to that pair. *)
THEOREM GapIsExplained == Spec => []GapExplained
<1>1. IInv => GapExplained
  BY ExplainedIsBoth DEF IInv
<1>. QED
  BY <1>1, InitIInv, NextIInv, PTL DEF Spec

=============================================================================

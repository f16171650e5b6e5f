---------------------------- MODULE MCInboundSync ----------------------------
(* Model-checking instance of InboundSync. Three initial states: the empty    *)
(* panel; one at rest where everything was pushed; and one whose agents have  *)
(* just restarted, the panel not knowing yet. A bound on how often something  *)
(* fails: work nothing fails, and an agent that is simply not there, is free. *)
EXTENDS InboundSync

CONSTANT MaxMishaps \* BOUND: failures, and users whose date passes

VARIABLE mishaps

\* A user's date passes; it is moved, or the review finds him.
Lapsing == {<<"active", "lapsed">>, <<"lapsed", "active">>, <<"lapsed", "inactive">>}

\* The poll does not reach an agent that runs.
Unanswered == \E n \in Node : up[n] /\ poll'[n] = "unreachable"

Goes ==
    \/ \E n \in Node, p \in Profile :
          \/ InsertBinding(n, p) \/ EmitBindingCreated(n, p) \/ DeleteBinding(n, p)
          \/ \E enabled \in BOOLEAN : UpdateBinding(n, p, enabled)
    \/ \E p \in Profile, N \in SUBSET Node : UpdateProfile(p, N) \/ DeleteProfile(p, N)
    \/ \E p \in Profile : ReadAffected(p) \/ FanOut(p)
    \/ \E n \in Node : CreateNode(n) \/ DropBindings(n) \/ DeleteNode(n) \/ AgentStart(n)
    \/ \E u \in User : Extend(u) \/ \E s \in UserState : SetUser(u, s)
    \/ \E n \in Node : Enqueue(n) \/ PollWrite(n) \/ Heartbeat(n) \/ AddRestartJob(n)
    \/ Poll /\ ~Unanswered
    \/ \E j \in JobId :
          \/ Take(j) \/ FetchInbounds(j) \/ ApplySucceeds(j) \/ FetchUsers(j)
          \/ NobodyToPush(j) \/ Promote(j)
          \/ (ApplyRefused(j) /\ ~up[j[1]])
          \/ \E u \in User : PushUser(j, u) \/ (PushFails(j, u) /\ ~up[j[1]])
    \/ \E x \in stray : StrayApplied(x) \/ StrayLost(x)

GoesWrong ==
    \/ \E u \in User : Lapse(u)
    \/ \E n \in Node, p \in Profile : DefaultHostThrows(n, p)
    \/ \E n \in Node : AddRejected(n) \/ RestartAddRejected(n) \/ AgentStop(n)
    \/ \E p \in Profile : FanOutThrows(p)
    \/ Poll /\ Unanswered
    \/ \E j \in JobId :
          \/ ApplyTimesOut(j) \/ QueryThrows(j)
          \/ (ApplyRefused(j) /\ up[j[1]])
          \/ \E P \in SUBSET Profile : ApplyPartlyFails(j, P)
          \/ \E u \in User : PushFails(j, u) /\ up[j[1]]
    \/ PanelCrash

MCNext ==
    \/ Goes /\ UNCHANGED mishaps
    \/ GoesWrong /\ mishaps < MaxMishaps /\ mishaps' = mishaps + 1

\* Every profile is bound everywhere and was pushed.
Settled ==
    /\ nodeRow = [n \in Node |-> "live"]
    /\ status = [n \in Node |-> "online"]
    /\ bindings = Node \X Profile
    /\ want = [n \in Node |-> [p \in Profile |-> 1]]
    /\ file = want
    /\ known = [n \in Node |-> 1]
    /\ up = [n \in Node |-> TRUE]

\* One more configuration can be written.
Served ==
    /\ Settled
    /\ version = MaxVersion - 1
    /\ start = known
    /\ runs = want
    /\ holds = [n \in Node |-> User]

\* Every agent has come back as a new process that the panel has not heard of.
Restarted ==
    /\ Settled
    /\ version = MaxVersion
    /\ start = [n \in Node |-> 2]
    /\ runs = [n \in Node |-> NoInbounds]
    /\ holds = [n \in Node |-> {}]

Untouched ==
    /\ nodeRow = [n \in Node |-> "absent"]
    /\ status = [n \in Node |-> "unknown"]
    /\ bindings = {}
    /\ want = [n \in Node |-> NoInbounds]
    /\ file = want
    /\ known = [n \in Node |-> 0]
    /\ up = [n \in Node |-> FALSE]
    /\ version = MaxVersion - 1
    /\ start = known
    /\ runs = want
    /\ holds = [n \in Node |-> {}]

AtRest ==
    /\ row = [u \in User |-> "active"]
    /\ admin = {}
    /\ todo = [x \in Node \cup Profile |-> 0]
    /\ poll = [n \in Node |-> "idle"]
    /\ beat = [n \in Node |-> 0]
    /\ job = [j \in JobId |-> NoJob]
    /\ wait = <<>>
    /\ stray = {}
    /\ why = [n \in Node |-> "none"]
    /\ mishaps = 0

MCInit == (Untouched \/ Served \/ Restarted) /\ AtRest

MCSpec == MCInit /\ [][MCNext]_<<vars, mishaps>> /\ Fairness
==============================================================================

------------------------------ MODULE Traffic ------------------------------
(***************************************************************************)
(* How bytes become a bill, and a bill a limited user.                     *)
(*                                                                         *)
(*   core counters --GetStats--> agent /stats --node-stats-poll--> user    *)
(*   traffic rows and hourly buckets of the node                           *)
(*   used >= limit --review-find-exceeded-traffic--> status "limited"      *)
(*   reset-traffic-* --> used = 0                                          *)
(*                                                                         *)
(* Cron jobs run one at a time (worker concurrency 1), but one job polls   *)
(* all its nodes in parallel and writes each user with an await of its     *)
(* own; agents, cores, users and admins go on meanwhile.  An agent hosts   *)
(* several cores, and each counts in its own way:                          *)
(*   "xray"       drained by the read; restarted by every change of its    *)
(*                users (shadowsocks runs an xray of its own)              *)
(*   "hysteria"   drained by the read                                      *)
(*   "amneziawg"  cumulative per peer                                      *)
(*   "mtproto"    cumulative, node-wide, no users                          *)
(* naive and mieru report zeros.                                           *)
(***************************************************************************)
EXTENDS Naturals, FiniteSets, FiniteSetsExt, Functions

CONSTANTS
    User, Node,
    Cores,      \* Cores[n]: the cores that carry traffic on node n
    Multiplier, \* Multiplier[n]: consumptionMultiplier of node n, a whole number
    Limit,      \* trafficLimitBytes of a user who has one
    MaxSends,   \* BOUND: units of traffic in one behaviour
    MaxChanges, \* BOUND: changes by admins, agents and resets in one behaviour
    MaxFaults,  \* BOUND: failures in one behaviour
    Faults      \* failures the environment may produce

Kinds == {"xray", "shadowsocks", "hysteria", "amneziawg", "mtproto"}

ASSUME TrafficAssumption ==
    /\ IsFiniteSet(User) /\ IsFiniteSet(Node)
    /\ Cores \in [Node -> SUBSET Kinds] /\ Multiplier \in [Node -> Nat \ {0}]
    /\ Limit \in Nat \ {0}
    /\ MaxSends \in Nat /\ MaxChanges \in Nat /\ MaxFaults \in Nat
    /\ Faults \subseteq {"soft", "lost", "db", "crash", "restart"}

VARIABLES
    counter,  \* bytes a core has counted: node, core, user
    wide,     \* mtproto: the node-wide counter of mtg
    tracked,  \* the users in the maps of a node's adapters
    job,      \* the cron job that runs
    poll,     \* node-stats-poll: how far each node is
    snapshot, \* stats.cron.ts: totalSnapshot
    row,      \* users and user_traffic
    hours,    \* node_usage_history, all hours of a node together
    found,    \* review-find-exceeded-traffic: the ids it has read
    sent,     \* ghost: bytes that really went through: node, core, user
    wideSent, \* ghost: bytes that really went through mtproto
    retold,   \* ghost: totals of a node whose snapshot died with the panel
    forgiven, \* ghost: users reset or given room since they were last found
    changes,  \* BOUND: changes so far
    mishaps   \* ghost: what has gone wrong

agentVars == <<counter, wide, tracked>>
realVars == <<sent, wideSent, retold>>
dbVars == <<row, hours>>
vars == <<agentVars, job, poll, snapshot, dbVars, found, realVars, forgiven, changes, mishaps>>

-----------------------------------------------------------------------------
(* Values *)

\* GetStats of the adapters: whether a core counts by user, whether its answer
\* has totals, and whether the counters are emptied by the reading.
XrayStats == [perUser |-> TRUE, totals |-> TRUE, drains |-> TRUE]
ShadowsocksStats == [perUser |-> TRUE, totals |-> TRUE, drains |-> TRUE]
HysteriaStats == [perUser |-> TRUE, totals |-> FALSE, drains |-> TRUE]
AmneziawgStats == [perUser |-> TRUE, totals |-> TRUE, drains |-> FALSE]
MtprotoStats == [perUser |-> FALSE, totals |-> TRUE, drains |-> FALSE]

GetStats == [xray |-> XrayStats, shadowsocks |-> ShadowsocksStats,
             hysteria |-> HysteriaStats, amneziawg |-> AmneziawgStats,
             mtproto |-> MtprotoStats]

PerUser(n) == {c \in Cores[n] : GetStats[c].perUser}
Entries(n) == PerUser(n) \X User
NoBytes(n) == [e \in Entries(n) |-> 0]

\* Where the poll of a node is: the entries of the answer still to bill, what
\* the answer's users sum to, and the totals the answer reports.
Quiet(n) == [at |-> "idle", left |-> NoBytes(n), sum |-> 0, total |-> 0]
Asking(n) == [Quiet(n) EXCEPT !.at = "ask"]
NoPoll == [n \in Node |-> Quiet(n)]

Total(f) == FoldFunction(+, 0, f)
Positive(f) == {e \in DOMAIN f : f[e] > 0}
Plus(f, e, b) == [f EXCEPT ![e] = @ + b]

\* MUTANT: the multiplier is forgotten.
Scaled_Unscaled(n, b) == b

\* stats.cron.ts: Math.round(delta * multiplier), of whole numbers.
Scaled(n, b) == Multiplier[n] * b

Exceeded(u) == row[u].limited /\ row[u].used >= Limit

Sends == Total([n \in Node |-> Total(sent[n]) + wideSent[n]])

CanFail(f) == f \in Faults /\ Cardinality(mishaps) < MaxFaults
Mishap(f) == CanFail(f) /\ mishaps' = mishaps \cup {f}
Change == changes < MaxChanges /\ changes' = changes + 1

-----------------------------------------------------------------------------
(* The cores and the agents *)

\* A user the node knows moves a unit of traffic; mtproto has one secret for
\* all and counts for the node.
Carry(n, u) ==
    /\ Sends < MaxSends
    /\ \/ \E c \in PerUser(n) :
            /\ u \in tracked[n]
            /\ counter' = [counter EXCEPT ![n] = Plus(@, <<c, u>>, 1)]
            /\ sent' = [sent EXCEPT ![n] = Plus(@, <<c, u>>, 1)]
            /\ UNCHANGED <<wide, wideSent>>
       \/ /\ "mtproto" \in Cores[n]
          /\ wide' = [wide EXCEPT ![n] = @ + 1]
          /\ wideSent' = [wideSent EXCEPT ![n] = @ + 1]
          /\ UNCHANGED <<counter, sent>>
    /\ UNCHANGED <<tracked, job, poll, snapshot, dbVars, found, retold, forgiven, changes, mishaps>>

\* A restart of the core's process starts its counters at zero.
Zeroed(f, c, U) == [e \in DOMAIN f |-> IF e[1] = c /\ e[2] \in U THEN 0 ELSE f[e]]

CoreRestarts(n, c) ==
    /\ c \in Cores[n]
    /\ Mishap("restart")
    /\ IF c = "mtproto"
       THEN wide' = [wide EXCEPT ![n] = 0] /\ UNCHANGED counter
       ELSE counter' = [counter EXCEPT ![n] = Zeroed(@, c, User)] /\ UNCHANGED wide
    /\ UNCHANGED <<tracked, job, poll, snapshot, dbVars, found, realVars, forgiven, changes>>

\* AddUser and RemoveUser of the adapters, for whatever reason the panel pushes
\* them: xray and shadowsocks restart, amneziawg drops the peer with its
\* counters, hysteria keeps counting and will not report the user.  Bytes not
\* yet polled are lost.
ChangeUser(n, u) ==
    /\ Change
    /\ tracked' = [tracked EXCEPT ![n] = IF u \in @ THEN @ \ {u} ELSE @ \cup {u}]
    /\ counter' = [counter EXCEPT ![n] =
           LET restarted == Zeroed(Zeroed(@, "xray", User), "shadowsocks", User)
           IN  IF u \in tracked[n] THEN Zeroed(restarted, "amneziawg", {u}) ELSE restarted]
    /\ mishaps' = IF counter'[n] # counter[n] \/ \E c \in PerUser(n) : counter[n][<<c, u>>] > 0
                  THEN mishaps \cup {"undrained"} ELSE mishaps
    /\ UNCHANGED <<wide, job, poll, snapshot, dbVars, found, realVars, forgiven>>

-----------------------------------------------------------------------------
(* node-stats-poll *)

\* The nodes that are neither disabled nor unreachable, in parallel.
StartPoll ==
    /\ job = "none"
    /\ \E online \in SUBSET Node \ {{}} :
         poll' = [n \in Node |-> IF n \in online THEN Asking(n) ELSE Quiet(n)]
    /\ job' = "stats"
    /\ UNCHANGED <<agentVars, snapshot, dbVars, found, realVars, forgiven, changes, mishaps>>

\* What an adapter whose query fails reports: its users, with zeros.
Answers(n, failed, e) == e[1] \notin failed /\ e[2] \in tracked[n]

\* MUTANT: the query without -reset, ?clear=1.
ReadCounters_KeepsThem(n, failed) ==
    /\ poll[n].at = "ask"
    /\ failed # {} => CanFail("soft")
    /\ mishaps' = IF failed = {} THEN mishaps ELSE mishaps \cup {"soft"}
    /\ LET left == [e \in Entries(n) |-> IF Answers(n, failed, e) THEN counter[n][e] ELSE 0]
           tot == Total(Restrict(left, {e \in Entries(n) : GetStats[e[1]].totals}))
                  + IF "mtproto" \in failed THEN 0 ELSE wide[n]
       IN  poll' = [poll EXCEPT ![n] =
                      [at |-> "bill", left |-> left, sum |-> Total(left), total |-> tot]]
    /\ UNCHANGED <<counter, wide, tracked, job, snapshot, dbVars, found, realVars, forgiven, changes>>

\* GET /stats: every adapter in turn.  A core that is drained is emptied of
\* every counter, those of users who are no longer tracked too.  A query that
\* fails yields zeros and leaves the counters alone.
ReadCounters(n, failed) ==
    /\ poll[n].at = "ask"
    /\ failed # {} => CanFail("soft")
    /\ mishaps' = (IF failed = {} THEN mishaps ELSE mishaps \cup {"soft"})
    /\ LET left == [e \in Entries(n) |-> IF Answers(n, failed, e) THEN counter[n][e] ELSE 0]
           tot == Total(Restrict(left, {e \in Entries(n) : GetStats[e[1]].totals}))
                  + IF "mtproto" \in failed THEN 0 ELSE wide[n]
       IN  poll' = [poll EXCEPT ![n] =
                      [at |-> "bill", left |-> left, sum |-> Total(left), total |-> tot]]
    /\ counter' = [counter EXCEPT ![n] = [e \in Entries(n) |->
           IF e[1] \notin failed /\ GetStats[e[1]].drains THEN 0 ELSE @[e]]]
    /\ UNCHANGED <<wide, tracked, job, snapshot, dbVars, found, realVars, forgiven, changes>>

\* The call fails: before the agent reads, or with the answer on its way back.
PollFails(n) ==
    /\ poll[n].at = "ask" \/ (poll[n].at = "bill" /\ Total(poll[n].left) = poll[n].sum)
    /\ Mishap("lost")
    /\ poll' = [poll EXCEPT ![n] = Quiet(n)]
    /\ UNCHANGED <<agentVars, job, snapshot, dbVars, found, realVars, forgiven, changes>>

Billed(r, b) == [r EXCEPT !.used = @ + b, !.lifetime = @ + b]
Settled(p, e) == [p EXCEPT !.left = [@ EXCEPT ![e] = 0]]

\* One user's upsert.
BillUser(n, e) ==
    /\ poll[n].at = "bill" /\ poll[n].left[e] > 0
    /\ row' = [row EXCEPT ![e[2]] = Billed(@, Scaled(n, poll[n].left[e]))]
    /\ poll' = [poll EXCEPT ![n] = Settled(@, e)]
    /\ UNCHANGED <<agentVars, job, snapshot, hours, found, realVars, forgiven, changes, mishaps>>

\* No per-user bytes: the growth of the totals since the last poll.
Growth(n) ==
    IF poll[n].sum = 0 /\ poll[n].total > snapshot[n] THEN poll[n].total - snapshot[n] ELSE 0

\* MUTANT: the totals stand for the users' sum.
Counted_TotalsOnly(n) == poll[n].total

\* The users are billed: the snapshot moves, then the upsert of the bucket.
Counted(n) == poll[n].sum + Growth(n)

TakeSnapshot(n) ==
    snapshot' = IF poll[n].sum = 0 /\ poll[n].total > 0
                THEN [snapshot EXCEPT ![n] = poll[n].total] ELSE snapshot

BillNode(n) ==
    /\ poll[n].at = "bill" /\ Positive(poll[n].left) = {}
    /\ TakeSnapshot(n)
    /\ hours' = [hours EXCEPT ![n] = @ + Counted(n)]
    /\ poll' = [poll EXCEPT ![n] = Quiet(n)]
    /\ UNCHANGED <<agentVars, job, row, found, realVars, forgiven, changes, mishaps>>

\* An upsert throws: the rest of this node's answer is dropped.
BillFails(n) ==
    /\ poll[n].at = "bill"
    /\ Mishap("db")
    /\ IF Positive(poll[n].left) = {} THEN TakeSnapshot(n) ELSE UNCHANGED snapshot
    /\ poll' = [poll EXCEPT ![n] = Quiet(n)]
    /\ UNCHANGED <<agentVars, job, dbVars, found, realVars, forgiven, changes>>

PollEnds ==
    /\ job = "stats" /\ \A n \in Node : poll[n].at = "idle"
    /\ job' = "none"
    /\ UNCHANGED <<agentVars, poll, snapshot, dbVars, found, realVars, forgiven, changes, mishaps>>

-----------------------------------------------------------------------------
(* users.cron.ts and what an admin does to a user meanwhile *)

\* MUTANT: the lifetime counter is compared.
FindExceeded_Lifetime ==
    /\ job = "none"
    /\ found' = {u \in User : row[u].status = "active" /\ row[u].limited
                                /\ row[u].lifetime >= Limit}
    /\ job' = IF found' = {} THEN "none" ELSE "review"
    /\ forgiven' = forgiven \ found'
    /\ UNCHANGED <<agentVars, poll, snapshot, dbVars, realVars, changes, mishaps>>

\* MUTANT: a user at the limit is not over it.
FindExceeded_Strict ==
    /\ job = "none"
    /\ found' = {u \in User : row[u].status = "active" /\ row[u].limited
                                /\ row[u].used > Limit}
    /\ job' = IF found' = {} THEN "none" ELSE "review"
    /\ forgiven' = forgiven \ found'
    /\ UNCHANGED <<agentVars, poll, snapshot, dbVars, realVars, changes, mishaps>>

\* review-find-exceeded-traffic reads the ids ...
FindExceeded ==
    /\ job = "none"
    /\ found' = {u \in User : row[u].status = "active" /\ Exceeded(u)}
    /\ job' = IF found' = {} THEN "none" ELSE "review"
    /\ forgiven' = forgiven \ found'
    /\ UNCHANGED <<agentVars, poll, snapshot, dbVars, realVars, changes, mishaps>>

\* ... and writes them, by id only.
MarkLimited ==
    /\ job = "review"
    /\ row' = [u \in User |-> IF u \in found THEN [row[u] EXCEPT !.status = "limited"] ELSE row[u]]
    /\ found' = {} /\ job' = "none"
    /\ UNCHANGED <<agentVars, poll, snapshot, hours, realVars, forgiven, changes, mishaps>>

\* reset-traffic-*: the users of one strategy, whatever their status.
ResetTraffic ==
    /\ job = "none" /\ Change
    /\ \E some \in SUBSET User \ {{}} :
         /\ row' = [u \in User |-> IF u \in some THEN [row[u] EXCEPT !.used = 0] ELSE row[u]]
         /\ forgiven' = forgiven \cup some
    /\ UNCHANGED <<agentVars, job, poll, snapshot, hours, found, realVars, mishaps>>

Toggled(r) == [r EXCEPT !.limited = ~@]

\* updateUser: a status of the admin's choice, a limit set or lifted.
UpdateUser(u) ==
    /\ Change
    /\ \/ /\ \E s \in {"active", "disabled"} \ {row[u].status} :
               row' = [row EXCEPT ![u] = [@ EXCEPT !.status = s]]
          /\ UNCHANGED forgiven
       \/ /\ row' = [row EXCEPT ![u] = Toggled(@)]
          /\ forgiven' = forgiven \cup {u}
    /\ UNCHANGED <<agentVars, job, poll, snapshot, hours, found, realVars, mishaps>>

\* The panel's process dies: the job with it, and the snapshots; the totals they
\* stood for look new to the next poll.
PanelCrash ==
    /\ Mishap("crash")
    /\ job' = "none" /\ found' = {}
    /\ poll' = NoPoll
    /\ snapshot' = [n \in Node |-> 0]
    /\ retold' = [n \in Node |-> retold[n] + snapshot[n]]
    /\ UNCHANGED <<agentVars, dbVars, sent, wideSent, forgiven, changes>>

-----------------------------------------------------------------------------
Init ==
    /\ counter = [n \in Node |-> NoBytes(n)] /\ wide = [n \in Node |-> 0]
    /\ tracked = [n \in Node |-> User]
    /\ job = "none" /\ found = {}
    /\ poll = NoPoll /\ snapshot = [n \in Node |-> 0]
    /\ row = [u \in User |-> [status |-> "active", limited |-> TRUE, used |-> 0, lifetime |-> 0]]
    /\ hours = [n \in Node |-> 0]
    /\ sent = [n \in Node |-> NoBytes(n)] /\ wideSent = [n \in Node |-> 0]
    /\ retold = [n \in Node |-> 0]
    /\ forgiven = {} /\ changes = 0 /\ mishaps = {}

PollStep == \E n \in Node :
    \/ \E failed \in SUBSET Cores[n] : ReadCounters(n, failed)
    \/ \E e \in Entries(n) : BillUser(n, e)
    \/ BillNode(n)

Next ==
    \/ \E n \in Node, u \in User : Carry(n, u) \/ ChangeUser(n, u)
    \/ \E n \in Node, c \in Kinds : CoreRestarts(n, c)
    \/ \E n \in Node : PollFails(n) \/ BillFails(n)
    \/ StartPoll \/ PollStep \/ PollEnds
    \/ FindExceeded \/ MarkLimited \/ ResetTraffic
    \/ \E u \in User : UpdateUser(u)
    \/ PanelCrash

Spec == Init /\ [][Next]_vars

\* Calls to agents and to the database end (they have timeouts), and the queue
\* gives every repeatable job its turn when the worker is free.
FairSpec == Spec /\ WF_vars(PollStep) /\ WF_vars(PollEnds)
                 /\ SF_vars(FindExceeded) /\ WF_vars(MarkLimited)

-----------------------------------------------------------------------------
(* Properties *)

Bytes == 0..MaxSends

\* The types of the variables; only a job that polls has a poll under way, and
\* only a review holds ids.
TypeOK ==
    /\ DOMAIN counter = Node /\ DOMAIN sent = Node /\ DOMAIN poll = Node
    /\ \A n \in Node :
         /\ counter[n] \in [Entries(n) -> Bytes] /\ sent[n] \in [Entries(n) -> Bytes]
         /\ poll[n] \in [at : {"idle", "ask", "bill"}, left : [Entries(n) -> Bytes],
                         sum : Bytes, total : Bytes]
    /\ wide \in [Node -> Bytes]
    /\ tracked \in [Node -> SUBSET User]
    /\ job \in {"none", "stats", "review"}
    /\ snapshot \in [Node -> Bytes]
    /\ row \in [User -> [status : {"active", "limited", "disabled"}, limited : BOOLEAN,
                         used : Nat, lifetime : Nat]]
    /\ hours \in [Node -> Nat]
    /\ wideSent \in [Node -> Bytes] /\ retold \in [Node -> Nat]
    /\ found \in SUBSET User /\ forgiven \in SUBSET User
    /\ changes \in 0..MaxChanges /\ mishaps \subseteq Faults \cup {"undrained"}
    /\ job # "stats" => poll = NoPoll
    /\ found # {} <=> job = "review"

\* Bytes of user u that went through node n, and those on their way to the bill.
Used(n, u) == Total([c \in PerUser(n) |-> sent[n][<<c, u>>]])
Pending(n, u) == Total([c \in PerUser(n) |-> counter[n][<<c, u>>] + poll[n].left[<<c, u>>]])

\* A user's bill, and what may still come on it: node by node.
Bill(u) == Total([n \in Node |-> Multiplier[n] * Used(n, u)])
OnItsWay(u) == Total([n \in Node |-> Multiplier[n] * Pending(n, u)])

\* Whatever fails, is repeated or restarts, nobody is billed for bytes they did
\* not move, and no byte twice: with what the cores and the poll still hold, the
\* bill does not exceed what went through (stats.cron.ts, the upsert of
\* user_traffic).
NeverOverbilled == \A u \in User : row[u].lifetime + OnItsWay(u) <= Bill(u)

\* Traffic escapes the bill only after an answer was lost, a write failed, a
\* process died, or a user changed on a core with counters that were not yet
\* read.  A query that fails inside the agent loses nothing.
LossExplained ==
    mishaps \subseteq {"soft"} =>
        \A u \in User : row[u].lifetime + OnItsWay(u) = Bill(u)

\* The node's hourly history shows no more than went through it, but for the
\* totals whose snapshot a panel took with it when it died: each is told once
\* more, and nothing else is, whatever fails or restarts (stats.cron.ts,
\* totalSnapshot).  And it tells the story of the bills: until a write fails or
\* the panel dies, it holds at least what all users were billed for.
Through(n) == Total(sent[n]) + wideSent[n]
HistoryExplained ==
    /\ \A n \in Node : hours[n] <= Through(n) + retold[n]
    /\ mishaps \cap {"db", "crash"} = {} =>
        Total([u \in User |-> row[u].lifetime]) <=
            Total([n \in Node |-> Multiplier[n] * (hours[n] + poll[n].sum)])

\* stats.cron.ts:9-11 of the snapshots: "cleared when the backend restarts;
\* that's fine, the first tick after restart just records the current snapshot
\* without writing a fake spike".
NoFakeSpike == \A n \in Node : hours[n] <= Through(n)

\* Only a user who was found over the limit is limited, and unless the counter
\* was reset or the limit moved since, they still are (users.cron.ts,
\* findExceededTrafficUsers).
LimitedExplained ==
    \A u \in User : row[u].status = "limited" /\ u \notin forgiven => Exceeded(u)

\* A user at the limit does not stay active (users.cron.ts,
\* findExceededTrafficUsers).
OverLimitIsLimited ==
    \A u \in User :
        row[u].status = "active" /\ Exceeded(u) ~> row[u].status # "active" \/ ~Exceeded(u)

=============================================================================

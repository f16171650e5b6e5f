--------------------------- MODULE NodeLifecycle ---------------------------
(***************************************************************************)
(* How a node gets its identity and how it learns that it is unwanted.     *)
(*                                                                         *)
(*   createNode / refresh  --> one-time token --> install-node.sh redeems  *)
(*   it --> payload: certificate, CA, pinned panel leaf, heartbeat token   *)
(*   heartbeat loop --> 200 active / 410 --> exit 42.  (Nothing in the     *)
(*   panel ever writes the status "disabled" of a node.)                   *)
(*                                                                         *)
(* The certificate authority and the panel's client leaf are one row of    *)
(* `keygen_ca`, made on first use by whichever request needs them first,   *)
(* the requests of this module and the first call to any node alike.  A    *)
(* request is a process slot; every await between two reads or writes of   *)
(* shared state is a step.  Generated material is named after the request  *)
(* that generated it.                                                      *)
(***************************************************************************)
EXTENDS Naturals, FiniteSets

CONSTANTS
    Node,          \* nodes; the host a node is installed on goes by its name
    Token,         \* one-time bootstrap tokens
    Proc,          \* BOUND: panel requests in flight
    None,          \* no value
    Installs,      \* "fresh": no CA yet; "upgraded": a CA without a panel leaf
    GoneThreshold, \* consecutive 410 answers before the agent stops (3)
    MaxRestarts,   \* BOUND: restarts of one agent
    MaxFaults,     \* BOUND: kinds of failure of the panel in one behaviour
    Faults         \* failures the environment may produce

ASSUME LifecycleAssumption ==
    /\ IsFiniteSet(Node) /\ IsFiniteSet(Token) /\ IsFiniteSet(Proc)
    /\ None \notin Node \cup Token \cup Proc
    /\ Installs \subseteq {"fresh", "upgraded"}
    /\ GoneThreshold \in Nat \ {0} /\ MaxRestarts \in Nat /\ MaxFaults \in Nat
    /\ Faults \subseteq {"db", "crash", "lost"}

VARIABLES
    nodeRow,  \* nodes table: "absent", "active", "deleted"
    token,    \* node_bootstrap_tokens
    keygenCa, \* the singleton row of keygen_ca
    proc,     \* the panel's requests in flight
    agent,    \* nodes.transport.ts: sharedAgent and sharedAgentPromise
    payloads, \* payloads handed out
    host,     \* what runs on the nodes' hosts
    answer,   \* the answer to a heartbeat on its way
    restarts, \* restarts of an agent so far
    uses,     \* ghost: payloads a token was exchanged for
    mishaps   \* ghost: what has gone wrong in the panel

hostVars == <<host, answer, restarts>>
vars == <<nodeRow, token, keygenCa, proc, agent, payloads, hostVars, uses, mishaps>>

-----------------------------------------------------------------------------
(* Values *)

Registered == "upgraded"   \* names the CA an upgraded install brings along

TokenState == {"free", "fresh", "expired", "consumed"}
NoCa == [ca |-> None, leaf |-> None]
OldCa == [ca |-> Registered, leaf |-> None]
Ca == [ca : Proc \cup {None, Registered}, leaf : Proc \cup {None}]

Step == {"idle", "claim", "ca", "newCa", "leaf", "newLeaf", "token", "reply"}
Idle == [op |-> "none", at |-> "idle", node |-> None, token |-> None,
         ca |-> None, leaf |-> None]
Payload == [node : Node, token : Token \cup {None},
            ca : Proc \cup {Registered}, leaf : Proc \cup {None}]
NoAgent == [state |-> "none", ca |-> None, leaf |-> None]
NoHost == [state |-> "absent", payload |-> None, gone |-> 0]

Wanted(n) == nodeRow[n] = "active"
Busy(p) == proc[p].at # "idle"

-----------------------------------------------------------------------------
(* Requests: where one is, and what it holds *)

Go(p, at) == proc' = [proc EXCEPT ![p].at = at]
Done(p) == proc' = [proc EXCEPT ![p] = Idle]
Begin(p, op, at, n, t) ==
    /\ ~Busy(p)
    /\ proc' = [proc EXCEPT ![p] = [Idle EXCEPT !.op = op, !.at = at, !.node = n, !.token = t]]

\* An error a request is not prepared for: a 500, and for the first call to a
\* node a promise that stays rejected.
Throws(p, why) ==
    /\ Done(p)
    /\ mishaps' = mishaps \cup {why}
    /\ agent' = IF proc[p].op = "call" THEN [agent EXCEPT !.state = "rejected"] ELSE agent

\* With the CA in hand: createNode goes on to its token, the others to the leaf.
AfterCa(p) == IF proc[p].op = "create" THEN "token" ELSE "leaf"

HasCa(p, ca) == proc' = [proc EXCEPT ![p].ca = ca, ![p].at = AfterCa(p)]
HasLeaf(p, leaf) == proc' = [proc EXCEPT ![p].leaf = leaf, ![p].at = "reply"]

-----------------------------------------------------------------------------
(* keygen.service.ts *)

\* keygen.crypto.ts: a CA and a leaf are named after the request that made them.
generateCa(p) == p
generatePanelClientCert(p) == p

\* issueNodeCert, encodeNodePayload: what a host needs to trust the panel.
NodePayload(n, t, ca, leaf) == [node |-> n, token |-> t, ca |-> ca, leaf |-> leaf]

\* bootstrapCa, first half: look the row up.
FindCa(p) ==
    /\ proc[p].at = "ca"
    /\ IF keygenCa.ca # None THEN HasCa(p, keygenCa.ca) ELSE Go(p, "newCa")
    /\ UNCHANGED <<nodeRow, token, keygenCa, agent, payloads, hostVars, uses, mishaps>>

\* MUTANT: an upsert instead of an insert.
CreateCa_Upserts(p) ==
    /\ proc[p].at = "newCa"
    /\ keygenCa' = [ca |-> generateCa(p), leaf |-> generatePanelClientCert(p)]
    /\ HasCa(p, generateCa(p))
    /\ UNCHANGED <<nodeRow, token, agent, payloads, hostVars, uses, mishaps>>

\* MUTANT: the leaf is left to the backfill.
CreateCa_LeavesLeaf(p) ==
    /\ proc[p].at = "newCa"
    /\ IF keygenCa = NoCa
       THEN /\ keygenCa' = [ca |-> generateCa(p), leaf |-> None]
            /\ HasCa(p, generateCa(p))
            /\ UNCHANGED <<agent, mishaps>>
       ELSE Throws(p, "caRace") /\ UNCHANGED keygenCa
    /\ UNCHANGED <<nodeRow, token, payloads, hostVars, uses>>

\* bootstrapCa, second half: generate both pairs, insert the row with id 1.
CreateCa(p) ==
    /\ proc[p].at = "newCa"
    /\ IF keygenCa = NoCa
       THEN /\ keygenCa' = [ca |-> generateCa(p), leaf |-> generatePanelClientCert(p)]
            /\ HasCa(p, generateCa(p))
            /\ UNCHANGED <<agent, mishaps>>
       ELSE Throws(p, "caRace") /\ UNCHANGED keygenCa
    /\ UNCHANGED <<nodeRow, token, payloads, hostVars, uses>>

\* getPanelClientCert, first half.
FindLeaf(p) ==
    /\ proc[p].at = "leaf"
    /\ IF keygenCa.leaf # None THEN HasLeaf(p, keygenCa.leaf) ELSE Go(p, "newLeaf")
    /\ UNCHANGED <<nodeRow, token, keygenCa, agent, payloads, hostVars, uses, mishaps>>

\* getPanelClientCert, second half: the backfill of an upgraded install.
BackfillLeaf(p) ==
    /\ proc[p].at = "newLeaf"
    /\ keygenCa' = [keygenCa EXCEPT !.leaf = generatePanelClientCert(p)]
    /\ HasLeaf(p, generatePanelClientCert(p))
    /\ UNCHANGED <<nodeRow, token, agent, payloads, hostVars, uses, mishaps>>

-----------------------------------------------------------------------------
(* nodes.service.ts, bootstrap.service.ts, nodes.routes.ts *)

\* createNode up to its insert; the node can be polled from here on.
CreateNode(p, n) ==
    /\ nodeRow[n] = "absent"
    /\ nodeRow' = [nodeRow EXCEPT ![n] = "active"]
    /\ Begin(p, "create", "ca", n, None)
    /\ UNCHANGED <<token, keygenCa, agent, payloads, hostVars, uses, mishaps>>

\* POST /api/nodes/:id/bootstrap, up to the insert of the token.
RefreshBootstrap(p, n) ==
    /\ Wanted(n)
    /\ Begin(p, "refresh", "token", n, None)
    /\ UNCHANGED <<nodeRow, token, keygenCa, agent, payloads, hostVars, uses, mishaps>>

\* issueBootstrapToken.  The answer of createNode also carries a payload to
\* paste: no heartbeat credentials and no pinned leaf.
IssueBootstrapToken(p, t) ==
    /\ proc[p].at = "token" /\ token[t].state = "free"
    /\ token' = [token EXCEPT ![t] = [node |-> proc[p].node, state |-> "fresh"]]
    /\ payloads' = IF proc[p].op = "create"
                   THEN payloads \cup {NodePayload(proc[p].node, None, proc[p].ca, None)}
                   ELSE payloads
    /\ Done(p)
    /\ UNCHANGED <<nodeRow, keygenCa, agent, hostVars, uses, mishaps>>

\* The 15 minutes of a token have passed.
Expire(t) ==
    /\ token[t].state = "fresh"
    /\ token' = [token EXCEPT ![t].state = "expired"]
    /\ UNCHANGED <<nodeRow, keygenCa, proc, agent, payloads, hostVars, uses, mishaps>>

\* redeemBootstrapToken: the row and its checks ...
RedeemFind(p, t) ==
    /\ token[t].state = "fresh" /\ Wanted(token[t].node)
    /\ Begin(p, "redeem", "claim", token[t].node, t)
    /\ UNCHANGED <<nodeRow, token, keygenCa, agent, payloads, hostVars, uses, mishaps>>

\* MUTANT: the update is not conditional on consumedAt.
RedeemClaim_Blind(p) ==
    /\ proc[p].at = "claim"
    /\ token' = [token EXCEPT ![proc[p].token].state = "consumed"]
    /\ Go(p, "ca")
    /\ UNCHANGED <<nodeRow, keygenCa, agent, payloads, hostVars, uses, mishaps>>

\* MUTANT: the node is checked once the token has been claimed.
RedeemClaim_ChecksNodeLater(p) ==
    LET t == proc[p].token IN
    /\ proc[p].at = "claim"
    /\ IF token[t].state # "consumed"
       THEN /\ token' = [token EXCEPT ![t].state = "consumed"]
            /\ IF Wanted(proc[p].node) THEN Go(p, "ca") ELSE Done(p)
       ELSE Done(p) /\ UNCHANGED token
    /\ UNCHANGED <<nodeRow, keygenCa, agent, payloads, hostVars, uses, mishaps>>

\* ... the conditional update that claims it; a loser answers 410 ...
RedeemClaim(p) ==
    LET t == proc[p].token IN
    /\ proc[p].at = "claim"
    /\ IF token[t].state # "consumed"
       THEN token' = [token EXCEPT ![t].state = "consumed"] /\ Go(p, "ca")
       ELSE Done(p) /\ UNCHANGED token
    /\ UNCHANGED <<nodeRow, keygenCa, agent, payloads, hostVars, uses, mishaps>>

\* install-node.sh starts, or restarts, the agent with the payload it was given.
Install(payload) ==
    /\ host' = [host EXCEPT ![payload.node] =
                   [state |-> "up", payload |-> payload, gone |-> 0]]
    /\ answer' = [answer EXCEPT ![payload.node] = "none"]

\* ... and the payload, which reaches the host or is lost on the way.
RedeemReply(p) ==
    LET payload == NodePayload(proc[p].node, proc[p].token, proc[p].ca, proc[p].leaf) IN
    /\ proc[p].at = "reply" /\ proc[p].op = "redeem"
    /\ payloads' = payloads \cup {payload}
    /\ uses' = [uses EXCEPT ![proc[p].token] = @ + 1]
    /\ \/ Install(payload)
       \/ "lost" \in Faults /\ UNCHANGED <<host, answer>>
    /\ Done(p)
    /\ UNCHANGED <<nodeRow, token, keygenCa, agent, restarts, mishaps>>

\* install-node.sh --payload.
PastePayload(payload) ==
    /\ payload \in payloads /\ payload.token = None
    /\ host[payload.node].state = "absent"
    /\ Install(payload)
    /\ UNCHANGED <<nodeRow, token, keygenCa, proc, agent, payloads, restarts, uses, mishaps>>

DeleteNode(n) ==
    /\ Wanted(n)
    /\ nodeRow' = [nodeRow EXCEPT ![n] = "deleted"]
    /\ UNCHANGED <<token, keygenCa, proc, agent, payloads, hostVars, uses, mishaps>>

-----------------------------------------------------------------------------
(* nodes.transport.ts *)

\* getSharedAgent by the first caller; later ones await the same promise.
BuildAgent(p) ==
    /\ agent.state = "none" /\ \E n \in Node : Wanted(n)
    /\ agent' = [agent EXCEPT !.state = "pending"]
    /\ Begin(p, "call", "ca", None, None)
    /\ UNCHANGED <<nodeRow, token, keygenCa, payloads, hostVars, uses, mishaps>>

AgentBuilt(p) ==
    /\ proc[p].at = "reply" /\ proc[p].op = "call"
    /\ agent' = [state |-> "ready", ca |-> proc[p].ca, leaf |-> proc[p].leaf]
    /\ Done(p)
    /\ UNCHANGED <<nodeRow, token, keygenCa, payloads, hostVars, uses, mishaps>>

MayFail(fault) == fault \in Faults /\ Cardinality(mishaps \ {"caRace"}) < MaxFaults

\* A statement fails at the database.
DatabaseError(p) ==
    /\ MayFail("db") /\ Busy(p) /\ proc[p].at # "reply"
    /\ Throws(p, "db")
    /\ UNCHANGED <<nodeRow, token, keygenCa, payloads, hostVars, uses>>

\* The panel stops at any point and starts again.
PanelCrash ==
    /\ MayFail("crash")
    /\ \/ agent # NoAgent
       \/ \E p \in Proc : Busy(p)
    /\ proc' = [p \in Proc |-> Idle]
    /\ agent' = NoAgent
    /\ mishaps' = mishaps \cup {"crash"}
    /\ UNCHANGED <<nodeRow, token, keygenCa, payloads, hostVars, uses>>

-----------------------------------------------------------------------------
(* heartbeat.go, heartbeat.routes.ts *)

Running(n) == host[n].state = "up"

\* Run returns at once when the payload has no heartbeat token.
Beats(n) == Running(n) /\ host[n].payload.token # None

\* MUTANT: the secret of a deleted node is not looked up: 401.
StatusOf_ForgetsDeleted(n) == IF nodeRow[n] = "deleted" THEN "none" ELSE nodeRow[n]

\* GET /me/status.
StatusOf(n) == IF nodeRow[n] = "deleted" THEN "gone" ELSE nodeRow[n]

PollOnce(n) ==
    /\ Beats(n) /\ answer[n] = "none"
    /\ answer' = [answer EXCEPT ![n] = StatusOf(n)]
    /\ UNCHANGED <<nodeRow, token, keygenCa, proc, agent, payloads, host, restarts, uses, mishaps>>

\* MUTANT: one answer too many is waited for.
AfterAnswer_OffByOne(h, status) ==
    IF status # "gone" THEN [h EXCEPT !.gone = 0]
    ELSE IF h.gone + 1 > GoneThreshold THEN [h EXCEPT !.gone = 0, !.state = "stopped"]
    ELSE [h EXCEPT !.gone = @ + 1]

\* Run: what the loop makes of an answer.
AfterAnswer(h, status) ==
    IF status # "gone" THEN [h EXCEPT !.gone = 0]
    ELSE IF h.gone + 1 >= GoneThreshold THEN [h EXCEPT !.gone = 0, !.state = "stopped"]
    ELSE [h EXCEPT !.gone = @ + 1]

Hear(n) ==
    /\ Running(n) /\ answer[n] # "none"
    /\ host' = [host EXCEPT ![n] = AfterAnswer(@, answer[n])]
    /\ answer' = [answer EXCEPT ![n] = "none"]
    /\ UNCHANGED <<nodeRow, token, keygenCa, proc, agent, payloads, restarts, uses, mishaps>>

\* MUTANT: a failed poll counts as a 410.
PollFails_Counts(n) ==
    /\ "lost" \in Faults /\ answer[n] # "none"
    /\ host' = [host EXCEPT ![n] = AfterAnswer(@, "gone")]
    /\ answer' = [answer EXCEPT ![n] = "none"]
    /\ UNCHANGED <<nodeRow, token, keygenCa, proc, agent, payloads, restarts, uses, mishaps>>

\* A timeout, a refused connection, a 401, 429 or 5xx: not counted.
PollFails(n) ==
    /\ "lost" \in Faults /\ answer[n] # "none"
    /\ answer' = [answer EXCEPT ![n] = "none"]
    /\ UNCHANGED <<nodeRow, token, keygenCa, proc, agent, payloads, host, restarts, uses, mishaps>>

\* The agent's process ends by any other status and systemd starts it again.
RestartAgent(n) ==
    /\ Running(n) /\ restarts[n] < MaxRestarts
    /\ restarts' = [restarts EXCEPT ![n] = @ + 1]
    /\ host' = [host EXCEPT ![n].gone = 0]
    /\ answer' = [answer EXCEPT ![n] = "none"]
    /\ UNCHANGED <<nodeRow, token, keygenCa, proc, agent, payloads, uses, mishaps>>

-----------------------------------------------------------------------------
(* Specification *)

Init ==
    /\ nodeRow = [n \in Node |-> "absent"]
    /\ token = [t \in Token |-> [node |-> None, state |-> "free"]]
    /\ keygenCa \in (IF "fresh" \in Installs THEN {NoCa} ELSE {})
                    \cup (IF "upgraded" \in Installs THEN {OldCa} ELSE {})
    /\ proc = [p \in Proc |-> Idle]
    /\ agent = NoAgent
    /\ payloads = {}
    /\ host = [n \in Node |-> NoHost]
    /\ answer = [n \in Node |-> "none"]
    /\ restarts = [n \in Node |-> 0]
    /\ uses = [t \in Token |-> 0]
    /\ mishaps = {}

Advance(p) ==
    \/ FindCa(p) \/ CreateCa(p) \/ FindLeaf(p) \/ BackfillLeaf(p)
    \/ RedeemClaim(p) \/ RedeemReply(p) \/ AgentBuilt(p)
    \/ \E t \in Token : IssueBootstrapToken(p, t)

Next ==
    \/ \E p \in Proc :
        \/ Advance(p) \/ BuildAgent(p) \/ DatabaseError(p)
        \/ \E n \in Node : CreateNode(p, n) \/ RefreshBootstrap(p, n)
        \/ \E t \in Token : RedeemFind(p, t)
    \/ \E t \in Token : Expire(t)
    \/ \E payload \in payloads : PastePayload(payload)
    \/ \E n \in Node :
        \/ DeleteNode(n) \/ PollOnce(n)
        \/ Hear(n) \/ PollFails(n) \/ RestartAgent(n)
    \/ PanelCrash

Spec == Init /\ [][Next]_vars

\* The loop's timer always fires again, and an outage of the panel or of the
\* network ends: an answer is heard now and then.
FairSpec ==
    /\ Spec
    /\ \A n \in Node : WF_vars(PollOnce(n)) /\ SF_vars(Hear(n))

-----------------------------------------------------------------------------
(* Properties *)

TypeOK ==
    /\ nodeRow \in [Node -> {"absent", "active", "deleted"}]
    /\ token \in [Token -> [node : Node \cup {None}, state : TokenState]]
    /\ keygenCa \in Ca
    /\ proc \in [Proc -> [op : {"none", "create", "refresh", "redeem", "call"}, at : Step,
                          node : Node \cup {None}, token : Token \cup {None},
                          ca : Proc \cup {None, Registered}, leaf : Proc \cup {None}]]
    /\ agent \in [state : {"none", "pending", "ready", "rejected"},
                  ca : Proc \cup {None, Registered}, leaf : Proc \cup {None}]
    /\ payloads \subseteq Payload
    /\ host \in [Node -> [state : {"absent", "up", "stopped"}, payload : Payload \cup {None},
                          gone : 0 .. GoneThreshold - 1]]
    /\ answer \in [Node -> {"none", "active", "gone"}]
    /\ restarts \in [Node -> 0 .. MaxRestarts]
    /\ uses \in [Token -> Nat]
    /\ mishaps \subseteq {"caRace", "db", "crash"}

(***************************************************************************)
(* A one-time token yields one payload, for the node it was issued for,    *)
(* whatever redeems it at once, and a token that was consumed can be       *)
(* blamed for it: no payload comes of a token that is not.                 *)
(***************************************************************************)
SingleUse ==
    /\ \A t \in Token : uses[t] <= 1
    /\ \A x \in payloads : x.token # None =>
           token[x.token] = [node |-> x.node, state |-> "consumed"]

(***************************************************************************)
(* Two first uses never leave two authorities behind: whatever was handed  *)
(* to a node, and what the panel calls nodes with, stems from the CA in    *)
(* the database.                                                           *)
(***************************************************************************)
OneAuthority ==
    /\ \A x \in payloads : x.ca = keygenCa.ca
    /\ agent.state = "ready" => agent.ca = keygenCa.ca

(***************************************************************************)
(* On a fresh install the leaf a node pins is the leaf the panel presents, *)
(* so the panel can reach every node.  (An upgraded install can miss it:   *)
(* two processes may each generate the client leaf that is backfilled.)    *)
(***************************************************************************)
Pins(x) == agent.state = "ready" /\ x.leaf # None => x.leaf = agent.leaf
FreshPinsMatch == keygenCa.ca # Registered => \A x \in payloads : Pins(x)

(***************************************************************************)
(* What an admin would see go wrong here has a cause in the panel: a token *)
(* is consumed in vain only after a lost race for the first CA, a database *)
(* error or a crash.  (The first conjunct names the causes for which calls *)
(* to nodes are refused until a restart.)                                  *)
(***************************************************************************)
FailureExplained ==
    /\ agent.state = "rejected" => mishaps \cap {"caRace", "db"} # {}
    /\ \A t \in Token :
           token[t].state = "consumed" =>
               \/ \E x \in payloads : x.token = t
               \/ \E p \in Proc : proc[p].token = t
               \/ mishaps # {}

\* heartbeat.go: only a node the admin deleted takes itself down.
OnlyDeletedStop == \A n \in Node : host[n].state = "stopped" => nodeRow[n] = "deleted"

(***************************************************************************)
(* Every agent that sends heartbeats stops after its node is deleted, for  *)
(* all the answers that are lost and the restarts in between.              *)
(***************************************************************************)
DeletedStops == \A n \in Node : (nodeRow[n] = "deleted" /\ Beats(n)) ~> ~Running(n)

=============================================================================

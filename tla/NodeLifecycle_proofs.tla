----------------------- MODULE NodeLifecycle_proofs -----------------------
(***************************************************************************)
(* For every set of nodes, tokens and requests in flight, every bound and  *)
(* every set of failures: the types and the safety properties of           *)
(* NodeLifecycle.                                                          *)
(***************************************************************************)
EXTENDS NodeLifecycle, TLAPS

-----------------------------------------------------------------------------
(* The inductive invariant *)

Request == [op : {"none", "create", "refresh", "redeem", "call"}, at : Step,
            node : Node \cup {None}, token : Token \cup {None},
            ca : Proc \cup {None, Registered}, leaf : Proc \cup {None}]

\* What a request holds goes with its kind and with where it is.
Formed(r) ==
    /\ r.at = "idle" => r = Idle
    /\ r.op = "none" => r.at = "idle"
    /\ r.op = "create" => /\ r.at \in {"ca", "newCa", "token"}
                          /\ r.node \in Node /\ r.token = None
    /\ r.op = "refresh" => r.at = "token" /\ r.node \in Node /\ r.token = None
    /\ r.op = "redeem" => /\ r.at \in {"claim", "ca", "newCa", "leaf", "newLeaf", "reply"}
                          /\ r.node \in Node /\ r.token \in Token
    /\ r.op = "call" => /\ r.at \in {"ca", "newCa", "leaf", "newLeaf", "reply"}
                        /\ r.node = None /\ r.token = None

AllFormed == \A p \in Proc : Formed(proc[p])

\* There is one authority: what a request has read of it, what was handed out
\* and what the shared agent holds is still in the row.
HoldsCa(r) == r.at \in {"leaf", "newLeaf", "reply"} \/ (r.op = "create" /\ r.at = "token")

OneCa ==
    /\ \A p \in Proc : HoldsCa(proc[p]) => keygenCa.ca # None /\ proc[p].ca = keygenCa.ca
    /\ \A x \in payloads : keygenCa.ca # None /\ x.ca = keygenCa.ca
    /\ agent.state = "ready" => keygenCa.ca # None /\ agent.ca = keygenCa.ca

\* A row this version wrote has its leaf from the start: nobody backfills it.
OneLeaf ==
    keygenCa.ca # Registered =>
        /\ keygenCa.ca # None => keygenCa.leaf # None
        /\ \A p \in Proc : /\ proc[p].at # "newLeaf"
                           /\ proc[p].at = "reply" => proc[p].leaf = keygenCa.leaf
        /\ \A x \in payloads : x.leaf # None => x.leaf = keygenCa.leaf
        /\ agent.state = "ready" => agent.leaf = keygenCa.leaf

\* A redeeming request past its conditional update holds the token alone, and
\* has not yet made a payload of it.
Past(r) == r.op = "redeem" /\ r.at # "claim"

Claims ==
    /\ \A t \in Token : token[t].state # "free" => token[t].node \in Node
    /\ \A p \in Proc : proc[p].op = "redeem" =>
           /\ token[proc[p].token].state # "free"
           /\ token[proc[p].token].node = proc[p].node
    /\ \A p \in Proc : Past(proc[p]) =>
           token[proc[p].token].state = "consumed" /\ uses[proc[p].token] = 0
    /\ \A p, q \in Proc : p # q /\ Past(proc[p]) /\ Past(proc[q]) =>
           proc[p].token # proc[q].token
    /\ \A t \in Token : uses[t] <= 1 /\ (token[t].state # "consumed" => uses[t] = 0)
    /\ \A x \in payloads : x.token # None =>
           token[x.token].node = x.node /\ token[x.token].state = "consumed"

\* A consumed token is in the hands of somebody, or something went wrong.
Causes ==
    /\ agent.state = "rejected" => mishaps \cap {"caRace", "db"} # {}
    /\ \A t \in Token : token[t].state = "consumed" =>
           \/ \E x \in payloads : x.token = t
           \/ \E p \in Proc : Past(proc[p]) /\ proc[p].token = t
           \/ mishaps # {}

\* A host was installed from a payload of a node that had been created; 410 is
\* the answer to a deleted node only, and a node is deleted for good.
Homes ==
    /\ \A p \in Proc : proc[p].node # None => nodeRow[proc[p].node] # "absent"
    /\ \A x \in payloads : nodeRow[x.node] # "absent"
    /\ \A n \in Node : host[n].state # "absent" => nodeRow[n] # "absent"
    /\ \A n \in Node : host[n].state = "stopped" \/ host[n].gone > 0 \/ answer[n] = "gone" =>
           nodeRow[n] = "deleted"

IInv == TypeOK /\ AllFormed /\ OneCa /\ OneLeaf /\ Claims /\ Causes /\ Homes

-----------------------------------------------------------------------------
\* Request p becomes a request of these fields; the others stay.
Becomes(p, op, at, node, tok, ca, leaf) ==
    /\ proc' \in [Proc -> Request]
    /\ \A q \in Proc : q # p => proc'[q] = proc[q]
    /\ proc'[p] = [op |-> op, at |-> at, node |-> node, token |-> tok, ca |-> ca, leaf |-> leaf]

LEMMA IdleType == Idle \in Request
BY DEF Idle, Request, Step

LEMMA ProcType == ASSUME TypeOK PROVE proc \in [Proc -> Request]
BY DEF TypeOK, Request

LEMMA Replaces ==
    ASSUME TypeOK, NEW p \in Proc, NEW r \in Request, proc' = [proc EXCEPT ![p] = r]
    PROVE  Becomes(p, r.op, r.at, r.node, r.token, r.ca, r.leaf)
<1>1. proc \in [Proc -> Request]
  BY ProcType
<1>2. r = [op |-> r.op, at |-> r.at, node |-> r.node, token |-> r.token, ca |-> r.ca,
           leaf |-> r.leaf]
  BY DEF Request
<1>. QED
  BY <1>1, <1>2 DEF Becomes

LEMMA GoBecomes ==
    ASSUME TypeOK, NEW p \in Proc, NEW at \in Step, Go(p, at)
    PROVE  Becomes(p, proc[p].op, at, proc[p].node, proc[p].token, proc[p].ca, proc[p].leaf)
<1>. DEFINE r == [proc[p] EXCEPT !.at = at]
<1>1. proc[p] \in Request
  BY ProcType
<1>2. /\ r \in Request
      /\ r.op = proc[p].op /\ r.at = at /\ r.node = proc[p].node
      /\ r.token = proc[p].token /\ r.ca = proc[p].ca /\ r.leaf = proc[p].leaf
  BY <1>1 DEF Request
<1>3. proc' = [proc EXCEPT ![p] = r]
  BY DEF Go
<1>. HIDE DEF r
<1>4. Becomes(p, r.op, r.at, r.node, r.token, r.ca, r.leaf)
  BY <1>2, <1>3, Replaces
<1>. QED
  BY <1>2, <1>4

LEMMA HasCaBecomes ==
    ASSUME TypeOK, NEW p \in Proc, NEW ca \in Proc \cup {None, Registered}, HasCa(p, ca)
    PROVE  Becomes(p, proc[p].op, AfterCa(p), proc[p].node, proc[p].token, ca, proc[p].leaf)
<1>. DEFINE r == [proc[p] EXCEPT !.ca = ca, !.at = AfterCa(p)]
<1>1. proc[p] \in Request
  BY ProcType
<1>2. AfterCa(p) \in Step
  BY DEF AfterCa, Step
<1>3. /\ r \in Request
      /\ r.op = proc[p].op /\ r.at = AfterCa(p) /\ r.node = proc[p].node
      /\ r.token = proc[p].token /\ r.ca = ca /\ r.leaf = proc[p].leaf
  BY <1>1, <1>2 DEF Request
<1>4. proc' = [proc EXCEPT ![p] = r]
  BY <1>1, ProcType DEF HasCa
<1>. HIDE DEF r
<1>5. Becomes(p, r.op, r.at, r.node, r.token, r.ca, r.leaf)
  BY <1>3, <1>4, Replaces
<1>. QED
  BY <1>3, <1>5

LEMMA HasLeafBecomes ==
    ASSUME TypeOK, NEW p \in Proc, NEW leaf \in Proc \cup {None}, HasLeaf(p, leaf)
    PROVE  Becomes(p, proc[p].op, "reply", proc[p].node, proc[p].token, proc[p].ca, leaf)
<1>. DEFINE r == [proc[p] EXCEPT !.leaf = leaf, !.at = "reply"]
<1>1. proc[p] \in Request
  BY ProcType
<1>3. /\ r \in Request
      /\ r.op = proc[p].op /\ r.at = "reply" /\ r.node = proc[p].node
      /\ r.token = proc[p].token /\ r.ca = proc[p].ca /\ r.leaf = leaf
  BY <1>1 DEF Request, Step
<1>4. proc' = [proc EXCEPT ![p] = r]
  BY <1>1, ProcType DEF HasLeaf
<1>. HIDE DEF r
<1>5. Becomes(p, r.op, r.at, r.node, r.token, r.ca, r.leaf)
  BY <1>3, <1>4, Replaces
<1>. QED
  BY <1>3, <1>5

LEMMA DoneBecomes ==
    ASSUME TypeOK, NEW p \in Proc, Done(p)
    PROVE  Becomes(p, "none", "idle", None, None, None, None)
<1>1. proc' = [proc EXCEPT ![p] = Idle]
  BY DEF Done
<1>. QED
  BY <1>1, IdleType, Replaces DEF Idle

LEMMA BeginBecomes ==
    ASSUME TypeOK, NEW p \in Proc, NEW op \in {"create", "refresh", "redeem", "call"},
           NEW at \in Step, NEW n \in Node \cup {None}, NEW t \in Token \cup {None},
           Begin(p, op, at, n, t)
    PROVE  Becomes(p, op, at, n, t, None, None) /\ proc[p].at = "idle"
<1>. DEFINE r == [Idle EXCEPT !.op = op, !.at = at, !.node = n, !.token = t]
<1>3. /\ r \in Request
      /\ r.op = op /\ r.at = at /\ r.node = n
      /\ r.token = t /\ r.ca = None /\ r.leaf = None
  BY DEF Idle, Request
<1>4. proc' = [proc EXCEPT ![p] = r] /\ proc[p].at = "idle"
  BY DEF Begin, Busy
<1>. HIDE DEF r
<1>5. Becomes(p, r.op, r.at, r.node, r.token, r.ca, r.leaf)
  BY <1>3, <1>4, Replaces
<1>. QED
  BY <1>3, <1>4, <1>5

-----------------------------------------------------------------------------
\* What request p may become while nothing but its own place changes.
MayBecome(p, r) ==
    /\ Formed(r)
    /\ HoldsCa(r) => keygenCa.ca # None /\ r.ca = keygenCa.ca
    /\ keygenCa.ca # Registered => /\ r.at # "newLeaf"
                                   /\ r.at = "reply" => r.leaf = keygenCa.leaf
    /\ r.op = "redeem" => token[r.token].state # "free" /\ token[r.token].node = r.node
    /\ Past(r) => Past(proc[p]) /\ r.token = proc[p].token
    /\ Past(proc[p]) => Past(r)
    /\ r.node # None => nodeRow[r.node] # "absent"

LEMMA OnlyProc ==
    ASSUME IInv, NEW p \in Proc, NEW op, NEW at, NEW node, NEW tok, NEW ca, NEW leaf,
           Becomes(p, op, at, node, tok, ca, leaf),
           MayBecome(p, [op |-> op, at |-> at, node |-> node, token |-> tok, ca |-> ca, leaf |-> leaf]),
           UNCHANGED <<nodeRow, token, keygenCa, agent, payloads, hostVars, uses, mishaps>>
    PROVE  IInv'
<1>. USE DEF IInv
<1>1. UNCHANGED <<nodeRow, token, keygenCa, agent, payloads, host, answer, restarts, uses, mishaps>>
  BY DEF hostVars
<1>. DEFINE r == [op |-> op, at |-> at, node |-> node, token |-> tok, ca |-> ca, leaf |-> leaf]
<1>2. /\ proc' \in [Proc -> Request]
      /\ \A q \in Proc : q # p => proc'[q] = proc[q]
      /\ proc'[p] = r
  BY DEF Becomes
<1>3. MayBecome(p, r)
  OBVIOUS
<1>. HIDE DEF r
<1>4. TypeOK'
  BY <1>1, <1>2 DEF TypeOK, Request
<1>5. AllFormed'
  BY <1>2, <1>3 DEF AllFormed, MayBecome
<1>6. OneCa'
  BY <1>1, <1>2, <1>3 DEF OneCa, MayBecome
<1>7. OneLeaf'
  BY <1>1, <1>2, <1>3 DEF OneLeaf, MayBecome
<1>8. Claims'
  BY <1>1, <1>2, <1>3 DEF Claims, MayBecome, Past
<1>9. Causes'
  BY <1>1, <1>2, <1>3 DEF Causes, MayBecome
<1>10. Homes'
  BY <1>1, <1>2, <1>3 DEF Homes, MayBecome
<1>. QED
  BY <1>4, <1>5, <1>6, <1>7, <1>8, <1>9, <1>10

LEMMA FindCaStep == ASSUME IInv, NEW p \in Proc, FindCa(p) PROVE IInv'
<1>. USE DEF IInv
<1>1. /\ proc[p].at = "ca"
      /\ UNCHANGED <<nodeRow, token, keygenCa, agent, payloads, hostVars, uses, mishaps>>
  BY DEF FindCa
<1>2. proc[p] \in Request /\ Formed(proc[p])
  BY ProcType DEF AllFormed
<1>3. CASE keygenCa.ca # None
  <2>1. Becomes(p, proc[p].op, AfterCa(p), proc[p].node, proc[p].token, keygenCa.ca, proc[p].leaf)
    BY <1>3, HasCaBecomes DEF FindCa, TypeOK, Ca
  <2>2. MayBecome(p, [op |-> proc[p].op, at |-> AfterCa(p), node |-> proc[p].node,
                      token |-> proc[p].token, ca |-> keygenCa.ca, leaf |-> proc[p].leaf])
    BY <1>1, <1>2, <1>3 DEF MayBecome, Formed, HoldsCa, Past, AfterCa, Claims, Homes
  <2>. QED
    BY <1>1, <2>1, <2>2, OnlyProc
<1>4. CASE keygenCa.ca = None
  <2>1. Becomes(p, proc[p].op, "newCa", proc[p].node, proc[p].token, proc[p].ca, proc[p].leaf)
    BY <1>4, GoBecomes DEF FindCa, Step
  <2>2. MayBecome(p, [op |-> proc[p].op, at |-> "newCa", node |-> proc[p].node,
                      token |-> proc[p].token, ca |-> proc[p].ca, leaf |-> proc[p].leaf])
    BY <1>1, <1>2 DEF MayBecome, Formed, HoldsCa, Past, Claims, Homes
  <2>. QED
    BY <1>1, <2>1, <2>2, OnlyProc
<1>. QED
  BY <1>3, <1>4

LEMMA FindLeafStep == ASSUME IInv, NEW p \in Proc, FindLeaf(p) PROVE IInv'
<1>. USE DEF IInv
<1>1. /\ proc[p].at = "leaf"
      /\ UNCHANGED <<nodeRow, token, keygenCa, agent, payloads, hostVars, uses, mishaps>>
  BY DEF FindLeaf
<1>2. /\ proc[p] \in Request /\ Formed(proc[p])
      /\ keygenCa.ca # None /\ proc[p].ca = keygenCa.ca
  BY <1>1, ProcType DEF AllFormed, OneCa, HoldsCa
<1>3. CASE keygenCa.leaf # None
  <2>1. Becomes(p, proc[p].op, "reply", proc[p].node, proc[p].token, proc[p].ca, keygenCa.leaf)
    BY <1>3, HasLeafBecomes DEF FindLeaf, TypeOK, Ca
  <2>2. MayBecome(p, [op |-> proc[p].op, at |-> "reply", node |-> proc[p].node,
                      token |-> proc[p].token, ca |-> proc[p].ca, leaf |-> keygenCa.leaf])
    BY <1>1, <1>2 DEF MayBecome, Formed, HoldsCa, Past, Claims, Homes
  <2>. QED
    BY <1>1, <2>1, <2>2, OnlyProc
<1>4. CASE keygenCa.leaf = None
  <2>1. Becomes(p, proc[p].op, "newLeaf", proc[p].node, proc[p].token, proc[p].ca, proc[p].leaf)
    BY <1>4, GoBecomes DEF FindLeaf, Step
  <2>2. MayBecome(p, [op |-> proc[p].op, at |-> "newLeaf", node |-> proc[p].node,
                      token |-> proc[p].token, ca |-> proc[p].ca, leaf |-> proc[p].leaf])
    BY <1>1, <1>2, <1>4 DEF MayBecome, Formed, HoldsCa, Past, Claims, Homes, OneLeaf
  <2>. QED
    BY <1>1, <2>1, <2>2, OnlyProc
<1>. QED
  BY <1>3, <1>4

LEMMA RefreshBootstrapStep ==
    ASSUME IInv, NEW p \in Proc, NEW n \in Node, RefreshBootstrap(p, n) PROVE IInv'
<1>1. /\ nodeRow[n] = "active" /\ Begin(p, "refresh", "token", n, None)
      /\ UNCHANGED <<nodeRow, token, keygenCa, agent, payloads, hostVars, uses, mishaps>>
  BY DEF RefreshBootstrap, Wanted
<1>2. Becomes(p, "refresh", "token", n, None, None, None) /\ proc[p].at = "idle"
  BY <1>1, BeginBecomes DEF IInv, Step
<1>3. Formed(proc[p])
  BY DEF IInv, AllFormed
<1>4. MayBecome(p, [op |-> "refresh", at |-> "token", node |-> n, token |-> None,
                    ca |-> None, leaf |-> None])
  BY <1>1, <1>2, <1>3 DEF MayBecome, Formed, HoldsCa, Past
<1>. QED
  BY <1>1, <1>2, <1>4, OnlyProc

LEMMA RedeemFindStep ==
    ASSUME IInv, NEW p \in Proc, NEW t \in Token, RedeemFind(p, t) PROVE IInv'
<1>. DEFINE n == token[t].node
<1>1. /\ token[t].state = "fresh" /\ nodeRow[n] = "active"
      /\ Begin(p, "redeem", "claim", n, t)
      /\ UNCHANGED <<nodeRow, token, keygenCa, agent, payloads, hostVars, uses, mishaps>>
  BY DEF RedeemFind, Wanted
<1>2. n \in Node
  BY <1>1 DEF IInv, Claims
<1>. HIDE DEF n
<1>3. Becomes(p, "redeem", "claim", n, t, None, None) /\ proc[p].at = "idle"
  BY <1>1, <1>2, BeginBecomes DEF IInv, Step
<1>4. Formed(proc[p])
  BY DEF IInv, AllFormed
<1>5. MayBecome(p, [op |-> "redeem", at |-> "claim", node |-> n, token |-> t,
                    ca |-> None, leaf |-> None])
  BY <1>1, <1>2, <1>3, <1>4 DEF MayBecome, Formed, HoldsCa, Past, n
<1>. QED
  BY <1>1, <1>3, <1>5, OnlyProc

\* The leaf of an authority that has one is never made anew.
LEMMA BackfillLeafStep == ASSUME IInv, NEW p \in Proc, BackfillLeaf(p) PROVE IInv'
<1>. USE DEF IInv
<1>1. /\ proc[p].at = "newLeaf" /\ keygenCa' = [keygenCa EXCEPT !.leaf = p]
      /\ HasLeaf(p, p)
      /\ UNCHANGED <<nodeRow, token, agent, payloads, host, answer, restarts, uses, mishaps>>
  BY DEF BackfillLeaf, generatePanelClientCert, hostVars
<1>2. /\ proc[p] \in Request /\ Formed(proc[p])
      /\ keygenCa.ca # None /\ proc[p].ca = keygenCa.ca /\ keygenCa.ca = Registered
  BY <1>1, ProcType DEF AllFormed, OneCa, HoldsCa, OneLeaf
<1>3. keygenCa' \in Ca /\ keygenCa'.ca = keygenCa.ca
  BY <1>1 DEF TypeOK, Ca
<1>4. Becomes(p, proc[p].op, "reply", proc[p].node, proc[p].token, proc[p].ca, p)
  BY <1>1, HasLeafBecomes
<1>5. TypeOK'
  BY <1>1, <1>3, <1>4 DEF TypeOK, Becomes, Request
<1>6. AllFormed'
  BY <1>1, <1>2, <1>4 DEF AllFormed, Becomes, Formed
<1>7. OneCa'
  BY <1>1, <1>2, <1>3, <1>4 DEF OneCa, Becomes, HoldsCa
<1>8. OneLeaf'
  BY <1>2, <1>3 DEF OneLeaf
<1>9. Claims'
  BY <1>1, <1>2, <1>4 DEF Claims, Becomes, Past
<1>10. Causes'
  BY <1>1, <1>2, <1>4 DEF Causes, Becomes, Past
<1>11. Homes'
  BY <1>1, <1>4 DEF Homes, Becomes
<1>. QED
  BY <1>5, <1>6, <1>7, <1>8, <1>9, <1>10, <1>11

\* A request that ends with an error, or the first call that fails for good.
LEMMA ThrowsStep ==
    ASSUME IInv, NEW p \in Proc, NEW why \in {"caRace", "db"}, Throws(p, why),
           UNCHANGED <<nodeRow, token, keygenCa, payloads, hostVars, uses>>
    PROVE  IInv'
<1>. USE DEF IInv
<1>1. /\ UNCHANGED <<nodeRow, token, keygenCa, payloads, host, answer, restarts, uses>>
      /\ mishaps' = mishaps \cup {why}
  BY DEF Throws, hostVars
<1>2. Becomes(p, "none", "idle", None, None, None, None)
  BY DoneBecomes DEF Throws
<1>3. agent' = agent \/ agent' = [agent EXCEPT !.state = "rejected"]
  BY DEF Throws
<1>4. /\ agent' \in [state : {"none", "pending", "ready", "rejected"},
                     ca : Proc \cup {None, Registered}, leaf : Proc \cup {None}]
      /\ agent'.state = "ready" => agent' = agent
  BY <1>3 DEF TypeOK
<1>5. TypeOK'
  BY <1>1, <1>2, <1>4 DEF TypeOK, Becomes, Request
<1>6. AllFormed'
  BY <1>2 DEF AllFormed, Becomes, Formed, Idle
<1>7. OneCa'
  BY <1>1, <1>2, <1>4 DEF OneCa, Becomes, HoldsCa
<1>8. OneLeaf'
  BY <1>1, <1>2, <1>4 DEF OneLeaf, Becomes
<1>9. Claims'
  BY <1>1, <1>2 DEF Claims, Becomes, Past
<1>10. Causes'
  BY <1>1 DEF Causes
<1>11. Homes'
  BY <1>1, <1>2 DEF Homes, Becomes
<1>. QED
  BY <1>5, <1>6, <1>7, <1>8, <1>9, <1>10, <1>11

\* The authority is made once: while there is none, nothing was handed out.
LEMMA CreateCaStep == ASSUME IInv, NEW p \in Proc, CreateCa(p) PROVE IInv'
<1>. USE DEF IInv
<1>1. CASE keygenCa # NoCa
  <2>1. Throws(p, "caRace") /\ UNCHANGED <<nodeRow, token, keygenCa, payloads, hostVars, uses>>
    BY <1>1 DEF CreateCa
  <2>. QED
    BY <2>1, ThrowsStep
<1>2. CASE keygenCa = NoCa
  <2>1. /\ proc[p].at = "newCa" /\ keygenCa' = [ca |-> p, leaf |-> p]
        /\ HasCa(p, p)
        /\ UNCHANGED <<nodeRow, token, agent, payloads, host, answer, restarts, uses, mishaps>>
    BY <1>2 DEF CreateCa, generateCa, generatePanelClientCert, hostVars
  <2>2. proc[p] \in Request /\ Formed(proc[p])
    BY ProcType DEF AllFormed
  <2>3. /\ keygenCa' \in Ca /\ keygenCa'.ca = p /\ keygenCa'.leaf = p /\ p # None
        /\ keygenCa.ca = None
    BY <1>2, <2>1, LifecycleAssumption DEF Ca, NoCa
  <2>4. Becomes(p, proc[p].op, AfterCa(p), proc[p].node, proc[p].token, p, proc[p].leaf)
    BY <2>1, HasCaBecomes
  <2>5. TypeOK'
    BY <2>1, <2>3, <2>4 DEF TypeOK, Becomes, Request
  <2>6. AllFormed'
    BY <2>1, <2>2, <2>4 DEF AllFormed, Becomes, Formed, AfterCa
  <2>7. OneCa'
    BY <2>1, <2>2, <2>3, <2>4 DEF OneCa, Becomes, HoldsCa
  <2>8. OneLeaf'
    BY <2>1, <2>2, <2>3, <2>4 DEF OneLeaf, OneCa, HoldsCa, Becomes, AfterCa
  <2>9. Claims'
    BY <2>1, <2>2, <2>4 DEF Claims, Becomes, Past, AfterCa
  <2>10. Causes'
    BY <2>1, <2>2, <2>4 DEF Causes, Becomes, Past, AfterCa
  <2>11. Homes'
    BY <2>1, <2>4 DEF Homes, Becomes
  <2>. QED
    BY <2>5, <2>6, <2>7, <2>8, <2>9, <2>10, <2>11
<1>. QED
  BY <1>1, <1>2

LEMMA CreateNodeStep ==
    ASSUME IInv, NEW p \in Proc, NEW n \in Node, CreateNode(p, n) PROVE IInv'
<1>. USE DEF IInv
<1>1. /\ nodeRow[n] = "absent" /\ nodeRow' = [nodeRow EXCEPT ![n] = "active"]
      /\ Begin(p, "create", "ca", n, None)
      /\ UNCHANGED <<token, keygenCa, agent, payloads, host, answer, restarts, uses, mishaps>>
  BY DEF CreateNode, hostVars
<1>2. Becomes(p, "create", "ca", n, None, None, None) /\ proc[p].at = "idle"
  BY <1>1, BeginBecomes DEF Step
<1>3. Formed(proc[p])
  BY DEF AllFormed
<1>4. TypeOK'
  BY <1>1, <1>2 DEF TypeOK, Becomes, Request
<1>5. AllFormed'
  BY <1>2 DEF AllFormed, Becomes, Formed
<1>6. OneCa'
  BY <1>1, <1>2 DEF OneCa, Becomes, HoldsCa
<1>7. OneLeaf'
  BY <1>1, <1>2 DEF OneLeaf, Becomes
<1>8. Claims'
  BY <1>1, <1>2 DEF Claims, Becomes, Past
<1>9. Causes'
  BY <1>1, <1>2, <1>3 DEF Causes, Becomes, Past, Formed, Idle
<1>10. Homes'
  BY <1>1, <1>2 DEF Homes, Becomes, TypeOK, Request, Payload
<1>. QED
  BY <1>4, <1>5, <1>6, <1>7, <1>8, <1>9, <1>10

LEMMA IssueBootstrapTokenStep ==
    ASSUME IInv, NEW p \in Proc, NEW t \in Token, IssueBootstrapToken(p, t) PROVE IInv'
<1>. USE DEF IInv
<1>. DEFINE x == NodePayload(proc[p].node, None, proc[p].ca, None)
<1>1. /\ proc[p].at = "token" /\ token[t].state = "free"
      /\ token' = [token EXCEPT ![t] = [node |-> proc[p].node, state |-> "fresh"]]
      /\ Done(p)
      /\ UNCHANGED <<nodeRow, keygenCa, agent, host, answer, restarts, uses, mishaps>>
  BY DEF IssueBootstrapToken, hostVars
<1>2. proc[p] \in Request /\ Formed(proc[p])
  BY ProcType DEF AllFormed
<1>3. Becomes(p, "none", "idle", None, None, None, None)
  BY <1>1, DoneBecomes
<1>4. /\ proc[p].node \in Node /\ proc[p].op \in {"create", "refresh"}
      /\ proc[p].op = "create" => keygenCa.ca # None /\ proc[p].ca = keygenCa.ca
  BY <1>1, <1>2 DEF Formed, Idle, OneCa, HoldsCa, Request
<1>5. /\ payloads' \subseteq Payload
      /\ \A y \in payloads' : y \in payloads \/ /\ y.node = proc[p].node /\ y.token = None
                                                /\ y.leaf = None /\ keygenCa.ca # None
                                                /\ y.ca = keygenCa.ca
      /\ payloads \subseteq payloads'
  <2>1. CASE proc[p].op = "create"
    <3>1. payloads' = payloads \cup {x} /\ x.node = proc[p].node /\ x.token = None
          /\ x.leaf = None /\ x.ca = proc[p].ca
      BY <2>1 DEF IssueBootstrapToken, NodePayload
    <3>2. x \in Payload
      BY <1>2, <1>4, <2>1 DEF Payload, NodePayload, Request
    <3>. HIDE DEF x
    <3>. QED
      BY <1>4, <2>1, <3>1, <3>2 DEF TypeOK
  <2>2. CASE proc[p].op # "create"
    BY <2>2 DEF IssueBootstrapToken, TypeOK
  <2>. QED
    BY <2>1, <2>2
<1>6. /\ token' \in [Token -> [node : Node \cup {None}, state : TokenState]]
      /\ token'[t].node \in Node /\ token'[t].state = "fresh"
      /\ \A u \in Token : u # t => token'[u] = token[u]
  BY <1>1, <1>4 DEF TypeOK, TokenState
<1>7. TypeOK'
  BY <1>1, <1>3, <1>5, <1>6 DEF TypeOK, Becomes, Request
<1>8. AllFormed'
  BY <1>3 DEF AllFormed, Becomes, Formed, Idle
<1>9. OneCa'
  BY <1>1, <1>3, <1>5 DEF OneCa, Becomes, HoldsCa
<1>10. OneLeaf'
  BY <1>1, <1>3, <1>5 DEF OneLeaf, Becomes
<1>11. Claims'
  <2>1. /\ \A q \in Proc : q # p => proc'[q] = proc[q]
        /\ proc'[p].op = "none" /\ proc'[p].at = "idle"
    BY <1>3 DEF Becomes
  <2>2. \A q \in Proc : proc'[q].op = "redeem" =>
           /\ q # p /\ proc'[q] = proc[q] /\ proc[q].token \in Token
           /\ token[proc[q].token].state # "free"
    BY <2>1 DEF AllFormed, Formed, Claims
  <2>3. \A q \in Proc : proc'[q].op = "redeem" =>
           proc'[q] = proc[q] /\ token'[proc[q].token] = token[proc[q].token]
    BY <1>1, <1>6, <2>2
  <2>4. \A y \in payloads' : y.token # None =>
           y \in payloads /\ token'[y.token] = token[y.token]
    <3>. SUFFICES ASSUME NEW y \in payloads', y.token # None
                  PROVE  y \in payloads /\ token'[y.token] = token[y.token]
      OBVIOUS
    <3>1. y \in payloads
      BY <1>5
    <3>2. y.token \in Token /\ token[y.token].state = "consumed"
      BY <3>1 DEF TypeOK, Payload, Claims
    <3>. QED
      BY <1>1, <1>6, <3>1, <3>2
  <2>5. \A u \in Token : token'[u].state # "free" => token'[u].node \in Node
    BY <1>6 DEF Claims
  <2>6. \A u \in Token : uses'[u] <= 1 /\ (token'[u].state # "consumed" => uses'[u] = 0)
    BY <1>1, <1>6 DEF Claims
  <2>7. \A q \in Proc : Past(proc'[q]) =>
           q # p /\ proc'[q] = proc[q] /\ token'[proc[q].token] = token[proc[q].token]
    BY <2>2, <2>3 DEF Past
  <2>8. \A q \in Proc : Past(proc'[q]) =>
           token'[proc'[q].token].state = "consumed" /\ uses'[proc'[q].token] = 0
    BY <1>1, <2>7 DEF Claims
  <2>9. \A q, r \in Proc : q # r /\ Past(proc'[q]) /\ Past(proc'[r]) =>
           proc'[q].token # proc'[r].token
    BY <2>7 DEF Claims
  <2>. QED
    BY <2>3, <2>2, <2>4, <2>5, <2>6, <2>8, <2>9 DEF Claims, Past
<1>12. Causes'
  BY <1>1, <1>3, <1>4, <1>5, <1>6 DEF Causes, Becomes, Past
<1>13. Homes'
  BY <1>1, <1>3, <1>4, <1>5, LifecycleAssumption DEF Homes, Becomes
<1>. QED
  BY <1>7, <1>8, <1>9, <1>10, <1>11, <1>12, <1>13

\* The conditional update: one request takes the token, the others leave.
LEMMA RedeemClaimStep == ASSUME IInv, NEW p \in Proc, RedeemClaim(p) PROVE IInv'
<1>. USE DEF IInv
<1>. DEFINE t == proc[p].token
<1>1. /\ proc[p].at = "claim"
      /\ UNCHANGED <<nodeRow, keygenCa, agent, payloads, hostVars, uses, mishaps>>
      /\ UNCHANGED <<host, answer, restarts>>
  BY DEF RedeemClaim, hostVars
<1>2. proc[p] \in Request /\ Formed(proc[p])
  BY ProcType DEF AllFormed
<1>3. /\ proc[p].op = "redeem" /\ t \in Token /\ proc[p].node \in Node
      /\ token[t].state # "free" /\ token[t].node = proc[p].node
  BY <1>1, <1>2 DEF Formed, Idle, Claims, Request
<1>4. CASE token[t].state = "consumed"
  <2>1. Done(p) /\ token' = token
    BY <1>4 DEF RedeemClaim
  <2>2. Becomes(p, "none", "idle", None, None, None, None)
    BY <2>1, DoneBecomes
  <2>3. MayBecome(p, [op |-> "none", at |-> "idle", node |-> None, token |-> None,
                      ca |-> None, leaf |-> None])
    BY <1>1 DEF MayBecome, Formed, HoldsCa, Past, Idle
  <2>. QED
    BY <1>1, <2>1, <2>2, <2>3, OnlyProc
<1>5. CASE token[t].state # "consumed"
  <2>1. token' = [token EXCEPT ![t].state = "consumed"] /\ Go(p, "ca")
    BY <1>5 DEF RedeemClaim
  <2>2. Becomes(p, proc[p].op, "ca", proc[p].node, t, proc[p].ca, proc[p].leaf)
    BY <2>1, GoBecomes DEF Step
  <2>3. /\ token' \in [Token -> [node : Node \cup {None}, state : TokenState]]
        /\ token'[t].node = token[t].node /\ token'[t].state = "consumed"
        /\ \A u \in Token : u # t => token'[u] = token[u]
    BY <1>3, <2>1 DEF TypeOK, TokenState
  <2>. HIDE DEF t
  <2>4. /\ proc' \in [Proc -> Request]
        /\ \A q \in Proc : q # p => proc'[q] = proc[q]
        /\ proc'[p].op = "redeem" /\ proc'[p].at = "ca" /\ proc'[p].token = t
        /\ proc'[p].node = proc[p].node
    BY <1>3, <2>2 DEF Becomes
  <2>5. TypeOK'
    BY <1>1, <2>3, <2>4 DEF TypeOK, Request
  <2>6. AllFormed'
    BY <1>2, <1>3, <2>4 DEF AllFormed, Formed
  <2>7. OneCa'
    BY <1>1, <2>4 DEF OneCa, HoldsCa
  <2>8. OneLeaf'
    BY <1>1, <2>4 DEF OneLeaf
  <2>9. Claims'
    <3>1. uses[t] = 0 /\ \A q \in Proc : Past(proc[q]) => proc[q].token # t
      BY <1>3, <1>5 DEF Claims, t
    <3>2. \A q \in Proc : proc[q].op = "redeem" => proc[q].token \in Token
      BY DEF AllFormed, Formed
    <3>3. \A x \in payloads : x.token # None => x.token \in Token /\ x.token # t
      BY <1>5 DEF Claims, TypeOK, Payload, t
    <3>4. /\ \A u \in Token : token'[u].state # "free" => token'[u].node \in Node
          /\ \A u \in Token : uses'[u] <= 1 /\ (token'[u].state # "consumed" => uses'[u] = 0)
      BY <1>1, <1>3, <2>3 DEF Claims, t
    <3>5. \A q \in Proc : proc'[q].op = "redeem" =>
             /\ token'[proc'[q].token].state # "free"
             /\ token'[proc'[q].token].node = proc'[q].node
      <4>. SUFFICES ASSUME NEW q \in Proc, proc'[q].op = "redeem"
                    PROVE  /\ token'[proc'[q].token].state # "free"
                           /\ token'[proc'[q].token].node = proc'[q].node
        OBVIOUS
      <4>1. CASE q = p
        BY <1>3, <2>3, <2>4, <4>1 DEF t
      <4>2. CASE q # p
        <5>1. /\ proc'[q] = proc[q] /\ proc[q].token \in Token
              /\ token[proc[q].token].state # "free" /\ token[proc[q].token].node = proc[q].node
          BY <2>4, <3>2, <4>2 DEF Claims
        <5>. QED
          BY <2>3, <5>1
      <4>. QED
        BY <4>1, <4>2
    <3>6. \A q \in Proc : Past(proc'[q]) =>
             token'[proc'[q].token].state = "consumed" /\ uses'[proc'[q].token] = 0
      BY <1>1, <2>3, <2>4, <3>1, <3>2 DEF Claims, Past
    <3>7. \A q, r \in Proc : q # r /\ Past(proc'[q]) /\ Past(proc'[r]) =>
             proc'[q].token # proc'[r].token
      BY <2>4, <3>1 DEF Claims
    <3>8. \A x \in payloads' : x.token # None =>
             token'[x.token].node = x.node /\ token'[x.token].state = "consumed"
      BY <1>1, <2>3, <3>3 DEF Claims
    <3>. QED
      BY <3>4, <3>5, <3>6, <3>7, <3>8 DEF Claims, Past
  <2>10. Causes'
    <3>1. \A q \in Proc : Past(proc[q]) => Past(proc'[q]) /\ proc'[q].token = proc[q].token
      BY <1>1, <2>4 DEF Past
    <3>2. Past(proc'[p]) /\ proc'[p].token = t
      BY <2>4 DEF Past
    <3>. QED
      BY <1>1, <2>3, <3>1, <3>2 DEF Causes, Past
  <2>11. Homes'
    BY <1>1, <2>4 DEF Homes
  <2>. QED
    BY <2>5, <2>6, <2>7, <2>8, <2>9, <2>10, <2>11
<1>. QED
  BY <1>4, <1>5

\* What Install does to the host of a payload that is well formed.
LEMMA InstallStep ==
    ASSUME TypeOK, NEW x \in Payload, Install(x)
    PROVE  /\ host' \in [Node -> [state : {"absent", "up", "stopped"},
                                  payload : Payload \cup {None}, gone : 0 .. GoneThreshold - 1]]
           /\ answer' \in [Node -> {"none", "active", "gone"}]
           /\ host'[x.node].state = "up" /\ host'[x.node].gone = 0
           /\ answer'[x.node] = "none"
           /\ \A n \in Node : n # x.node => host'[n] = host[n] /\ answer'[n] = answer[n]
<1>. DEFINE h == [state |-> "up", payload |-> x, gone |-> 0]
<1>1. x.node \in Node
  BY DEF Payload
<1>2. /\ h \in [state : {"absent", "up", "stopped"},
                payload : Payload \cup {None}, gone : 0 .. GoneThreshold - 1]
      /\ h.state = "up" /\ h.gone = 0
  BY LifecycleAssumption
<1>3. host' = [host EXCEPT ![x.node] = h] /\ answer' = [answer EXCEPT ![x.node] = "none"]
  BY DEF Install
<1>. HIDE DEF h
<1>. QED
  BY <1>1, <1>2, <1>3 DEF TypeOK

\* The payload of a claimed token: the request that claimed it is the only one.
LEMMA RedeemReplyStep == ASSUME IInv, NEW p \in Proc, RedeemReply(p) PROVE IInv'
<1>. USE DEF IInv
<1>. DEFINE x == NodePayload(proc[p].node, proc[p].token, proc[p].ca, proc[p].leaf)
            t == proc[p].token
<1>1. /\ proc[p].at = "reply" /\ proc[p].op = "redeem"
      /\ payloads' = payloads \cup {x}
      /\ uses' = [uses EXCEPT ![t] = @ + 1]
      /\ Install(x) \/ UNCHANGED <<host, answer>>
      /\ Done(p)
      /\ UNCHANGED <<nodeRow, token, keygenCa, agent, restarts, mishaps>>
  BY DEF RedeemReply
<1>2. proc[p] \in Request /\ Formed(proc[p])
  BY ProcType DEF AllFormed
<1>3. /\ t \in Token /\ proc[p].node \in Node /\ Past(proc[p])
      /\ token[t].state = "consumed" /\ token[t].node = proc[p].node /\ uses[t] = 0
      /\ keygenCa.ca # None /\ proc[p].ca = keygenCa.ca
      /\ nodeRow[proc[p].node] # "absent"
  BY <1>1, <1>2, LifecycleAssumption DEF Formed, Claims, Past, OneCa, HoldsCa, Homes
<1>4. /\ x.node = proc[p].node /\ x.token = t /\ x.ca = keygenCa.ca /\ x.leaf = proc[p].leaf
      /\ x \in Payload
  BY <1>2, <1>3 DEF NodePayload, Payload, Request
<1>. HIDE DEF x, t
<1>5. Becomes(p, "none", "idle", None, None, None, None)
  BY <1>1, DoneBecomes
<1>6. /\ proc' \in [Proc -> Request]
      /\ \A q \in Proc : q # p => proc'[q] = proc[q]
      /\ proc'[p].op = "none" /\ proc'[p].at = "idle" /\ proc'[p].node = None
  BY <1>5 DEF Becomes
<1>7. /\ uses' \in [Token -> Nat] /\ uses'[t] = 1
      /\ \A u \in Token : u # t => uses'[u] = uses[u]
  BY <1>1, <1>3 DEF TypeOK
<1>8. TypeOK'
  BY <1>1, <1>4, <1>6, <1>7, InstallStep DEF TypeOK, Request
<1>9. AllFormed'
  BY <1>5 DEF AllFormed, Becomes, Formed, Idle
<1>10. OneCa'
  BY <1>1, <1>3, <1>4, <1>6 DEF OneCa, HoldsCa
<1>11. OneLeaf'
  BY <1>1, <1>4, <1>6 DEF OneLeaf
<1>12. Claims'
  <2>1. \A q \in Proc : Past(proc'[q]) =>
           /\ q # p /\ proc'[q] = proc[q] /\ proc[q].token # t /\ proc[q].token \in Token
    BY <1>3, <1>6 DEF Claims, Past, AllFormed, Formed, t
  <2>2. \A q \in Proc : Past(proc'[q]) =>
           token'[proc'[q].token].state = "consumed" /\ uses'[proc'[q].token] = 0
    BY <1>1, <1>7, <2>1 DEF Claims
  <2>3. \A q, r \in Proc : q # r /\ Past(proc'[q]) /\ Past(proc'[r]) =>
           proc'[q].token # proc'[r].token
    BY <2>1 DEF Claims
  <2>4. \A q \in Proc : proc'[q].op = "redeem" =>
           /\ token'[proc'[q].token].state # "free"
           /\ token'[proc'[q].token].node = proc'[q].node
    BY <1>1, <1>6 DEF Claims
  <2>5. /\ \A u \in Token : token'[u].state # "free" => token'[u].node \in Node
        /\ \A u \in Token : uses'[u] <= 1 /\ (token'[u].state # "consumed" => uses'[u] = 0)
    BY <1>1, <1>3, <1>7 DEF Claims
  <2>6. \A y \in payloads' : y.token # None =>
           token'[y.token].node = y.node /\ token'[y.token].state = "consumed"
    BY <1>1, <1>3, <1>4 DEF Claims
  <2>. QED
    BY <2>2, <2>3, <2>4, <2>5, <2>6 DEF Claims, Past
<1>13. Causes'
  <2>1. x \in payloads' /\ x.token = t /\ payloads \subseteq payloads'
    BY <1>1, <1>4
  <2>2. \A q \in Proc : Past(proc[q]) /\ proc[q].token # t => Past(proc'[q]) /\ proc'[q] = proc[q]
    BY <1>6 DEF t
  <2>. QED
    BY <1>1, <2>1, <2>2 DEF Causes, Past
<1>14. Homes'
  BY <1>1, <1>3, <1>4, <1>6, InstallStep DEF Homes
<1>. QED
  BY <1>8, <1>9, <1>10, <1>11, <1>12, <1>13, <1>14

LEMMA PastePayloadStep ==
    ASSUME IInv, NEW x \in payloads, PastePayload(x) PROVE IInv'
<1>. USE DEF IInv
<1>1. /\ x \in Payload /\ Install(x) /\ nodeRow[x.node] # "absent"
      /\ UNCHANGED <<nodeRow, token, keygenCa, proc, agent, payloads, restarts, uses, mishaps>>
  BY DEF PastePayload, TypeOK, Homes
<1>2. TypeOK'
  BY <1>1, InstallStep DEF TypeOK
<1>3. AllFormed' /\ OneCa' /\ OneLeaf' /\ Claims' /\ Causes'
  BY <1>1 DEF AllFormed, OneCa, OneLeaf, Claims, Causes
<1>4. Homes'
  BY <1>1, InstallStep DEF Homes
<1>. QED
  BY <1>2, <1>3, <1>4

LEMMA BuildAgentStep == ASSUME IInv, NEW p \in Proc, BuildAgent(p) PROVE IInv'
<1>. USE DEF IInv
<1>1. /\ agent' = [agent EXCEPT !.state = "pending"]
      /\ Begin(p, "call", "ca", None, None)
      /\ UNCHANGED <<nodeRow, token, keygenCa, payloads, host, answer, restarts, uses, mishaps>>
  BY DEF BuildAgent, hostVars
<1>2. Becomes(p, "call", "ca", None, None, None, None) /\ proc[p].at = "idle"
  BY <1>1, BeginBecomes DEF Step
<1>3. Formed(proc[p]) /\ agent'.state = "pending"
  BY <1>1 DEF AllFormed, TypeOK
<1>4. TypeOK'
  BY <1>1, <1>2 DEF TypeOK, Becomes, Request
<1>5. AllFormed'
  BY <1>2 DEF AllFormed, Becomes, Formed
<1>6. OneCa'
  BY <1>1, <1>2, <1>3 DEF OneCa, Becomes, HoldsCa
<1>7. OneLeaf'
  BY <1>1, <1>2, <1>3 DEF OneLeaf, Becomes
<1>8. Claims'
  BY <1>1, <1>2 DEF Claims, Becomes, Past
<1>9. Causes'
  BY <1>1, <1>2, <1>3 DEF Causes, Becomes, Past, Formed, Idle
<1>10. Homes'
  BY <1>1, <1>2 DEF Homes, Becomes
<1>. QED
  BY <1>4, <1>5, <1>6, <1>7, <1>8, <1>9, <1>10

LEMMA AgentBuiltStep == ASSUME IInv, NEW p \in Proc, AgentBuilt(p) PROVE IInv'
<1>. USE DEF IInv
<1>1. /\ proc[p].at = "reply" /\ proc[p].op = "call"
      /\ agent' = [state |-> "ready", ca |-> proc[p].ca, leaf |-> proc[p].leaf]
      /\ Done(p)
      /\ UNCHANGED <<nodeRow, token, keygenCa, payloads, host, answer, restarts, uses, mishaps>>
  BY DEF AgentBuilt, hostVars
<1>2. Becomes(p, "none", "idle", None, None, None, None)
  BY <1>1, DoneBecomes
<1>3. /\ proc[p] \in Request /\ keygenCa.ca # None /\ proc[p].ca = keygenCa.ca
      /\ keygenCa.ca # Registered => proc[p].leaf = keygenCa.leaf
  BY <1>1, ProcType DEF OneCa, HoldsCa, OneLeaf
<1>4. /\ agent' \in [state : {"none", "pending", "ready", "rejected"},
                     ca : Proc \cup {None, Registered}, leaf : Proc \cup {None}]
      /\ agent'.state = "ready" /\ agent'.ca = proc[p].ca /\ agent'.leaf = proc[p].leaf
  BY <1>1, <1>3 DEF Request
<1>5. TypeOK'
  BY <1>1, <1>2, <1>4 DEF TypeOK, Becomes, Request
<1>6. AllFormed'
  BY <1>2 DEF AllFormed, Becomes, Formed, Idle
<1>7. OneCa'
  BY <1>1, <1>2, <1>3, <1>4 DEF OneCa, Becomes, HoldsCa
<1>8. OneLeaf'
  BY <1>1, <1>2, <1>3, <1>4 DEF OneLeaf, Becomes
<1>9. Claims'
  BY <1>1, <1>2 DEF Claims, Becomes, Past
<1>10. Causes'
  BY <1>1, <1>2, <1>4 DEF Causes, Becomes, Past
<1>11. Homes'
  BY <1>1, <1>2 DEF Homes, Becomes
<1>. QED
  BY <1>5, <1>6, <1>7, <1>8, <1>9, <1>10, <1>11

LEMMA DatabaseErrorStep == ASSUME IInv, NEW p \in Proc, DatabaseError(p) PROVE IInv'
<1>1. Throws(p, "db") /\ UNCHANGED <<nodeRow, token, keygenCa, payloads, hostVars, uses>>
  BY DEF DatabaseError
<1>. QED
  BY <1>1, ThrowsStep

\* A restart forgets every request; what they had handed out stays true.
LEMMA PanelCrashStep == ASSUME IInv, PanelCrash PROVE IInv'
<1>. USE DEF IInv
<1>1. /\ proc' = [p \in Proc |-> Idle] /\ agent' = NoAgent
      /\ mishaps' = mishaps \cup {"crash"}
      /\ UNCHANGED <<nodeRow, token, keygenCa, payloads, host, answer, restarts, uses>>
  BY DEF PanelCrash, hostVars
<1>2. /\ agent' \in [state : {"none", "pending", "ready", "rejected"},
                     ca : Proc \cup {None, Registered}, leaf : Proc \cup {None}]
      /\ agent'.state = "none"
  BY <1>1 DEF NoAgent
<1>3. proc' \in [Proc -> Request] /\ \A p \in Proc : proc'[p] = Idle
  BY <1>1, IdleType
<1>4. Idle.op = "none" /\ Idle.at = "idle" /\ Idle.node = None
  BY DEF Idle
<1>5. TypeOK'
  BY <1>1, <1>2, <1>3 DEF TypeOK, Request
<1>6. AllFormed'
  BY <1>3, <1>4 DEF AllFormed, Formed
<1>7. OneCa'
  BY <1>1, <1>2, <1>3, <1>4 DEF OneCa, HoldsCa
<1>8. OneLeaf'
  BY <1>1, <1>2, <1>3, <1>4 DEF OneLeaf
<1>9. Claims'
  BY <1>1, <1>3, <1>4 DEF Claims, Past
<1>10. Causes'
  BY <1>1, <1>2 DEF Causes
<1>11. Homes'
  BY <1>1, <1>3, <1>4 DEF Homes
<1>. QED
  BY <1>5, <1>6, <1>7, <1>8, <1>9, <1>10, <1>11

LEMMA ExpireStep == ASSUME IInv, NEW t \in Token, Expire(t) PROVE IInv'
<1>. USE DEF IInv
<1>1. /\ token[t].state = "fresh" /\ token' = [token EXCEPT ![t].state = "expired"]
      /\ UNCHANGED <<nodeRow, keygenCa, proc, agent, payloads, host, answer, restarts, uses, mishaps>>
  BY DEF Expire, hostVars
<1>2. /\ token' \in [Token -> [node : Node \cup {None}, state : TokenState]]
      /\ token'[t].node = token[t].node /\ token'[t].state = "expired"
      /\ \A u \in Token : u # t => token'[u] = token[u]
  BY <1>1 DEF TypeOK, TokenState
<1>3. TypeOK'
  BY <1>1, <1>2 DEF TypeOK
<1>4. AllFormed' /\ OneCa' /\ OneLeaf' /\ Homes'
  BY <1>1 DEF AllFormed, OneCa, OneLeaf, Homes
<1>5. Claims'
  <2>1. \A q \in Proc : proc[q].op = "redeem" => proc[q].token \in Token
    BY DEF AllFormed, Formed
  <2>2. \A x \in payloads : x.token # None => x.token \in Token
    BY DEF TypeOK, Payload
  <2>. QED
    BY <1>1, <1>2, <2>1, <2>2 DEF Claims, Past
<1>6. Causes'
  BY <1>1, <1>2 DEF Causes
<1>. QED
  BY <1>3, <1>4, <1>5, <1>6

LEMMA DeleteNodeStep == ASSUME IInv, NEW n \in Node, DeleteNode(n) PROVE IInv'
<1>. USE DEF IInv
<1>1. /\ nodeRow' = [nodeRow EXCEPT ![n] = "deleted"]
      /\ UNCHANGED <<token, keygenCa, proc, agent, payloads, host, answer, restarts, uses, mishaps>>
  BY DEF DeleteNode, hostVars
<1>2. TypeOK'
  BY <1>1 DEF TypeOK
<1>3. AllFormed' /\ OneCa' /\ OneLeaf' /\ Claims' /\ Causes'
  BY <1>1 DEF AllFormed, OneCa, OneLeaf, Claims, Causes
<1>4. Homes'
  BY <1>1 DEF Homes, TypeOK, Request, Payload
<1>. QED
  BY <1>2, <1>3, <1>4

\* The heartbeat touches nothing but the host it runs on.
LEMMA OnlyHost ==
    ASSUME IInv, TypeOK', Homes',
           UNCHANGED <<nodeRow, token, keygenCa, proc, agent, payloads, uses, mishaps>>
    PROVE  IInv'
<1>1. AllFormed' /\ OneCa' /\ OneLeaf' /\ Claims' /\ Causes'
  BY DEF IInv, AllFormed, OneCa, OneLeaf, Claims, Causes
<1>. QED
  BY <1>1 DEF IInv

LEMMA PollOnceStep == ASSUME IInv, NEW n \in Node, PollOnce(n) PROVE IInv'
<1>. USE DEF IInv
<1>1. /\ host[n].state = "up" /\ answer' = [answer EXCEPT ![n] = StatusOf(n)]
      /\ UNCHANGED <<nodeRow, token, keygenCa, proc, agent, payloads, host, restarts, uses, mishaps>>
  BY DEF PollOnce, Beats, Running
<1>2. /\ nodeRow[n] # "absent" /\ StatusOf(n) \in {"active", "gone"}
      /\ StatusOf(n) = "gone" => nodeRow[n] = "deleted"
  BY <1>1 DEF Homes, StatusOf, TypeOK
<1>3. TypeOK'
  BY <1>1, <1>2 DEF TypeOK
<1>4. Homes'
  BY <1>1, <1>2 DEF Homes, TypeOK
<1>. QED
  BY <1>1, <1>3, <1>4, OnlyHost

\* The counter stays below the threshold, and only a 410 moves it off zero.
LEMMA AfterAnswers ==
    ASSUME NEW h \in [state : {"absent", "up", "stopped"}, payload : Payload \cup {None},
                     gone : 0 .. GoneThreshold - 1],
           NEW status
    PROVE  /\ AfterAnswer(h, status) \in [state : {"absent", "up", "stopped"},
                  payload : Payload \cup {None}, gone : 0 .. GoneThreshold - 1]
           /\ status # "gone" => /\ AfterAnswer(h, status).state = h.state
                                 /\ AfterAnswer(h, status).gone = 0
           /\ AfterAnswer(h, status).state = "absent" => h.state = "absent"
<1>1. CASE status # "gone"
  BY <1>1, LifecycleAssumption DEF AfterAnswer
<1>2. CASE status = "gone" /\ h.gone + 1 >= GoneThreshold
  <2>1. AfterAnswer(h, status) = [state |-> "stopped", payload |-> h.payload, gone |-> 0]
    BY <1>2 DEF AfterAnswer
  <2>2. 0 \in 0 .. GoneThreshold - 1 /\ h.payload \in Payload \cup {None}
    BY LifecycleAssumption
  <2>. QED
    BY <1>2, <2>1, <2>2
<1>3. CASE status = "gone" /\ ~(h.gone + 1 >= GoneThreshold)
  BY <1>3, LifecycleAssumption DEF AfterAnswer
<1>. QED
  BY <1>1, <1>2, <1>3

LEMMA HearStep == ASSUME IInv, NEW n \in Node, Hear(n) PROVE IInv'
<1>. USE DEF IInv
<1>. DEFINE h == AfterAnswer(host[n], answer[n])
<1>1. /\ host[n].state = "up" /\ answer' = [answer EXCEPT ![n] = "none"]
      /\ host' = [host EXCEPT ![n] = h]
      /\ UNCHANGED <<nodeRow, token, keygenCa, proc, agent, payloads, restarts, uses, mishaps>>
  BY DEF Hear, Running
<1>2. /\ h \in [state : {"absent", "up", "stopped"}, payload : Payload \cup {None},
                gone : 0 .. GoneThreshold - 1]
      /\ answer[n] # "gone" => h.state = "up" /\ h.gone = 0
      /\ h.state # "absent"
  BY <1>1, AfterAnswers DEF TypeOK
<1>. HIDE DEF h
<1>3. TypeOK'
  BY <1>1, <1>2 DEF TypeOK
<1>4. Homes'
  BY <1>1, <1>2 DEF Homes, TypeOK
<1>. QED
  BY <1>1, <1>3, <1>4, OnlyHost

LEMMA PollFailsStep == ASSUME IInv, NEW n \in Node, PollFails(n) PROVE IInv'
<1>. USE DEF IInv
<1>1. /\ answer' = [answer EXCEPT ![n] = "none"]
      /\ UNCHANGED <<nodeRow, token, keygenCa, proc, agent, payloads, host, restarts, uses, mishaps>>
  BY DEF PollFails
<1>2. TypeOK'
  BY <1>1 DEF TypeOK
<1>3. Homes'
  BY <1>1 DEF Homes, TypeOK
<1>. QED
  BY <1>1, <1>2, <1>3, OnlyHost

LEMMA RestartAgentStep == ASSUME IInv, NEW n \in Node, RestartAgent(n) PROVE IInv'
<1>. USE DEF IInv
<1>1. /\ restarts[n] < MaxRestarts /\ restarts' = [restarts EXCEPT ![n] = @ + 1]
      /\ host' = [host EXCEPT ![n].gone = 0]
      /\ answer' = [answer EXCEPT ![n] = "none"]
      /\ UNCHANGED <<nodeRow, token, keygenCa, proc, agent, payloads, uses, mishaps>>
  BY DEF RestartAgent
<1>2. restarts' \in [Node -> 0 .. MaxRestarts]
  BY <1>1, LifecycleAssumption DEF TypeOK
<1>. DEFINE h == [host[n] EXCEPT !.gone = 0]
<1>3. /\ h \in [state : {"absent", "up", "stopped"}, payload : Payload \cup {None},
                gone : 0 .. GoneThreshold - 1]
      /\ h.state = host[n].state /\ h.gone = 0
  BY LifecycleAssumption DEF TypeOK
<1>4. host' = [host EXCEPT ![n] = h]
  BY <1>1 DEF TypeOK
<1>. HIDE DEF h
<1>5. /\ answer' = [answer EXCEPT ![n] = "none"]
      /\ UNCHANGED <<nodeRow, token, keygenCa, proc, agent, payloads, uses, mishaps>>
  BY <1>1
<1>6. TypeOK'
  BY <1>2, <1>3, <1>4, <1>5 DEF TypeOK
<1>7. Homes'
  BY <1>3, <1>4, <1>5 DEF Homes, TypeOK
<1>. QED
  BY <1>5, <1>6, <1>7, OnlyHost

-----------------------------------------------------------------------------
LEMMA InitIInv == Init => IInv
<1>. SUFFICES ASSUME Init PROVE IInv
  OBVIOUS
<1>1. /\ nodeRow = [n \in Node |-> "absent"]
      /\ token = [t \in Token |-> [node |-> None, state |-> "free"]]
      /\ keygenCa = NoCa \/ keygenCa = OldCa
      /\ proc = [p \in Proc |-> Idle] /\ agent = NoAgent /\ payloads = {}
      /\ host = [n \in Node |-> NoHost] /\ answer = [n \in Node |-> "none"]
      /\ restarts = [n \in Node |-> 0] /\ uses = [t \in Token |-> 0] /\ mishaps = {}
  BY DEF Init
<1>2. proc \in [Proc -> Request] /\ \A p \in Proc : proc[p] = Idle
  BY <1>1, IdleType
<1>3. Idle.op = "none" /\ Idle.at = "idle" /\ Idle.node = None
  BY DEF Idle
<1>4. TypeOK
  <2>1. keygenCa \in Ca
    BY <1>1 DEF NoCa, OldCa, Ca
  <2>2. /\ agent \in [state : {"none", "pending", "ready", "rejected"},
                     ca : Proc \cup {None, Registered}, leaf : Proc \cup {None}]
    BY <1>1 DEF NoAgent
  <2>3. host \in [Node -> [state : {"absent", "up", "stopped"}, payload : Payload \cup {None},
                          gone : 0 .. GoneThreshold - 1]]
    BY <1>1, LifecycleAssumption DEF NoHost
  <2>4. restarts \in [Node -> 0 .. MaxRestarts] /\ uses \in [Token -> Nat]
    BY <1>1, LifecycleAssumption
  <2>. QED
    BY <1>1, <1>2, <2>1, <2>2, <2>3, <2>4 DEF TypeOK, TokenState, Request
<1>5. AllFormed
  BY <1>2, <1>3 DEF AllFormed, Formed
<1>6. OneCa
  BY <1>1, <1>2, <1>3 DEF OneCa, HoldsCa, NoAgent
<1>7. OneLeaf
  BY <1>1, <1>2, <1>3, LifecycleAssumption DEF OneLeaf, NoAgent, NoCa, OldCa
<1>8. Claims
  BY <1>1, <1>2, <1>3 DEF Claims, Past
<1>9. Causes
  BY <1>1 DEF Causes, NoAgent
<1>10. Homes
  BY <1>1, <1>2, <1>3 DEF Homes, NoHost
<1>. QED
  BY <1>4, <1>5, <1>6, <1>7, <1>8, <1>9, <1>10 DEF IInv

LEMMA AdvanceStep == ASSUME IInv, NEW p \in Proc, Advance(p) PROVE IInv'
BY FindCaStep, CreateCaStep, FindLeafStep, BackfillLeafStep, RedeemClaimStep,
   RedeemReplyStep, AgentBuiltStep, IssueBootstrapTokenStep DEF Advance

LEMMA NextIInv == IInv /\ [Next]_vars => IInv'
<1>. SUFFICES ASSUME IInv, [Next]_vars PROVE IInv'
  OBVIOUS
<1>1. ASSUME NEW p \in Proc, Advance(p) \/ BuildAgent(p) \/ DatabaseError(p) PROVE IInv'
  BY <1>1, AdvanceStep, BuildAgentStep, DatabaseErrorStep
<1>2. ASSUME NEW p \in Proc, NEW n \in Node, CreateNode(p, n) \/ RefreshBootstrap(p, n)
      PROVE  IInv'
  BY <1>2, CreateNodeStep, RefreshBootstrapStep
<1>3. ASSUME NEW p \in Proc, NEW t \in Token, RedeemFind(p, t) PROVE IInv'
  BY <1>3, RedeemFindStep
<1>4. ASSUME NEW t \in Token, Expire(t) PROVE IInv'
  BY <1>4, ExpireStep
<1>5. ASSUME NEW x \in payloads, PastePayload(x) PROVE IInv'
  BY <1>5, PastePayloadStep
<1>6. ASSUME NEW n \in Node,
             DeleteNode(n) \/ PollOnce(n) \/ Hear(n) \/ PollFails(n) \/ RestartAgent(n)
      PROVE  IInv'
  BY <1>6, DeleteNodeStep, PollOnceStep, HearStep, PollFailsStep, RestartAgentStep
<1>7. CASE PanelCrash
  BY <1>7, PanelCrashStep
<1>8. CASE UNCHANGED vars
  <2>1. UNCHANGED <<nodeRow, token, keygenCa, proc, agent, payloads, uses, mishaps>>
        /\ UNCHANGED <<host, answer, restarts>>
    BY <1>8 DEF vars, hostVars
  <2>2. TypeOK' /\ Homes'
    BY <2>1 DEF IInv, TypeOK, Homes
  <2>. QED
    BY <2>1, <2>2, OnlyHost
<1>. QED
  BY <1>1, <1>2, <1>3, <1>4, <1>5, <1>6, <1>7, <1>8 DEF Next

LEMMA Invariant == Spec => []IInv
BY InitIInv, NextIInv, PTL DEF Spec

(***************************************************************************)
(* In every reachable state the rows, the requests in flight, the payloads *)
(* and the hosts have their types; the 410 counter of the heartbeat loop   *)
(* stays below its threshold (heartbeat.go, Run).                          *)
(***************************************************************************)
THEOREM TypeCorrect == Spec => []TypeOK
<1>1. IInv => TypeOK
  BY DEF IInv
<1>. QED
  BY <1>1, Invariant, PTL

(***************************************************************************)
(* However many agents and retries present a bootstrap token at once, it   *)
(* is exchanged for at most one payload, of its own node (the conditional  *)
(* update of redeemBootstrapToken).                                        *)
(***************************************************************************)
THEOREM TokensAreSingleUse == Spec => []SingleUse
<1>1. IInv => SingleUse
  <2>. SUFFICES ASSUME IInv, NEW x \in payloads, x.token # None
                PROVE  token[x.token] = [node |-> x.node, state |-> "consumed"]
    BY DEF IInv, Claims, SingleUse
  <2>1. x.token \in Token
    BY DEF IInv, TypeOK, Payload
  <2>2. token[x.token] \in [node : Node \cup {None}, state : TokenState]
    BY <2>1 DEF IInv, TypeOK
  <2>3. token[x.token].node = x.node /\ token[x.token].state = "consumed"
    BY DEF IInv, Claims
  <2>. QED
    BY <2>2, <2>3
<1>. QED
  BY <1>1, Invariant, PTL

(***************************************************************************)
(* Any number of requests may need the first certificate authority at      *)
(* once: what they hand out, and what the panel calls nodes with, stems    *)
(* from the one that is stored (bootstrapCa inserts row 1 and nothing      *)
(* replaces it).                                                           *)
(***************************************************************************)
THEOREM AuthorityIsUnique == Spec => []OneAuthority
<1>1. IInv => OneAuthority
  BY DEF IInv, OneCa, OneAuthority
<1>. QED
  BY <1>1, Invariant, PTL

(***************************************************************************)
(* On an install that began with this version, the leaf a node pins is the *)
(* leaf the panel presents to it (getPanelClientCert never backfills a row *)
(* bootstrapCa wrote).                                                     *)
(***************************************************************************)
THEOREM FreshInstallsPin == Spec => []FreshPinsMatch
<1>1. IInv => FreshPinsMatch
  BY DEF IInv, OneLeaf, FreshPinsMatch, Pins
<1>. QED
  BY <1>1, Invariant, PTL

(***************************************************************************)
(* A shared agent that rejects for good, and a token that was consumed in  *)
(* vain, have a failure of the panel behind them.                          *)
(***************************************************************************)
THEOREM FailuresAreExplained == Spec => []FailureExplained
<1>1. IInv => FailureExplained
  BY DEF IInv, Causes, FailureExplained
<1>. QED
  BY <1>1, Invariant, PTL

(***************************************************************************)
(* An agent that took itself down belongs to a node the admin deleted,     *)
(* whatever was answered before and whatever was lost (heartbeat.go, Run). *)
(***************************************************************************)
THEOREM StoppedMeansDeleted == Spec => []OnlyDeletedStop
<1>1. IInv => OnlyDeletedStop
  BY DEF IInv, Homes, OnlyDeletedStop
<1>. QED
  BY <1>1, Invariant, PTL

=============================================================================

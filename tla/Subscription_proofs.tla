------------------------- MODULE Subscription_proofs -------------------------
(***************************************************************************)
(* For every set of nodes, finite set of profiles, protocols, keys, ranges *)
(* and ports, and any number of edits and restarts: the types, and that    *)
(* the endpoints a subscription names are those the servers accept.        *)
(*                                                                         *)
(* The second needs to know what a push leaves behind (Outcome, from the   *)
(* recursion of Applied), and what holds of a node while changes are still *)
(* on their way to its agent (NodeInv).                                    *)
(***************************************************************************)
EXTENDS Subscription, FiniteSetTheorems, WellFoundedInduction, TLAPS

(* Any non-empty family of subsets of a finite set has a smallest member:  *)
(* induction over a finite set, for the subsets that lack a property.      *)
LEMMA SmallestSubset ==
  ASSUME NEW S, IsFiniteSet(S), NEW F, F \subseteq SUBSET S, F # {}
  PROVE  \E T \in F : \A U \in F : U \subseteq T => U = T
<1>1. F \subseteq FiniteSubsetsOf(S)
  BY FS_Subset DEF FiniteSubsetsOf
<1>2. \E T \in F : \A U \in F : ~ (<<U, T>> \in StrictSubsetOrdering(S))
  BY <1>1, FS_StrictSubsetOrderingWellFounded, WFMin
<1>3. QED
  BY <1>2 DEF StrictSubsetOrdering

-----------------------------------------------------------------------------
(* The rows.                                                               *)

(* What a profile's schema lets through, by the fields the two sides read. *)
LEMMA SchemaFits ==
  ASSUME NEW k \in Protocols, NEW c \in SchemaConfig(k)
  PROVE  /\ c \in Config
         /\ k # "mieru" => c.key \in Keys
         /\ k = "amneziawg" => c.subnet \in Subnets
<1>1. CASE k = "hysteria"
  <2>1. PICK i \in Keys : c = [Plain EXCEPT !.key = i]
    BY <1>1 DEF SchemaConfig, HysteriaConfig
  <2>. QED BY <1>1, <2>1 DEF Plain, Config
<1>2. CASE k = "xray"
  <2>1. PICK x \in Keys \X Transports :
          c = [Plain EXCEPT !.key = x[1], !.net = x[2][1], !.sub = x[2][2], !.flow = x[2][3]]
    BY <1>2 DEF SchemaConfig, XrayConfig
  <2>2. x[1] \in Keys /\ x[2] \in Transports
    OBVIOUS
  <2>3. /\ x[2][1] \in {"raw", "ws", "xhttp", "kcp"} /\ x[2][2] \in {"vless", "trojan"}
        /\ x[2][3] \in {"none", "vision"}
    BY <2>2, TransportsAssumption
  <2>4. c = [key |-> x[1], psk |-> None, net |-> x[2][1], sub |-> x[2][2], flow |-> x[2][3],
             subnet |-> None, sane |-> TRUE]
    BY <2>1 DEF Plain
  <2>. QED BY <1>2, <2>2, <2>3, <2>4 DEF Config
<1>3. CASE k = "amneziawg"
  <2>1. PICK x \in Keys \X Subnets \X BOOLEAN :
          c = [Plain EXCEPT !.key = x[1], !.subnet = x[2], !.sane = x[3]]
    BY <1>3 DEF SchemaConfig, AmneziawgConfig
  <2>2. x[1] \in Keys /\ x[2] \in Subnets /\ x[3] \in BOOLEAN
    OBVIOUS
  <2>. QED BY <1>3, <2>1, <2>2 DEF Plain, Config
<1>4. CASE k = "naive"
  <2>1. PICK i \in Keys : c = [Plain EXCEPT !.key = i]
    BY <1>4 DEF SchemaConfig, NaiveConfig
  <2>. QED BY <1>4, <2>1 DEF Plain, Config
<1>5. CASE k = "shadowsocks"
  <2>1. PICK x \in Keys \X (Psks \cup {None}) : c = [Plain EXCEPT !.key = x[1], !.psk = x[2]]
    BY <1>5 DEF SchemaConfig, ShadowsocksConfig
  <2>2. x[1] \in Keys /\ x[2] \in Psks \cup {None}
    OBVIOUS
  <2>. QED BY <1>5, <2>1, <2>2 DEF Plain, Config
<1>6. CASE k = "mtproto"
  <2>1. PICK i \in Keys : c = [Plain EXCEPT !.key = i]
    BY <1>6 DEF SchemaConfig, MtprotoConfig
  <2>. QED BY <1>6, <2>1 DEF Plain, Config
<1>7. CASE k = "mieru"
  <2>1. PICK b \in BOOLEAN : c = [Plain EXCEPT !.sane = b]
    BY <1>7 DEF SchemaConfig, MieruConfig
  <2>. QED BY <1>7, <2>1 DEF Plain, Config
<1>. QED BY <1>1, <1>2, <1>3, <1>4, <1>5, <1>6, <1>7, ProtocolsAssumption

(* The rows of profiles and bindings.                                      *)
Rows ==
  /\ kind \in [Profile -> Protocols]
  /\ \A p \in Profile : config[p] \in SchemaConfig(kind[p])
  /\ bind \in [Profile -> [Node -> Binding]]
  /\ \A p \in Profile, n \in Node : bind[p][n].over \in Overrides(kind[p])

(* What the overrides of a binding leave of a configuration.               *)
LEMMA MergedFits ==
  ASSUME Rows, NEW p \in Profile, NEW n \in Node
  PROVE  LET c == Merged(bind[p][n], p)
         IN /\ c \in Config
            /\ kind[p] # "mieru" => c.key \in Keys
            /\ kind[p] = "amneziawg" => c.subnet \in Subnets
            /\ kind[p] # "amneziawg" => c.subnet = config[p].subnet
            /\ \A f \in {"psk", "net", "sub", "flow", "sane"} : c[f] = config[p][f]
<1>. DEFINE over == bind[p][n].over
            c == Merged(bind[p][n], p)
<1>1. /\ config[p] \in Config
      /\ kind[p] # "mieru" => config[p].key \in Keys
      /\ kind[p] = "amneziawg" => config[p].subnet \in Subnets
  BY SchemaFits DEF Rows
<1>2. over \in Overrides(kind[p])
  BY DEF Rows
<1>3. \/ DOMAIN over = {}
      \/ kind[p] # "mieru" /\ DOMAIN over = {"key"} /\ over["key"] \in Keys
      \/ kind[p] = "amneziawg" /\ DOMAIN over = {"subnet"} /\ over["subnet"] \in Subnets
  <2>. HIDE DEF over
  <2>. QED BY <1>2 DEF Overrides, NoOverrides
<1>4. DOMAIN config[p] = {"key", "psk", "net", "sub", "flow", "subnet", "sane"}
  BY <1>1 DEF Config
<1>5. c = [key |-> IF "key" \in DOMAIN over THEN over["key"] ELSE config[p].key,
           psk |-> config[p].psk, net |-> config[p].net, sub |-> config[p].sub,
           flow |-> config[p].flow,
           subnet |-> IF "subnet" \in DOMAIN over THEN over["subnet"] ELSE config[p].subnet,
           sane |-> config[p].sane]
  <2>1. c = [f \in DOMAIN config[p] |-> IF f \in DOMAIN over THEN over[f] ELSE config[p][f]]
    BY DEF Merged
  <2>. HIDE DEF c, over
  <2>. QED BY <1>3, <1>4, <2>1
<1>. HIDE DEF over, c
<1>6. c \in Config
  BY <1>1, <1>3, <1>5 DEF Config
<1>7. /\ kind[p] # "mieru" => c.key \in Keys
      /\ kind[p] = "amneziawg" => c.subnet \in Subnets
      /\ kind[p] # "amneziawg" => c.subnet = config[p].subnet
  BY <1>1, <1>3, <1>5
<1>8. \A f \in {"psk", "net", "sub", "flow", "sane"} : c[f] = config[p][f]
  BY <1>5
<1>. QED BY <1>6, <1>7, <1>8 DEF c

\* What fetchEnabledInbounds sends of a binding is a configuration the wire takes.
LEMMA WireFits ==
  ASSUME Rows, NEW p \in Profile, NEW n \in Node
  PROVE  OnTheWire(p, n) \in Wire /\ OnTheWire(p, n).cfg = Merged(bind[p][n], p)
<1>. DEFINE c == Merged(bind[p][n], p)
<1>1. c \in Config /\ (kind[p] = "mtproto" => c.key \in Keys)
  BY MergedFits
<1>2. bind[p][n].port \in Ports /\ InstallPort \in Ports
  BY PortsAssumption DEF Rows, Binding, InstallPort
<1>3. kind[p] = "mtproto" => Secret(p, n, c) \in Profile \X Node \X Keys
  BY <1>1 DEF Secret
<1>. HIDE DEF c
<1>. QED BY <1>1, <1>2, <1>3 DEF OnTheWire, Wire, c

-----------------------------------------------------------------------------
(* The adapters.                                                           *)

(* A server runs what its adapter remembers, if that can be rendered.      *)
Follows(a) == a.wire # None /\ a.wire.cfg.sane => a.live = [wire |-> a.wire, client |-> a.client]

\* renderConfig leaves the adapter's record alone, and its server follows it.
LEMMA RenderedFits ==
  ASSUME NEW a \in Core
  PROVE  LET r == Rendered(a)
         IN r \in Core /\ r.wire = a.wire /\ r.client = a.client /\ Follows(r)
<1>. DEFINE l == [wire |-> a.wire, client |-> a.client]
<1>1. CASE a.wire # None /\ a.wire.cfg.sane
  <2>1. a.wire \in Wire /\ a.client \in Client \cup {None}
    BY <1>1 DEF Core
  <2>2. l \in Served
    BY <2>1 DEF Served
  <2>3. Rendered(a) = [wire |-> a.wire, client |-> a.client, live |-> l]
    BY <1>1 DEF Rendered, Core
  <2>. HIDE DEF l
  <2>4. Rendered(a) \in Core
    BY <2>1, <2>2, <2>3 DEF Core
  <2>5. Rendered(a).wire = a.wire /\ Rendered(a).client = a.client /\ Rendered(a).live = l
    BY <2>3
  <2>. QED BY <2>4, <2>5 DEF Follows, l
<1>2. CASE ~(a.wire # None /\ a.wire.cfg.sane)
  BY <1>2 DEF Rendered, Follows
<1>. QED BY <1>1, <1>2

(* ApplyInbound keeps the clients; what it refuses changes nothing, what it*)
(* takes is the new record, and what was refused before still is.          *)
LEMMA ApplyFits ==
  ASSUME NEW k, NEW a \in Core, NEW w \in Wire
  PROVE  LET r == ApplyInbound(k, a, w)
         IN /\ r \in Core /\ r.client = a.client
            /\ Follows(a) => Follows(r)
            /\ Refused(k, a, w) => r = a
            /\ ~ Refused(k, a, w) => r.wire = w
            /\ \A v \in Wire : Refused(k, a, v) => Refused(k, r, v)
<1>. DEFINE b == [a EXCEPT !.wire = w]
<1>1. CASE Refused(k, a, w) \/ w = a.wire
  BY <1>1 DEF ApplyInbound
<1>2. CASE ~ Refused(k, a, w) /\ w # a.wire
  <2>1. b \in Core /\ b.wire = w /\ b.client = a.client
    BY DEF Core
  <2>. HIDE DEF b
  <2>2. ApplyInbound(k, a, w) = Rendered(b)
    BY <1>2 DEF ApplyInbound, b
  <2>3. LET r == Rendered(b) IN r \in Core /\ r.wire = w /\ r.client = a.client /\ Follows(r)
    BY <2>1, RenderedFits
  <2>4. ASSUME NEW v \in Wire, Refused(k, a, v)
        PROVE  Refused(k, Rendered(b), v)
    <3>1. CASE k = "amneziawg" /\ a.wire # None /\ a.client # None /\ a.wire.cfg.subnet # v.cfg.subnet
      <4>1. a.wire.cfg.subnet = w.cfg.subnet
        BY <1>2, <3>1 DEF Refused
      <4>2. w # None
        BY NoneAssumption
      <4>. QED BY <2>3, <3>1, <4>1, <4>2 DEF Refused
    <3>2. CASE k = "shadowsocks" /\ v.cfg.psk = None
      BY <3>2 DEF Refused
    <3>. QED BY <2>4, <3>1, <3>2 DEF Refused
  <2>. QED BY <1>2, <2>2, <2>3, <2>4
<1>. QED BY <1>1, <1>2

(* An address, or none.                                                    *)
Places == {None} \cup (Profile \X Subnets)

(* AddUser keeps the record and drops no client; but for mtproto, and for  *)
(* AmneziaWG without an address, the user is a client with the flow of the *)
(* inbound.                                                                *)
LEMMA AddFits ==
  ASSUME NEW k, NEW a \in Core, NEW address \in Places
  PROVE  LET r == AddUser(k, a, address)
         IN /\ r \in Core /\ r.wire = a.wire
            /\ Follows(a) => Follows(r)
            /\ a.client # None => r.client # None
            /\ k = "mtproto" \/ (k = "amneziawg" /\ address = None) => r = a
            /\ k # "mtproto" /\ (k = "amneziawg" => address # None) =>
                 /\ r.client # None
                 /\ r.client.flow = (IF a.wire = None THEN "none" ELSE a.wire.cfg.flow)
                 /\ k = "amneziawg" => r.client.address = address
<1>1. CASE k = "mtproto" \/ (k = "amneziawg" /\ address = None)
  BY <1>1 DEF AddUser
<1>2. CASE ~(k = "mtproto" \/ (k = "amneziawg" /\ address = None))
  <2>. DEFINE c == [flow |-> IF a.wire = None THEN "none" ELSE a.wire.cfg.flow,
                    address |-> IF k = "amneziawg" THEN address ELSE None]
              b == [a EXCEPT !.client = c]
  <2>1. a.wire # None => a.wire.cfg.flow \in {"none", "vision"}
    BY DEF Core, Wire, Config
  <2>2. c \in Client
    BY <2>1 DEF Client, Places
  <2>3. c # None
    BY <2>2, NoneAssumption
  <2>4. /\ c.flow = (IF a.wire = None THEN "none" ELSE a.wire.cfg.flow)
        /\ k = "amneziawg" => c.address = address
    OBVIOUS
  <2>5. AddUser(k, a, address) = Rendered(b)
    BY <1>2 DEF AddUser
  <2>. HIDE DEF c
  <2>6. b \in Core /\ b.wire = a.wire /\ b.client = c
    BY <2>2 DEF Core
  <2>. HIDE DEF b
  <2>7. LET r == Rendered(b) IN r \in Core /\ r.wire = a.wire /\ r.client = c /\ Follows(r)
    BY <2>6, RenderedFits
  <2>. QED BY <1>2, <2>3, <2>4, <2>5, <2>7
<1>. QED BY <1>1, <1>2

\* RemoveUser takes the client away and keeps the record.
LEMMA RemoveFits ==
  ASSUME NEW a \in Core
  PROVE  LET r == RemoveUser(a)
         IN r \in Core /\ r.wire = a.wire /\ r.client = None /\ (Follows(a) => Follows(r))
<1>. DEFINE b == [a EXCEPT !.client = None]
<1>1. CASE a.client = None
  BY <1>1 DEF RemoveUser
<1>2. CASE a.client # None
  <2>1. b \in Core /\ b.wire = a.wire /\ b.client = None
    BY DEF Core
  <2>2. RemoveUser(a) = Rendered(b)
    BY <1>2 DEF RemoveUser
  <2>. HIDE DEF b
  <2>3. LET r == Rendered(b) IN r \in Core /\ r.wire = a.wire /\ r.client = None /\ Follows(r)
    BY <2>1, RenderedFits
  <2>. QED BY <2>2, <2>3
<1>. QED BY <1>1, <1>2

\* The adapter of an agent that just started follows its record.
LEMMA IdleFits == Idle \in Core /\ Follows(Idle)
BY DEF Idle, Core, Follows

-----------------------------------------------------------------------------
(* A push.                                                                 *)

(* Among some bindings of a node one has the highest port.                 *)
LEMMA LastOne ==
  ASSUME Rows, NEW n \in Node, NEW S, S \subseteq Profile, S # {}
  PROVE  Last(S, n) \in S
<1>. DEFINE port(p) == bind[p][n].port
            F == {T \in SUBSET S : T # {} /\ ~ \E p \in T : \A q \in T : port(q) <= port(p)}
<1>1. IsFiniteSet(S)
  BY ProfileAssumption, FS_Subset
<1>2. \A p \in S : port(p) \in Nat
  BY PortsAssumption DEF Rows, Binding
<1>. HIDE DEF port
<1>3. F = {}
  <2>. SUFFICES ASSUME F # {} PROVE FALSE
    OBVIOUS
  <2>1. PICK T \in F : \A U \in F : U \subseteq T => U = T
    <3>1. F \subseteq SUBSET S
      OBVIOUS
    <3>. HIDE DEF F
    <3>. QED BY <1>1, <3>1, SmallestSubset
  <2>2. PICK x \in T : TRUE
    OBVIOUS
  <2>3. CASE T \ {x} = {}
    BY <1>2, <2>2, <2>3
  <2>4. CASE T \ {x} # {}
    <3>1. T \ {x} \notin F
      BY <2>1, <2>2
    <3>2. PICK p \in T \ {x} : \A q \in T \ {x} : port(q) <= port(p)
      BY <2>4, <3>1
    <3>3. port(p) \in Nat /\ port(x) \in Nat
      BY <1>2, <2>2, <3>2
    <3>4. CASE port(x) <= port(p)
      <4>1. \A q \in T : port(q) <= port(p)
        BY <3>2, <3>4
      <4>. QED BY <3>2, <4>1
    <3>5. CASE port(p) <= port(x)
      <4>1. \A q \in T : port(q) <= port(x)
        BY <1>2, <3>2, <3>3, <3>5
      <4>. QED BY <2>2, <4>1
    <3>. QED BY <3>3, <3>4, <3>5
  <2>. QED BY <2>3, <2>4
<1>4. \E p \in S : \A q \in S : port(q) <= port(p)
  BY <1>3
<1>. QED BY <1>4 DEF Last, port

(* What the agent has after it handled the inbounds of S: the recursion of *)
(* Applied, over the subsets of some of the inbounds.                      *)
Start(n) == [cores |-> core[n], failed |-> FALSE]
HandlesEqn(n, T, g) ==
  g = [s \in SUBSET T |-> IF s = {} THEN Start(n)
                          ELSE Handled(g[s \ {Last(s, n)}], Last(s, n), n)]
Handles(n, T) == CHOOSE g : HandlesEqn(n, T, g)

\* A push is that recursion at the enabled inbounds.
LEMMA AppliedIs ==
  ASSUME NEW n
  PROVE  Applied(n) = Handles(n, Inbounds(n))[Inbounds(n)]
BY DEF Applied, Handles, HandlesEqn, Start

(* Two functions that obey the recursion agree where both are defined.     *)
LEMMA HandlesAgree ==
  ASSUME Rows, NEW n \in Node, NEW S, S \subseteq Profile, NEW T, T \subseteq S,
         NEW g, NEW h, HandlesEqn(n, S, g), HandlesEqn(n, T, h)
  PROVE  \A s \in SUBSET T : g[s] = h[s]
<1>. DEFINE F == {s \in SUBSET T : g[s] # h[s]}
<1>1. SUFFICES ASSUME F # {} PROVE FALSE
  OBVIOUS
<1>2. IsFiniteSet(T) /\ F \subseteq SUBSET T
  BY ProfileAssumption, FS_Subset
<1>3. PICK s \in F : \A U \in F : U \subseteq s => U = s
  <2>. HIDE DEF F
  <2>. QED BY <1>1, <1>2, SmallestSubset
<1>4. s \in SUBSET S /\ s \in SUBSET T
  OBVIOUS
<1>5. CASE s = {}
  <2>1. g[s] = Start(n)
    BY <1>4, <1>5 DEF HandlesEqn
  <2>2. h[s] = Start(n)
    BY <1>4, <1>5 DEF HandlesEqn
  <2>. QED BY <2>1, <2>2
<1>6. CASE s # {}
  <2>. DEFINE x == Last(s, n)
              u == s \ {x}
  <2>1. x \in s
    BY <1>4, <1>6, LastOne
  <2>2. u \subseteq s /\ u # s /\ u \in SUBSET T
    BY <2>1
  <2>3. g[u] = h[u]
    BY <2>2, <1>3
  <2>4. g[s] = Handled(g[u], x, n)
    BY <1>4, <1>6 DEF HandlesEqn
  <2>5. h[s] = Handled(h[u], x, n)
    BY <1>4, <1>6 DEF HandlesEqn
  <2>. QED BY <2>3, <2>4, <2>5
<1>. QED
  BY <1>5, <1>6

(* The recursion is about finite sets, so there is such a function.        *)
LEMMA HandlesExists ==
  ASSUME Rows, NEW n \in Node, NEW S, S \subseteq Profile
  PROVE  HandlesEqn(n, S, Handles(n, S))
<1>. DEFINE F == {T \in SUBSET S : ~ HandlesEqn(n, T, Handles(n, T))}
<1>1. SUFFICES ASSUME F # {} PROVE FALSE
  OBVIOUS
<1>3. PICK T \in F : \A U \in F : U \subseteq T => U = T
  <2>1. F \subseteq SUBSET S /\ IsFiniteSet(S)
    BY ProfileAssumption, FS_Subset
  <2>. HIDE DEF F
  <2>. QED BY <1>1, <2>1, SmallestSubset
<1>4. \A U \in SUBSET T : U # T => HandlesEqn(n, U, Handles(n, U)) /\ U \subseteq Profile
  <2>1. TAKE U \in SUBSET T
  <2>2. HAVE U # T
  <2>3. U \in SUBSET S /\ U \notin F
    BY <1>3, <2>2
  <2>. QED BY <2>3
<1>. DEFINE pick(s) == Last(s, n)
            rest(s) == s \ {pick(s)}
            g == [s \in SUBSET T |-> IF s = {} THEN Start(n)
                                     ELSE Handled(Handles(n, rest(s))[rest(s)], pick(s), n)]
<1>5. ASSUME NEW s \in SUBSET T, s # {}
      PROVE  g[rest(s)] = Handles(n, rest(s))[rest(s)]
  <2>. DEFINE u == rest(s)
              w == rest(u)
  <2>1. pick(s) \in s
    BY <1>5, LastOne
  <2>2. u \in SUBSET T /\ u # T
    BY <2>1
  <2>3. HandlesEqn(n, u, Handles(n, u)) /\ u \subseteq Profile
    BY <2>2, <1>4
  <2>4. CASE u = {}
    <3>1. g[u] = Start(n)
      BY <2>2, <2>4
    <3>2. Handles(n, u)[u] = Start(n)
      <4>. DEFINE h == Handles(n, u)
      <4>1. HandlesEqn(n, u, h)
        BY <2>3
      <4>. HIDE DEF h
      <4>2. h[u] = Start(n)
        BY <4>1, <2>4 DEF HandlesEqn
      <4>. QED BY <4>2 DEF h
    <3>. QED BY <3>1, <3>2
  <2>5. CASE u # {}
    <3>1. pick(u) \in u
      BY <2>3, <2>5, LastOne
    <3>2. w \in SUBSET u /\ w \in SUBSET T /\ w # T
      BY <3>1, <2>2
    <3>3. HandlesEqn(n, w, Handles(n, w))
      BY <3>2, <1>4
    <3>4. Handles(n, u)[w] = Handles(n, w)[w]
      BY <3>2, <3>3, <2>3, HandlesAgree
    <3>5. Handles(n, u)[u] = Handled(Handles(n, u)[w], pick(u), n)
      <4>. DEFINE h == Handles(n, u)
      <4>1. HandlesEqn(n, u, h)
        BY <2>3
      <4>. HIDE DEF h
      <4>2. h[u] = Handled(h[w], pick(u), n)
        BY <4>1, <2>5 DEF HandlesEqn
      <4>. QED BY <4>2 DEF h
    <3>6. g[u] = Handled(Handles(n, w)[w], pick(u), n)
      BY <2>2, <2>5
    <3>. QED BY <3>4, <3>5, <3>6
  <2>. QED BY <2>4, <2>5
<1>6. HandlesEqn(n, T, g)
  <2>1. \A s \in SUBSET T : g[s] = IF s = {} THEN Start(n) ELSE Handled(g[rest(s)], pick(s), n)
    <3>1. TAKE s \in SUBSET T
    <3>2. CASE s = {}
      BY <3>2
    <3>3. CASE s # {}
      <4>1. g[s] = Handled(Handles(n, rest(s))[rest(s)], pick(s), n)
        BY <3>3
      <4>2. g[rest(s)] = Handles(n, rest(s))[rest(s)]
        BY <3>3, <1>5
      <4>. HIDE DEF g
      <4>. QED BY <4>1, <4>2, <3>3
    <3>. QED BY <3>2, <3>3
  <2>2. g = [s \in SUBSET T |-> g[s]]
    OBVIOUS
  <2>. HIDE DEF g
  <2>3. g = [s \in SUBSET T |-> IF s = {} THEN Start(n) ELSE Handled(g[rest(s)], pick(s), n)]
    BY <2>1, <2>2
  <2>. QED BY <2>3 DEF HandlesEqn
<1>7. HandlesEqn(n, T, Handles(n, T))
  <2>. HIDE DEF g
  <2>. QED BY <1>6 DEF Handles
<1>. QED
  BY <1>7

(* The only binding of its protocol that a node has.                       *)
Alone(p, n) == p \in Inbounds(n) /\ ~ Shadowed(p, n)

(* What keeps a binding from being served, whatever is pushed.             *)
Stuck(a, p, n) == ~ OnTheWire(p, n).cfg.sane \/ Refused(kind[p], a, OnTheWire(p, n))

(* What the agent has when it handled the bindings S: whose protocol has   *)
(* none of them is as it was, the only one of its protocol is what its     *)
(* adapter holds if it was not refused, and an error means that one of them*)
(* will be refused again.                                                  *)
Outcome(S, r, n) ==
  /\ r.cores \in [Protocols -> Core]
  /\ \A k \in Protocols :
       /\ r.cores[k].client = core[n][k].client
       /\ Follows(core[n][k]) => Follows(r.cores[k])
       /\ (\A p \in S : kind[p] # k) => r.cores[k] = core[n][k]
  /\ \A p \in S : Alone(p, n) =>
       LET a == core[n][kind[p]]
           w == OnTheWire(p, n)
       IN /\ r.cores[kind[p]] = ApplyInbound(kind[p], a, w)
          /\ r.failed \/ ~ Refused(kind[p], a, w)
  /\ r.failed => \E p \in S : Stuck(r.cores[kind[p]], p, n)

\* One more inbound keeps the outcome.
LEMMA HandledOutcome ==
  ASSUME Rows, core \in [Node -> [Protocols -> Core]],
         NEW n \in Node, NEW S, S \subseteq Inbounds(n), NEW p \in S,
         NEW r, Outcome(S \ {p}, r, n)
  PROVE  Outcome(S, Handled(r, p, n), n)
<1>. DEFINE k == kind[p]
            w == OnTheWire(p, n)
            a == r.cores[k]
            b == ApplyInbound(k, a, w)
            q == Handled(r, p, n)
<1>1. p \in Profile /\ S \subseteq Profile
  BY DEF Inbounds
<1>2. k \in Protocols /\ w \in Wire /\ a \in Core
  BY <1>1, WireFits DEF Rows, Outcome
<1>3. /\ b \in Core /\ b.client = a.client
      /\ Follows(a) => Follows(b)
      /\ Refused(k, a, w) => b = a
      /\ ~ Refused(k, a, w) => b.wire = w
      /\ \A v \in Wire : Refused(k, a, v) => Refused(k, b, v)
  <2>. HIDE DEF a, w, k
  <2>. QED BY <1>2, ApplyFits
<1>4. q = [cores |-> [r.cores EXCEPT ![k] = b], failed |-> r.failed \/ Fails(k, a, w)]
  BY DEF Handled
<1>. HIDE DEF b, w, q
<1>5. /\ q.cores = [r.cores EXCEPT ![k] = b] /\ q.failed = (r.failed \/ Fails(k, a, w))
      /\ r.cores \in [Protocols -> Core]
  BY <1>4 DEF Outcome
<1>6. q.cores \in [Protocols -> Core] /\ q.cores[k] = b
      /\ \A j \in Protocols : j # k => q.cores[j] = r.cores[j]
  BY <1>2, <1>3, <1>5
<1>. HIDE DEF k, a
<1>7. ASSUME NEW j \in Protocols
      PROVE  /\ q.cores[j].client = core[n][j].client
             /\ Follows(core[n][j]) => Follows(q.cores[j])
             /\ (\A x \in S : kind[x] # j) => q.cores[j] = core[n][j]
  <2>1. CASE j = k
    <3>1. a.client = core[n][k].client /\ (Follows(core[n][k]) => Follows(a))
      BY <1>2 DEF Outcome, a
    <3>. QED BY <1>3, <1>6, <2>1, <3>1 DEF k
  <2>2. CASE j # k
    BY <1>6, <2>2 DEF Outcome
  <2>. QED BY <2>1, <2>2
<1>8. ASSUME NEW x \in S, Alone(x, n)
      PROVE  LET c == core[n][kind[x]]
                 v == OnTheWire(x, n)
             IN /\ q.cores[kind[x]] = ApplyInbound(kind[x], c, v)
                /\ q.failed \/ ~ Refused(kind[x], c, v)
  <2>1. CASE x = p
    <3>1. \A y \in S \ {p} : kind[y] # k
      BY <1>8, <2>1 DEF Alone, Shadowed, Inbounds, k
    <3>2. a = core[n][k]
      BY <1>2, <3>1 DEF Outcome, a
    <3>3. q.cores[k] = ApplyInbound(k, core[n][k], w)
      BY <1>6, <3>2 DEF b
    <3>4. q.failed \/ ~ Refused(k, core[n][k], w)
      BY <1>5, <3>2 DEF Fails
    <3>. QED BY <2>1, <3>3, <3>4 DEF k, w
  <2>2. CASE x # p
    <3>1. kind[x] # k /\ kind[x] \in Protocols
      BY <1>1, <1>8, <2>2 DEF Alone, Shadowed, Inbounds, k, Rows
    <3>2. q.cores[kind[x]] = r.cores[kind[x]]
      BY <1>6, <3>1
    <3>. QED BY <1>5, <1>8, <2>2, <3>2 DEF Outcome
  <2>. QED BY <2>1, <2>2
<1>9. q.failed => \E x \in S : Stuck(q.cores[kind[x]], x, n)
  <2>1. ASSUME r.failed
        PROVE  \E x \in S : Stuck(q.cores[kind[x]], x, n)
    <3>1. PICK x \in S \ {p} : Stuck(r.cores[kind[x]], x, n)
      BY <2>1 DEF Outcome
    <3>2. x \in Profile /\ kind[x] \in Protocols /\ OnTheWire(x, n) \in Wire
      BY <1>1, WireFits DEF Rows
    <3>3. CASE kind[x] = k
      <4>1. Stuck(b, x, n)
        BY <1>3, <3>1, <3>2, <3>3 DEF Stuck, a
      <4>. QED BY <1>6, <3>3, <4>1
    <3>4. CASE kind[x] # k
      BY <1>6, <3>1, <3>2, <3>4
    <3>. QED BY <3>3, <3>4
  <2>2. ASSUME Fails(k, a, w)
        PROVE  \E x \in S : Stuck(q.cores[kind[x]], x, n)
    <3>1. Refused(k, b, w) \/ ~ w.cfg.sane
      BY <1>2, <1>3, <2>2 DEF Fails
    <3>2. Stuck(q.cores[kind[p]], p, n)
      BY <1>6, <3>1 DEF Stuck, k, w
    <3>. QED BY <3>2
  <2>. QED BY <1>5, <2>1, <2>2
<1>. QED BY <1>6, <1>7, <1>8, <1>9 DEF Outcome, q

\* The outcome of handleApplyInbounds for all the enabled inbounds of a node.
LEMMA AppliedOutcome ==
  ASSUME Rows, core \in [Node -> [Protocols -> Core]], NEW n \in Node
  PROVE  Outcome(Inbounds(n), Applied(n), n)
<1>. DEFINE T == Inbounds(n)
            g == Handles(n, T)
            F == {S \in SUBSET T : ~ Outcome(S, g[S], n)}
<1>1. T \subseteq Profile
  BY DEF Inbounds
<1>2. HandlesEqn(n, T, g)
  BY <1>1, HandlesExists
<1>. HIDE DEF g, T
<1>3. F = {}
  <2>. SUFFICES ASSUME F # {} PROVE FALSE
    OBVIOUS
  <2>1. PICK S \in F : \A U \in F : U \subseteq S => U = S
    <3>1. F \subseteq SUBSET T /\ IsFiniteSet(T)
      BY <1>1, ProfileAssumption, FS_Subset
    <3>. HIDE DEF F
    <3>. QED BY <3>1, SmallestSubset
  <2>2. CASE S = {}
    <3>1. g[S] = Start(n)
      BY <1>2, <2>2 DEF HandlesEqn
    <3>2. core[n] \in [Protocols -> Core] /\ Start(n).cores = core[n] /\ Start(n).failed = FALSE
      BY DEF Start
    <3>3. Outcome(S, Start(n), n)
      BY <2>2, <3>2 DEF Outcome
    <3>. QED BY <3>1, <3>3
  <2>3. CASE S # {}
    <3>. DEFINE p == Last(S, n)
    <3>1. p \in S
      BY <1>1, <2>3, LastOne
    <3>2. S \ {p} \notin F /\ S \ {p} \in SUBSET T
      BY <2>1, <3>1
    <3>3. Outcome(S \ {p}, g[S \ {p}], n)
      BY <3>2
    <3>4. g[S] = Handled(g[S \ {p}], p, n)
      BY <1>2, <2>3 DEF HandlesEqn
    <3>5. Outcome(S, Handled(g[S \ {p}], p, n), n)
      <4>. HIDE DEF p
      <4>. QED BY <3>1, <3>3, HandledOutcome DEF T
    <3>. QED BY <3>4, <3>5
  <2>. QED BY <2>2, <2>3
<1>4. Outcome(T, g[T], n)
  BY <1>3
<1>. QED BY <1>4, AppliedIs DEF g, T

-----------------------------------------------------------------------------
(* Types.                                                                  *)

(* The profile a job found is one of AmneziaWG.                            *)
Types == TypeOK /\ \A n \in Node : run[n].awg # None => kind[run[n].awg] = "amneziawg"

\* The types of the rows are among the types.
LEMMA TypesRows == ASSUME Types PROVE Rows
BY DEF Types, TypeOK, Rows

(* Among some bindings of a node one has the lowest port.                  *)
LEMMA FirstOne ==
  ASSUME Rows, NEW n \in Node, NEW S, S \subseteq Profile, S # {}
  PROVE  First(S, n) \in S
<1>. DEFINE port(p) == bind[p][n].port
            F == {T \in SUBSET S : T # {} /\ ~ \E p \in T : \A q \in T : port(p) <= port(q)}
<1>1. IsFiniteSet(S)
  BY ProfileAssumption, FS_Subset
<1>2. \A p \in S : port(p) \in Nat
  BY PortsAssumption DEF Rows, Binding
<1>. HIDE DEF port
<1>3. F = {}
  <2>. SUFFICES ASSUME F # {} PROVE FALSE
    OBVIOUS
  <2>1. PICK T \in F : \A U \in F : U \subseteq T => U = T
    <3>1. F \subseteq SUBSET S
      OBVIOUS
    <3>. HIDE DEF F
    <3>. QED BY <1>1, <3>1, SmallestSubset
  <2>2. PICK x \in T : TRUE
    OBVIOUS
  <2>3. CASE T \ {x} = {}
    BY <1>2, <2>2, <2>3
  <2>4. CASE T \ {x} # {}
    <3>1. T \ {x} \notin F
      BY <2>1, <2>2
    <3>2. PICK p \in T \ {x} : \A q \in T \ {x} : port(p) <= port(q)
      BY <2>4, <3>1
    <3>3. port(p) \in Nat /\ port(x) \in Nat
      BY <1>2, <2>2, <3>2
    <3>4. CASE port(p) <= port(x)
      <4>1. \A q \in T : port(p) <= port(q)
        BY <3>2, <3>4
      <4>. QED BY <3>2, <4>1
    <3>5. CASE port(x) <= port(p)
      <4>1. \A q \in T : port(x) <= port(q)
        BY <1>2, <3>2, <3>3, <3>5
      <4>. QED BY <2>2, <4>1
    <3>. QED BY <3>3, <3>4, <3>5
  <2>. QED BY <2>3, <2>4
<1>4. \E p \in S : \A q \in S : port(p) <= port(q)
  BY <1>3
<1>. QED BY <1>4 DEF First, port

\* The types hold when the profiles were just created.
LEMMA InitTypes == Init => Types
<1>. SUFFICES ASSUME Init PROVE Types
  OBVIOUS
<1>. DEFINE fresh(t) == [enabled |-> TRUE, over |-> NoOverrides, port |-> t,
                         hosts |-> {DefaultHost}]
            rows == {fresh(t) : t \in Ports}
<1>1. /\ kind \in [Profile -> Protocols]
      /\ \A p \in Profile : config[p] \in SchemaConfig(kind[p])
      /\ bind \in [Profile -> [Node -> rows]]
  BY DEF Init, Created
<1>2. config \in [Profile -> Config]
  BY <1>1, SchemaFits DEF Init
<1>3. ASSUME NEW p \in Profile, NEW n \in Node
      PROVE  bind[p][n] \in Binding /\ bind[p][n].over \in Overrides(kind[p])
  <2>1. bind[p][n] \in rows
    <3>. HIDE DEF rows
    <3>. QED BY <1>1
  <2>2. PICK t \in Ports : bind[p][n] = fresh(t)
    BY <2>1
  <2>3. NoOverrides \in Overrides(kind[p])
    BY DEF Overrides
  <2>4. NoOverrides \in UNION {Overrides(k) : k \in Protocols}
    BY <1>1, <2>3
  <2>. QED BY <2>2, <2>3, <2>4, HostsAssumption DEF Binding
<1>4. bind \in [Profile -> [Node -> Binding]]
  <2>. HIDE DEF rows
  <2>. QED BY <1>1, <1>3
<1>5. core \in [Node -> [Protocols -> Core]]
  BY IdleFits DEF Init
<1>6. \A n \in Node : run[n] = Resting
  BY DEF Init
<1>7. /\ run \in [Node -> [on : BOOLEAN, awg : Profile \cup {None}]]
      /\ \A n \in Node : run[n].awg = None
  BY <1>6 DEF Init, Resting
<1>. QED BY <1>1, <1>2, <1>3, <1>4, <1>5, <1>7, BoundsAssumption DEF Init, Types, TypeOK

\* A change of a profile stores what the schema of its protocol lets through.
LEMMA UpdateProfileTypes == ASSUME Types, UpdateProfile PROVE Types'
<1>0. PICK p \in Profile : \E c \in SchemaConfig(kind[p]) : config' = [config EXCEPT ![p] = c]
  BY DEF UpdateProfile
<1>1. PICK c \in SchemaConfig(kind[p]) : config' = [config EXCEPT ![p] = c]
  BY <1>0
<1>2. c \in Config
  BY SchemaFits, <1>1 DEF Types, TypeOK
<1>3. /\ config' \in [Profile -> Config]
      /\ \A q \in Profile : config'[q] \in SchemaConfig(kind[q])
  BY <1>1, <1>2 DEF Types, TypeOK
<1>4. dirty' \in [Node -> BOOLEAN] /\ edits' \in 0..MaxEdits
  BY BoundsAssumption DEF UpdateProfile, Types, TypeOK
<1>5. UNCHANGED <<kind, bind, active, peerRow, core, run, userJob, unsent, restarts>>
  BY DEF UpdateProfile
<1>. QED BY <1>3, <1>4, <1>5 DEF Types, TypeOK

\* A change of a binding leaves the ports of a node apart.
LEMMA UpdateBindingTypes == ASSUME Types, UpdateBinding PROVE Types'
<1>0. PICK p \in Profile, n \in Node : \E e \in BOOLEAN, o \in Overrides(kind[p]), t \in Ports :
         /\ \A q \in Profile \ {p} : bind[q][n].port # t
         /\ bind' = [bind EXCEPT ![p][n] = [enabled |-> e, over |-> o, port |-> t, hosts |-> @.hosts]]
         /\ bind' # bind
         /\ dirty' = [dirty EXCEPT ![n] = TRUE]
  BY DEF UpdateBinding
<1>1. PICK e \in BOOLEAN, o \in Overrides(kind[p]), t \in Ports :
         /\ \A q \in Profile \ {p} : bind[q][n].port # t
         /\ bind' = [bind EXCEPT ![p][n] = [enabled |-> e, over |-> o, port |-> t, hosts |-> @.hosts]]
         /\ bind' # bind
         /\ dirty' = [dirty EXCEPT ![n] = TRUE]
  BY <1>0
<1>. DEFINE b == [enabled |-> e, over |-> o, port |-> t, hosts |-> bind[p][n].hosts]
<1>2. /\ kind \in [Profile -> Protocols]
      /\ bind \in [Profile -> [Node -> Binding]]
      /\ \A q \in Profile, m \in Node : bind[q][m].over \in Overrides(kind[q])
  BY DEF Types, TypeOK
<1>3. b \in Binding /\ b.over = o /\ b.port = t
  <2>1. o \in UNION {Overrides(k) : k \in Protocols}
    BY <1>2
  <2>2. bind[p][n].hosts \in SUBSET Hosts
    BY <1>2 DEF Binding
  <2>. QED BY <2>1, <2>2 DEF Binding
<1>4. bind' = [bind EXCEPT ![p] = [bind[p] EXCEPT ![n] = b]]
  BY <1>1
<1>. HIDE DEF b
<1>5. bind' \in [Profile -> [Node -> Binding]]
  BY <1>2, <1>3, <1>4
<1>6. \A q \in Profile, m \in Node : bind'[q][m] = IF q = p /\ m = n THEN b ELSE bind[q][m]
  BY <1>2, <1>4
<1>7. \A q \in Profile, m \in Node : bind'[q][m].over \in Overrides(kind[q])
  BY <1>1, <1>2, <1>3, <1>6
<1>8. \A m \in Node : IsInjective([q \in Profile |-> bind'[q][m].port])
  <2>1. TAKE m \in Node
  <2>2. \A x, y \in Profile : bind[x][m].port = bind[y][m].port => x = y
    <3>1. IsInjective([q \in Profile |-> bind[q][m].port])
      BY DEF Types, TypeOK
    <3>. QED BY <3>1 DEF IsInjective
  <2>3. \A x, y \in Profile : bind'[x][m].port = bind'[y][m].port => x = y
    BY <1>1, <1>3, <1>6, <2>2
  <2>. QED BY <2>3 DEF IsInjective
<1>9. dirty' \in [Node -> BOOLEAN] /\ edits' \in 0..MaxEdits
  BY <1>1, BoundsAssumption DEF UpdateBinding, Types, TypeOK
<1>10. UNCHANGED <<kind, config, active, peerRow, core, run, userJob, unsent, restarts>>
  BY DEF UpdateBinding
<1>. QED BY <1>5, <1>7, <1>8, <1>9, <1>10 DEF Types, TypeOK

\* A change of the hosts touches neither overrides nor ports.
LEMMA UpdateHostsTypes == ASSUME Types, UpdateHosts PROVE Types'
<1>1. PICK p \in Profile, n \in Node, hs \in SUBSET Hosts :
         bind' = [bind EXCEPT ![p][n] = [@ EXCEPT !.hosts = hs]]
  BY DEF UpdateHosts
<1>. DEFINE b == [bind[p][n] EXCEPT !.hosts = hs]
<1>2. /\ bind \in [Profile -> [Node -> Binding]]
      /\ \A q \in Profile, m \in Node : bind[q][m].over \in Overrides(kind[q])
  BY DEF Types, TypeOK
<1>3. b \in Binding /\ b.over = bind[p][n].over /\ b.port = bind[p][n].port
  <2>. DEFINE x == bind[p][n]
  <2>1. x \in Binding
    BY <1>2
  <2>. HIDE DEF x
  <2>2. b = [x EXCEPT !.hosts = hs]
    BY DEF x
  <2>3. b = [enabled |-> x.enabled, over |-> x.over, port |-> x.port, hosts |-> hs]
    BY <2>1, <2>2 DEF Binding
  <2>. HIDE DEF b
  <2>. QED BY <2>1, <2>3 DEF Binding, x
<1>4. bind' = [bind EXCEPT ![p] = [bind[p] EXCEPT ![n] = b]]
  BY <1>1
<1>. HIDE DEF b
<1>5. bind' \in [Profile -> [Node -> Binding]]
  BY <1>2, <1>3, <1>4
<1>6. \A q \in Profile, m \in Node : bind'[q][m].over = bind[q][m].over /\ bind'[q][m].port = bind[q][m].port
  BY <1>2, <1>3, <1>4
<1>7. \A m \in Node : IsInjective([q \in Profile |-> bind'[q][m].port])
  <2>1. TAKE m \in Node
  <2>2. [q \in Profile |-> bind'[q][m].port] = [q \in Profile |-> bind[q][m].port]
    BY <1>6
  <2>. QED BY <2>2 DEF Types, TypeOK
<1>8. edits' \in 0..MaxEdits
  BY BoundsAssumption DEF UpdateHosts, Types, TypeOK
<1>9. UNCHANGED <<kind, config, active, peerRow, core, dirty, run, userJob, unsent, restarts>>
  BY DEF UpdateHosts
<1>10. \A q \in Profile, m \in Node : bind'[q][m].over \in Overrides(kind[q])
  BY <1>2, <1>6
<1>. QED BY <1>5, <1>7, <1>8, <1>9, <1>10 DEF Types, TypeOK

\* A change of the user's status queues a job for every node.
LEMMA UpdateStatusTypes == ASSUME Types, UpdateStatus PROVE Types'
<1>1. /\ active' \in BOOLEAN /\ userJob' \in [Node -> {"none", "add", "remove"}]
      /\ edits' \in 0..MaxEdits
  BY BoundsAssumption DEF UpdateStatus, Types, TypeOK
<1>2. UNCHANGED <<kind, config, bind, peerRow, core, dirty, run, unsent, restarts>>
  BY DEF UpdateStatus
<1>. QED BY <1>1, <1>2 DEF Types, TypeOK

\* A request draws its addresses from the range of an AmneziaWG profile.
LEMMA FetchTypes == ASSUME Types, Fetch PROVE Types'
<1>. DEFINE served(p) == {n \in Node : Visible(p, n)}
            new(p) == IF kind[p] # "amneziawg" \/ served(p) = {} THEN peerRow[p]
                      ELSE Allocated(p, Merged(bind[p][CHOOSE n \in served(p) : TRUE], p).subnet)
<1>1. peerRow' = [p \in Profile |-> new(p)]
  BY DEF Fetch
<1>2. ASSUME NEW p \in Profile PROVE new(p) \in Subnets \cup {None}
  <2>1. peerRow[p] \in Subnets \cup {None}
    BY DEF Types, TypeOK
  <2>2. CASE kind[p] # "amneziawg" \/ served(p) = {}
    BY <2>1, <2>2
  <2>3. CASE kind[p] = "amneziawg" /\ served(p) # {}
    <3>. DEFINE n == CHOOSE n \in served(p) : TRUE
    <3>1. n \in Node
      BY <2>3
    <3>. HIDE DEF n
    <3>2. Merged(bind[p][n], p).subnet \in Subnets
      BY <2>3, <3>1, TypesRows, MergedFits
    <3>3. new(p) = Allocated(p, Merged(bind[p][n], p).subnet)
      BY <2>3 DEF n
    <3>. QED BY <2>1, <3>2, <3>3 DEF Allocated
  <2>. QED BY <2>2, <2>3
<1>. HIDE DEF new
<1>3. peerRow' \in [Profile -> Subnets \cup {None}]
  BY <1>1, <1>2
<1>4. UNCHANGED <<kind, config, bind, active, core, dirty, run, userJob, unsent, edits, restarts>>
  BY DEF Fetch
<1>. QED BY <1>3, <1>4 DEF Types, TypeOK

\* A push leaves adapters, and finds a profile of AmneziaWG or none.
LEMMA PushInboundsTypes == ASSUME Types, NEW n \in Node, PushInbounds(n) PROVE Types'
<1>. DEFINE awg == {p \in Inbounds(n) : kind[p] = "amneziawg"}
<1>1. core \in [Node -> [Protocols -> Core]] /\ dirty \in [Node -> BOOLEAN]
      /\ run \in [Node -> [on : BOOLEAN, awg : Profile \cup {None}]]
  BY DEF Types, TypeOK
<1>2. Applied(n).cores \in [Protocols -> Core]
  BY <1>1, TypesRows, AppliedOutcome DEF Outcome
<1>3. core' \in [Node -> [Protocols -> Core]]
  BY <1>1, <1>2 DEF PushInbounds
<1>4. dirty' \in [Node -> BOOLEAN]
  BY <1>1 DEF PushInbounds
<1>5. awg # {} => First(awg, n) \in awg
  <2>1. awg \subseteq Profile
    BY DEF Inbounds
  <2>. HIDE DEF awg
  <2>. QED BY <2>1, TypesRows, FirstOne
<1>6. \/ run' = run
      \/ run' = [run EXCEPT ![n] = [on |-> TRUE, awg |-> IF awg = {} THEN None ELSE First(awg, n)]]
  BY DEF PushInbounds
<1>7. /\ run' \in [Node -> [on : BOOLEAN, awg : Profile \cup {None}]]
      /\ \A m \in Node : run'[m].awg # None => kind[run'[m].awg] = "amneziawg"
  <2>1. awg # {} => First(awg, n) \in Profile /\ kind[First(awg, n)] = "amneziawg"
    BY <1>5 DEF Inbounds
  <2>. HIDE DEF awg
  <2>2. \A m \in Node : run[m].awg # None => kind[run[m].awg] = "amneziawg"
    BY DEF Types
  <2>3. CASE run' = run
    BY <1>1, <2>2, <2>3
  <2>4. CASE run' = [run EXCEPT ![n] = [on |-> TRUE, awg |-> IF awg = {} THEN None ELSE First(awg, n)]]
    <3>. DEFINE x == IF awg = {} THEN None ELSE First(awg, n)
    <3>1. x \in Profile \cup {None} /\ (x # None => kind[x] = "amneziawg")
      BY <2>1
    <3>. HIDE DEF x
    <3>2. run' = [run EXCEPT ![n] = [on |-> TRUE, awg |-> x]]
      BY <2>4 DEF x
    <3>3. run' \in [Node -> [on : BOOLEAN, awg : Profile \cup {None}]]
      BY <1>1, <3>1, <3>2
    <3>4. \A m \in Node : run'[m].awg = IF m = n THEN x ELSE run[m].awg
      BY <1>1, <3>2
    <3>. QED BY <2>2, <3>1, <3>3, <3>4
  <2>. QED BY <1>6, <2>3, <2>4
<1>8. UNCHANGED <<kind, config, bind, active, peerRow, userJob, unsent, edits, restarts>>
  BY DEF PushInbounds
<1>. QED BY <1>3, <1>4, <1>7, <1>8 DEF Types, TypeOK

(* What a job hands to AmneziaWG with the users.                           *)
LEMMA AddressFits ==
  ASSUME Types, NEW n \in Node, run[n].awg # None
  PROVE  LET p == run[n].awg
         IN /\ p \in Profile /\ Allocated(p, config[p].subnet) \in Subnets
            /\ Address(p, config[p].subnet) \in Places
            /\ Address(p, config[p].subnet) # None
<1>. DEFINE p == run[n].awg
<1>1. p \in Profile /\ kind[p] = "amneziawg" /\ peerRow[p] \in Subnets \cup {None}
  BY DEF Types, TypeOK
<1>2. config[p].subnet \in Subnets
  BY <1>1, SchemaFits DEF Types, TypeOK
<1>3. Allocated(p, config[p].subnet) \in Subnets
  BY <1>1, <1>2 DEF Allocated
<1>4. Address(p, config[p].subnet) \in Profile \X Subnets
  BY <1>1, <1>3 DEF Address
<1>. QED BY <1>1, <1>3, <1>4, NoneAssumption DEF Places

(* PushUsers, with the outcome of allocatePeer as a parameter.             *)
PushOf(n, drawn) ==
  LET p == run[n].awg
      addressed == p # None /\ drawn
      address == IF addressed THEN Address(p, config[p].subnet) ELSE None
  IN /\ run[n].on
     /\ IF active
          THEN /\ core' = [core EXCEPT ![n] =
                              [k \in Protocols |-> AddUser(k, core[n][k], address)]]
               /\ peerRow' = IF addressed
                             THEN [peerRow EXCEPT ![p] = Allocated(p, config[p].subnet)]
                             ELSE peerRow
          ELSE UNCHANGED <<core, peerRow>>
     /\ unsent' = [unsent EXCEPT ![n] = ~active \/ ~drawn]
     /\ run' = [run EXCEPT ![n] = Resting]
     /\ UNCHANGED <<kind, config, bind, active, dirty, userJob, edits, restarts>>

\* A push has one outcome of allocatePeer.
LEMMA PushUsersIs ==
  ASSUME NEW n \in Node, PushUsers(n)
  PROVE  \E drawn \in BOOLEAN : PushOf(n, drawn)
BY DEF PushUsers, PushOf

\* The push of the users hands out addresses of a profile's range.
LEMMA PushUsersTypes == ASSUME Types, NEW n \in Node, PushUsers(n) PROVE Types'
<1>0. PICK drawn \in BOOLEAN : PushOf(n, drawn)
  BY PushUsersIs
<1>. DEFINE p == run[n].awg
            address == IF p # None /\ drawn THEN Address(p, config[p].subnet) ELSE None
            served == [k \in Protocols |-> AddUser(k, core[n][k], address)]
<1>1. /\ core \in [Node -> [Protocols -> Core]]
      /\ run \in [Node -> [on : BOOLEAN, awg : Profile \cup {None}]]
      /\ peerRow \in [Profile -> Subnets \cup {None}]
      /\ active \in BOOLEAN /\ unsent \in [Node -> BOOLEAN]
  BY DEF Types, TypeOK
<1>2. address \in Places /\ (p # None => Allocated(p, config[p].subnet) \in Subnets)
  BY AddressFits DEF Places
<1>3. served \in [Protocols -> Core]
  <2>1. ASSUME NEW k \in Protocols PROVE AddUser(k, core[n][k], address) \in Core
    <3>1. core[n][k] \in Core
      BY <1>1
    <3>. HIDE DEF address
    <3>. QED BY <1>2, <3>1, AddFits
  <2>. QED BY <2>1
<1>4. core' = core \/ core' = [core EXCEPT ![n] = served]
  BY <1>0 DEF PushOf
<1>5. peerRow' = peerRow \/ (p # None /\ peerRow' = [peerRow EXCEPT ![p] = Allocated(p, config[p].subnet)])
  BY <1>0 DEF PushOf
<1>6. run' = [run EXCEPT ![n] = Resting] /\ unsent' = [unsent EXCEPT ![n] = ~active \/ ~drawn]
      /\ UNCHANGED <<kind, config, bind, active, dirty, userJob, edits, restarts>>
  BY <1>0 DEF PushOf
<1>. HIDE DEF p, served
<1>7. core' \in [Node -> [Protocols -> Core]]
  BY <1>1, <1>3, <1>4
<1>8. peerRow' \in [Profile -> Subnets \cup {None}]
  BY <1>1, <1>2, <1>5
<1>9. /\ run' \in [Node -> [on : BOOLEAN, awg : Profile \cup {None}]]
      /\ unsent' \in [Node -> BOOLEAN]
  BY <1>1, <1>6 DEF Resting
<1>10. \A m \in Node : run'[m].awg # None => kind'[run'[m].awg] = "amneziawg"
  BY <1>1, <1>6 DEF Resting, Types
<1>. QED BY <1>6, <1>7, <1>8, <1>9, <1>10 DEF Types, TypeOK

\* A job of a user leaves adapters.
LEMMA DeliverUserTypes == ASSUME Types, NEW n \in Node, DeliverUser(n) PROVE Types'
<1>. DEFINE served == [k \in Protocols |-> IF userJob[n] = "add" THEN AddUser(k, core[n][k], None)
                                           ELSE RemoveUser(core[n][k])]
<1>1. /\ core \in [Node -> [Protocols -> Core]] /\ unsent \in [Node -> BOOLEAN]
      /\ userJob \in [Node -> {"none", "add", "remove"}]
  BY DEF Types, TypeOK
<1>2. served \in [Protocols -> Core]
  BY <1>1, AddFits, RemoveFits DEF Places
<1>3. core' = [core EXCEPT ![n] = served]
  BY DEF DeliverUser
<1>. HIDE DEF served
<1>4. core' \in [Node -> [Protocols -> Core]]
  BY <1>1, <1>2, <1>3
<1>5. unsent' \in [Node -> BOOLEAN] /\ userJob' \in [Node -> {"none", "add", "remove"}]
  BY <1>1 DEF DeliverUser
<1>6. UNCHANGED <<kind, config, bind, active, peerRow, dirty, run, edits, restarts>>
  BY DEF DeliverUser
<1>. QED BY <1>4, <1>5, <1>6 DEF Types, TypeOK

\* A restarted agent has adapters.
LEMMA AgentRestartsTypes == ASSUME Types, NEW n \in Node, AgentRestarts(n) PROVE Types'
<1>1. core' \in [Node -> [Protocols -> Core]]
  BY IdleFits DEF AgentRestarts, Types, TypeOK
<1>2. /\ dirty' \in [Node -> BOOLEAN] /\ unsent' \in [Node -> BOOLEAN]
      /\ userJob' \in [Node -> {"none", "add", "remove"}]
      /\ restarts' \in 0..MaxRestarts
  BY BoundsAssumption DEF AgentRestarts, Types, TypeOK
<1>3. UNCHANGED <<kind, config, bind, active, peerRow, run, edits>>
  BY DEF AgentRestarts
<1>. QED BY <1>1, <1>2, <1>3 DEF Types, TypeOK

\* So every step keeps the types.
LEMMA StepTypes == ASSUME Types, [Next]_vars PROVE Types'
<1>1. CASE UNCHANGED vars
  BY <1>1 DEF Types, TypeOK, vars
<1>. QED
  BY <1>1, UpdateProfileTypes, UpdateBindingTypes, UpdateHostsTypes, UpdateStatusTypes, FetchTypes,
     PushInboundsTypes, PushUsersTypes, DeliverUserTypes, AgentRestartsTypes DEF Next

\* The types hold in every reachable state.
LEMMA TypesHold == Spec => []Types
<1>1. Types /\ [Next]_vars => Types'
  BY StepTypes
<1>. QED BY <1>1, InitTypes, PTL DEF Spec

(* The types: every profile holds what the schema of its protocol lets     *)
(* through, no two bindings of a node share a port, and an adapter that    *)
(* handleApplyInbounds, handleAddUser or a restart left is one renderConfig*)
(* can have left.                                                          *)
THEOREM TypeCorrect == Spec => []TypeOK
<1>1. Types => TypeOK
  BY DEF Types
<1>. QED BY <1>1, TypesHold, PTL

-----------------------------------------------------------------------------
(* What holds of a node.                                                   *)

Adapter(p, n) == core[n][kind[p]]

(* The servers of the agent run what its adapters remember.                *)
Running(n) == \A k \in Protocols : Follows(core[n][k])

(* The job of a user is about what the user is now.                        *)
Timely(n) ==
  /\ userJob[n] = "add" => active
  /\ userJob[n] = "remove" => ~ active

(* An active user without a job is a client of every adapter that takes him*)
(* without an address.                                                     *)
Present(n) ==
  active /\ userJob[n] = "none" =>
    \A k \in Protocols \ {"mtproto", "amneziawg"} : core[n][k].client # None

(* Without a job of inbounds, the only binding of a protocol is what its   *)
(* adapter remembers, unless the agent refused it.                         *)
Told(n) ==
  ~ dirty[n] =>
    \A p \in Profile : Alone(p, n) =>
      \/ Adapter(p, n).wire = OnTheWire(p, n)
      \/ /\ ~ run[n].on
         /\ \/ Refused(kind[p], Adapter(p, n), OnTheWire(p, n))
            \/ kind[p] = "amneziawg" /\ unsent[n]

(* ... the clients of Xray have the flow of the inbound,                   *)
Flowing(n) ==
  ~ dirty[n] /\ ~ run[n].on /\ active /\ userJob[n] = "none" =>
    \/ Blocked(n)
    \/ \A p \in Inbounds(n) : kind[p] = "xray" =>
         Adapter(p, n).client.flow =
           (IF Adapter(p, n).wire = None THEN "none" ELSE Adapter(p, n).wire.cfg.flow)

(* ... the peer has the address the panel allocated,                       *)
Addressed(n) ==
  ~ dirty[n] /\ ~ run[n].on /\ ~ unsent[n] =>
    \/ Blocked(n)
    \/ \A p \in Profile : Alone(p, n) /\ kind[p] = "amneziawg" =>
         /\ Adapter(p, n).client # None /\ peerRow[p] # None
         /\ Adapter(p, n).client.address = <<p, peerRow[p]>>

(* ... and a running job will push the users to that profile.              *)
Found(n) ==
  ~ dirty[n] /\ run[n].on =>
    \A p \in Profile : Alone(p, n) /\ kind[p] = "amneziawg" => run[n].awg = p

NodeInv(n) ==
  /\ Running(n) /\ Timely(n) /\ Present(n) /\ Told(n)
  /\ Flowing(n) /\ Addressed(n) /\ Found(n)

-----------------------------------------------------------------------------
(* Steps that leave a node alone.                                          *)

SameRows(n) ==
  /\ kind' = kind /\ config' = config
  /\ \A p \in Profile : /\ bind'[p][n].enabled = bind[p][n].enabled
                        /\ bind'[p][n].over = bind[p][n].over
                        /\ bind'[p][n].port = bind[p][n].port

\* The same rows render the same inbounds.
LEMMA RowsStay ==
  ASSUME NEW n \in Node, SameRows(n)
  PROVE  /\ Inbounds(n)' = Inbounds(n)
         /\ \A p \in Profile : /\ OnTheWire(p, n)' = OnTheWire(p, n)
                               /\ Alone(p, n)' <=> Alone(p, n)
<1>1. kind' = kind /\ config' = config
  BY DEF SameRows
<1>2. \A p \in Profile : Visible(p, n)' = Visible(p, n)
  BY DEF SameRows, Visible
<1>3. Inbounds(n)' = Inbounds(n)
  BY <1>2 DEF Inbounds
<1>4. ASSUME NEW p \in Profile PROVE OnTheWire(p, n)' = OnTheWire(p, n)
  <2>1. bind'[p][n].over = bind[p][n].over /\ bind'[p][n].port = bind[p][n].port
    BY DEF SameRows
  <2>2. Merged(bind[p][n], p)' = Merged(bind[p][n], p)
    BY <1>1, <2>1 DEF Merged
  <2>. QED BY <1>1, <2>1, <2>2 DEF OnTheWire, Secret
<1>5. \A p \in Profile : Alone(p, n)' <=> Alone(p, n)
  BY <1>1, <1>2, <1>3 DEF Alone, Shadowed
<1>. QED BY <1>3, <1>4, <1>5

(* The state of a node's agent and of its jobs.                            *)
Stays(n) ==
  /\ SameRows(n)
  /\ core'[n] = core[n] /\ dirty'[n] = dirty[n] /\ run'[n] = run[n] /\ unsent'[n] = unsent[n]
  /\ \A p \in Profile : peerRow[p] # None => peerRow'[p] = peerRow[p]

\* What an agent refuses, it refuses still.
LEMMA BlockedStays ==
  ASSUME NEW n \in Node, Stays(n)
  PROVE  Blocked(n)' <=> Blocked(n)
<1>1. /\ kind' = kind /\ core'[n] = core[n]
      /\ \A p \in Profile : /\ OnTheWire(p, n)' = OnTheWire(p, n)
                            /\ Visible(p, n)' = Visible(p, n)
  BY RowsStay DEF Stays, SameRows, Visible
<1>. QED BY <1>1 DEF Blocked, Refused

\* A step that leaves a node alone, but for the job of the user, keeps its invariant.
LEMMA NodeStays ==
  ASSUME NEW n \in Node, Types, NodeInv(n), Stays(n), Timely(n)',
         (active' = active /\ userJob'[n] = userJob[n]) \/ userJob'[n] # "none"
  PROVE  NodeInv(n)'
<1>1. /\ kind' = kind /\ core'[n] = core[n] /\ dirty'[n] = dirty[n] /\ run'[n] = run[n]
      /\ unsent'[n] = unsent[n]
      /\ \A p \in Profile : peerRow[p] # None => peerRow'[p] = peerRow[p]
  BY DEF Stays, SameRows
<1>2. /\ Inbounds(n)' = Inbounds(n)
      /\ \A p \in Profile : /\ OnTheWire(p, n)' = OnTheWire(p, n)
                            /\ Alone(p, n)' <=> Alone(p, n)
  BY RowsStay DEF Stays
<1>3. Blocked(n)' <=> Blocked(n)
  BY BlockedStays
<1>4. \A p \in Profile : Adapter(p, n)' = Adapter(p, n)
  BY <1>1 DEF Adapter
<1>5. Running(n)'
  BY <1>1 DEF NodeInv, Running
<1>6. Present(n)'
  BY <1>1 DEF NodeInv, Present
<1>7. Told(n)'
  BY <1>1, <1>2, <1>4 DEF NodeInv, Told, Refused
<1>8. Flowing(n)'
  <2>1. Inbounds(n) \subseteq Profile
    BY DEF Inbounds
  <2>. QED BY <1>1, <1>2, <1>3, <1>4, <2>1 DEF NodeInv, Flowing
<1>9. Addressed(n)'
  BY <1>1, <1>2, <1>3, <1>4 DEF NodeInv, Addressed
<1>10. Found(n)'
  BY <1>1, <1>2 DEF NodeInv, Found
<1>. QED BY <1>5, <1>6, <1>7, <1>8, <1>9, <1>10 DEF NodeInv

(* While a job of inbounds waits, only the first three parts say anything. *)
LEMMA NodeDirty ==
  ASSUME NEW n, Running(n)', Timely(n)', Present(n)', dirty'[n]
  PROVE  NodeInv(n)'
BY DEF NodeInv, Told, Flowing, Addressed, Found

-----------------------------------------------------------------------------
(* The steps of a node.                                                    *)

(* A push that was taken makes the adapters remember the bindings; one that*)
(* failed leaves a binding that blocks the node.                           *)
LEMMA PushInboundsHere ==
  ASSUME Types, NEW n \in Node, NodeInv(n), PushInbounds(n)
  PROVE  NodeInv(n)'
<1>. DEFINE r == Applied(n)
            awg == {p \in Inbounds(n) : kind[p] = "amneziawg"}
<1>1. /\ core \in [Node -> [Protocols -> Core]] /\ dirty \in [Node -> BOOLEAN]
      /\ run \in [Node -> [on : BOOLEAN, awg : Profile \cup {None}]]
      /\ ~ run[n].on
      /\ UNCHANGED <<kind, config, bind, active, peerRow, userJob, unsent>>
  BY DEF Types, TypeOK, PushInbounds
<1>2. Outcome(Inbounds(n), r, n) /\ core'[n] = r.cores
  BY <1>1, TypesRows, AppliedOutcome DEF PushInbounds
<1>3. /\ \A k \in Protocols : /\ r.cores[k].client = core[n][k].client
                              /\ Follows(core[n][k]) => Follows(r.cores[k])
      /\ r.failed => \E p \in Inbounds(n) : Stuck(r.cores[kind[p]], p, n)
  BY <1>2 DEF Outcome
<1>4. ASSUME NEW p \in Profile, Alone(p, n)
      PROVE  \/ r.cores[kind[p]].wire = OnTheWire(p, n)
             \/ r.failed /\ Refused(kind[p], r.cores[kind[p]], OnTheWire(p, n))
  <2>. DEFINE k == kind[p]
              a == core[n][k]
              w == OnTheWire(p, n)
  <2>1. a \in Core /\ w \in Wire
    BY <1>1, TypesRows, WireFits DEF Types, TypeOK
  <2>2. r.cores[k] = ApplyInbound(k, a, w) /\ (r.failed \/ ~ Refused(k, a, w))
    BY <1>2, <1>4 DEF Outcome, Alone
  <2>. HIDE DEF k, a, w, r
  <2>3. /\ Refused(k, a, w) => ApplyInbound(k, a, w) = a
        /\ ~ Refused(k, a, w) => ApplyInbound(k, a, w).wire = w
    BY <2>1, ApplyFits
  <2>. QED BY <2>2, <2>3 DEF k, w
<1>5. /\ Inbounds(n)' = Inbounds(n)
      /\ \A p \in Profile : /\ OnTheWire(p, n)' = OnTheWire(p, n)
                            /\ Alone(p, n)' <=> Alone(p, n)
                            /\ Adapter(p, n)' = r.cores[kind[p]]
                            /\ kind'[p] = kind[p]
  BY <1>1, <1>2, RowsStay DEF SameRows, Adapter
<1>6. \/ dirty'[n]
      \/ r.failed /\ ~ dirty'[n] /\ ~ run'[n].on
      \/ ~ r.failed /\ ~ dirty'[n] /\ Inbounds(n) = {}
      \/ /\ ~ r.failed /\ ~ dirty'[n] /\ run'[n].on
         /\ run'[n].awg = IF awg = {} THEN None ELSE First(awg, n)
  <2>. HIDE DEF awg
  <2>. QED BY <1>1 DEF PushInbounds, awg
<1>. HIDE DEF r
<1>7. Running(n)' /\ Timely(n)' /\ Present(n)'
  <2>1. Running(n)'
    BY <1>2, <1>3 DEF NodeInv, Running
  <2>2. Timely(n)'
    BY <1>1 DEF NodeInv, Timely
  <2>3. Present(n)'
    BY <1>1, <1>2, <1>3 DEF NodeInv, Present
  <2>. QED BY <2>1, <2>2, <2>3
<1>8. CASE dirty'[n]
  BY <1>7, <1>8, NodeDirty
<1>9. CASE r.failed /\ ~ dirty'[n] /\ ~ run'[n].on
  <2>1. Told(n)'
    <3>1. ASSUME NEW p \in Profile, Alone(p, n)
          PROVE  \/ Adapter(p, n)' = r.cores[kind[p]] /\ r.cores[kind[p]].wire = OnTheWire(p, n)
                 \/ Refused(kind[p], Adapter(p, n), OnTheWire(p, n))'
      BY <1>4, <1>5, <3>1 DEF Refused
    <3>. QED BY <1>5, <1>9, <3>1 DEF Told
  <2>2. Blocked(n)'
    <3>1. PICK p \in Inbounds(n) : Stuck(r.cores[kind[p]], p, n)
      BY <1>3, <1>9
    <3>2. p \in Profile /\ Visible(p, n)'
      BY <1>1 DEF Inbounds, Visible
    <3>3. core'[n][kind'[p]] = r.cores[kind[p]] /\ kind'[p] = kind[p] /\ OnTheWire(p, n)' = OnTheWire(p, n)
      BY <1>2, <1>5, <3>2
    <3>. QED BY <3>1, <3>2, <3>3 DEF Blocked, Stuck, Refused
  <2>3. Flowing(n)' /\ Addressed(n)'
    BY <2>2 DEF Flowing, Addressed
  <2>4. Found(n)'
    BY <1>9 DEF Found
  <2>. QED BY <1>7, <2>1, <2>3, <2>4 DEF NodeInv
<1>10. CASE ~ r.failed /\ ~ dirty'[n] /\ Inbounds(n) = {}
  <2>1. \A p \in Profile : ~ Alone(p, n)'
    BY <1>5, <1>10 DEF Alone
  <2>2. Inbounds(n)' = {}
    BY <1>5, <1>10
  <2>3. Told(n)'
    BY <2>1 DEF Told
  <2>4. Flowing(n)'
    BY <2>2 DEF Flowing
  <2>5. Addressed(n)'
    BY <2>1 DEF Addressed
  <2>6. Found(n)'
    BY <2>1 DEF Found
  <2>. QED BY <1>7, <2>3, <2>4, <2>5, <2>6 DEF NodeInv
<1>11. CASE /\ ~ r.failed /\ ~ dirty'[n] /\ run'[n].on
            /\ run'[n].awg = IF awg = {} THEN None ELSE First(awg, n)
  <2>1. Told(n)'
    BY <1>4, <1>5, <1>11 DEF Told
  <2>2. Flowing(n)' /\ Addressed(n)'
    BY <1>11 DEF Flowing, Addressed
  <2>3. ASSUME NEW p \in Profile, Alone(p, n), kind[p] = "amneziawg"
        PROVE  run'[n].awg = p
    <3>1. awg = {p}
      BY <2>3 DEF Alone, Shadowed, Inbounds
    <3>. HIDE DEF awg
    <3>2. First(awg, n) \in awg
      BY <3>1, TypesRows, FirstOne
    <3>. QED BY <1>11, <3>1, <3>2
  <2>4. Found(n)'
    BY <1>5, <2>3 DEF Found
  <2>. QED BY <1>7, <2>1, <2>2, <2>4 DEF NodeInv
<1>. QED BY <1>6, <1>8, <1>9, <1>10, <1>11

(* The users that follow a push take the flow of the inbounds and, at the  *)
(* profile the push found, the address the panel allocated.                *)
LEMMA PushUsersHere ==
  ASSUME Types, NEW n \in Node, NodeInv(n), PushUsers(n)
  PROVE  NodeInv(n)'
<1>0. PICK drawn \in BOOLEAN : PushOf(n, drawn)
  BY PushUsersIs
<1>. DEFINE q == run[n].awg
            address == IF q # None /\ drawn THEN Address(q, config[q].subnet) ELSE None
<1>1. /\ core \in [Node -> [Protocols -> Core]] /\ peerRow \in [Profile -> Subnets \cup {None}]
      /\ run[n].on /\ ~ run'[n].on /\ active \in BOOLEAN /\ unsent'[n] = (~ active \/ ~ drawn)
      /\ UNCHANGED <<kind, config, bind, active, dirty, userJob>>
  BY <1>0 DEF Types, TypeOK, PushOf, Resting
<1>2. /\ Inbounds(n)' = Inbounds(n)
      /\ \A p \in Profile : /\ OnTheWire(p, n)' = OnTheWire(p, n)
                            /\ Alone(p, n)' <=> Alone(p, n)
  BY <1>1, RowsStay DEF SameRows
<1>3. active => /\ \A k \in Protocols : core'[n][k] = AddUser(k, core[n][k], address)
                /\ q # None /\ drawn => peerRow'[q] = Allocated(q, config[q].subnet)
  <2>1. q # None => q \in Profile
    BY AddressFits
  <2>. QED BY <1>0, <1>1, <2>1 DEF PushOf
<1>4. ~ active => core'[n] = core[n]
  BY <1>0 DEF PushOf
<1>5. /\ address \in Places
      /\ q # None /\ drawn =>
                     /\ Allocated(q, config[q].subnet) \in Subnets /\ address # None
                     /\ address = <<q, Allocated(q, config[q].subnet)>>
  BY AddressFits DEF Places, Address
<1>. HIDE DEF address
<1>6. ASSUME NEW k \in Protocols, active
      PROVE  LET a == core[n][k]
                 b == core'[n][k]
             IN /\ b.wire = a.wire /\ (Follows(a) => Follows(b))
                /\ a.client # None => b.client # None
                /\ k # "mtproto" /\ (k = "amneziawg" => address # None) =>
                     /\ b.client # None
                     /\ b.client.flow = (IF a.wire = None THEN "none" ELSE a.wire.cfg.flow)
                     /\ k = "amneziawg" => b.client.address = address
  <2>. DEFINE a == core[n][k]
  <2>1. a \in Core /\ core'[n][k] = AddUser(k, a, address)
    BY <1>1, <1>3, <1>6
  <2>. HIDE DEF a
  <2>2. LET b == AddUser(k, a, address)
        IN /\ b.wire = a.wire /\ (Follows(a) => Follows(b))
           /\ a.client # None => b.client # None
           /\ k # "mtproto" /\ (k = "amneziawg" => address # None) =>
                /\ b.client # None
                /\ b.client.flow = (IF a.wire = None THEN "none" ELSE a.wire.cfg.flow)
                /\ k = "amneziawg" => b.client.address = address
    BY <1>5, <2>1, AddFits
  <2>. QED BY <2>1, <2>2 DEF a
<1>7. Running(n)' /\ Timely(n)' /\ Present(n)'
  <2>1. Running(n)'
    BY <1>1, <1>4, <1>6 DEF NodeInv, Running
  <2>2. Timely(n)'
    BY <1>1 DEF NodeInv, Timely
  <2>3. Present(n)'
    BY <1>1, <1>4, <1>6 DEF NodeInv, Present
  <2>. QED BY <2>1, <2>2, <2>3
<1>8. CASE dirty'[n]
  BY <1>7, <1>8, NodeDirty
<1>9. CASE ~ dirty'[n]
  <2>1. ASSUME NEW p \in Profile
        PROVE  /\ kind'[p] = kind[p] /\ kind[p] \in Protocols
               /\ Adapter(p, n)' = core'[n][kind[p]] /\ Adapter(p, n) = core[n][kind[p]]
    BY <1>1 DEF Types, TypeOK, Adapter
  <2>2. Told(n)'
    <3>1. ASSUME NEW p \in Profile, Alone(p, n)
          PROVE  Adapter(p, n)'.wire = OnTheWire(p, n)
      <4>1. Adapter(p, n).wire = OnTheWire(p, n)
        BY <1>1, <1>9, <3>1 DEF NodeInv, Told
      <4>2. Adapter(p, n)'.wire = Adapter(p, n).wire
        BY <1>1, <1>4, <1>6, <2>1
      <4>. QED BY <4>1, <4>2
    <3>. QED BY <1>2, <3>1 DEF Told
  <2>3. Flowing(n)'
    <3>1. ASSUME active, NEW p \in Inbounds(n), kind[p] = "xray"
          PROVE  Adapter(p, n)'.client.flow =
                   IF Adapter(p, n)'.wire = None THEN "none" ELSE Adapter(p, n)'.wire.cfg.flow
      <4>1. p \in Profile
        BY DEF Inbounds
      <4>. QED BY <1>6, <2>1, <3>1, <4>1
    <3>2. \A p \in Inbounds(n) : p \in Profile /\ kind'[p] = kind[p]
      BY <2>1 DEF Inbounds
    <3>. QED BY <1>1, <1>2, <3>1, <3>2 DEF Flowing
  <2>4. Addressed(n)'
    <3>1. ASSUME active, drawn, NEW p \in Profile, Alone(p, n), kind[p] = "amneziawg"
          PROVE  /\ Adapter(p, n)'.client # None /\ peerRow'[p] # None
                 /\ Adapter(p, n)'.client.address = <<p, peerRow'[p]>>
      <4>1. q = p /\ p # None
        <5>1. q = p
          BY <1>1, <1>9, <3>1 DEF NodeInv, Found
        <5>. QED BY <5>1, NoneAssumption
      <4>. HIDE DEF q
      <4>2. peerRow'[p] = Allocated(p, config[p].subnet) /\ peerRow'[p] \in Subnets
            /\ address = <<p, peerRow'[p]>> /\ address # None
        BY <1>3, <1>5, <3>1, <4>1
      <4>3. peerRow'[p] # None
        BY <4>2, NoneAssumption
      <4>4. core'[n][kind[p]].client # None /\ core'[n][kind[p]].client.address = address
        BY <1>6, <2>1, <3>1, <4>2
      <4>. QED BY <2>1, <4>2, <4>3, <4>4
    <3>. QED BY <1>1, <1>2, <2>1, <3>1 DEF Addressed
  <2>5. Found(n)'
    BY <1>1 DEF Found
  <2>. QED BY <1>7, <2>2, <2>3, <2>4, <2>5 DEF NodeInv
<1>. QED BY <1>8, <1>9

(* A job that adds the user changes no peer; one that removes him leaves   *)
(* the peer to the next push (unsent).                                     *)
LEMMA DeliverHere ==
  ASSUME Types, NEW n \in Node, NodeInv(n), DeliverUser(n)
  PROVE  NodeInv(n)'
<1>1. /\ core \in [Node -> [Protocols -> Core]] /\ active \in BOOLEAN
      /\ unsent \in [Node -> BOOLEAN]
      /\ userJob \in [Node -> {"none", "add", "remove"}]
      /\ userJob'[n] = "none" /\ unsent'[n] = (unsent[n] \/ userJob[n] = "remove")
      /\ UNCHANGED <<kind, config, bind, active, peerRow, dirty, run>>
  BY DEF Types, TypeOK, DeliverUser
<1>2. /\ Inbounds(n)' = Inbounds(n)
      /\ \A p \in Profile : /\ OnTheWire(p, n)' = OnTheWire(p, n)
                            /\ Alone(p, n)' <=> Alone(p, n)
                            /\ Visible(p, n)' = Visible(p, n)
                            /\ kind'[p] = kind[p] /\ kind[p] \in Protocols
                            /\ Adapter(p, n)' = core'[n][kind[p]]
                            /\ Adapter(p, n) = core[n][kind[p]]
  <2>1. SameRows(n)
    BY <1>1 DEF SameRows
  <2>2. \A p \in Profile : kind[p] \in Protocols
    BY DEF Types, TypeOK
  <2>. QED BY <1>1, <2>1, <2>2, RowsStay DEF Adapter, Visible
<1>3. \/ userJob[n] = "add" /\ active
      \/ userJob[n] = "remove" /\ ~ active
  BY <1>1 DEF NodeInv, Timely, DeliverUser
<1>4. ASSUME NEW k \in Protocols, userJob[n] = "add"
      PROVE  LET a == core[n][k]
                 b == core'[n][k]
             IN /\ b.wire = a.wire /\ (Follows(a) => Follows(b))
                /\ k \in {"mtproto", "amneziawg"} => b = a
                /\ k \notin {"mtproto", "amneziawg"} =>
                     /\ b.client # None
                     /\ b.client.flow = (IF a.wire = None THEN "none" ELSE a.wire.cfg.flow)
  <2>. DEFINE a == core[n][k]
  <2>1. a \in Core /\ core'[n][k] = AddUser(k, a, None)
    BY <1>1, <1>4 DEF DeliverUser
  <2>. HIDE DEF a
  <2>2. LET b == AddUser(k, a, None)
        IN /\ b.wire = a.wire /\ (Follows(a) => Follows(b))
           /\ k \in {"mtproto", "amneziawg"} => b = a
           /\ k \notin {"mtproto", "amneziawg"} =>
                /\ b.client # None
                /\ b.client.flow = (IF a.wire = None THEN "none" ELSE a.wire.cfg.flow)
    <3>1. None \in Places
      BY DEF Places
    <3>. QED BY <2>1, <3>1, AddFits
  <2>. QED BY <2>1, <2>2 DEF a
<1>5. ASSUME NEW k \in Protocols, userJob[n] = "remove"
      PROVE  core'[n][k].wire = core[n][k].wire /\ (Follows(core[n][k]) => Follows(core'[n][k]))
  <2>1. core[n][k] \in Core /\ core'[n][k] = RemoveUser(core[n][k])
    BY <1>1, <1>5 DEF DeliverUser
  <2>. QED BY <2>1, RemoveFits
<1>6. Running(n)'
  BY <1>3, <1>4, <1>5 DEF NodeInv, Running
<1>7. Timely(n)' /\ Present(n)'
  BY <1>1, <1>3, <1>4 DEF Timely, Present
<1>8. Told(n)'
  <2>1. ASSUME NEW p \in Profile, Alone(p, n), ~ dirty[n]
        PROVE  \/ Adapter(p, n)'.wire = OnTheWire(p, n)
               \/ /\ ~ run[n].on
                  /\ \/ Refused(kind[p], Adapter(p, n), OnTheWire(p, n))'
                     \/ kind[p] = "amneziawg" /\ unsent'[n]
    <3>. DEFINE w == OnTheWire(p, n)
    <3>1. CASE Adapter(p, n).wire = w
      BY <1>2, <1>3, <1>4, <1>5, <3>1
    <3>2. CASE ~ run[n].on /\ kind[p] = "amneziawg" /\ unsent[n]
      BY <1>1, <3>2
    <3>3. CASE ~ run[n].on /\ Refused(kind[p], Adapter(p, n), w)
      <4>1. CASE kind[p] = "shadowsocks" /\ w.cfg.psk = None
        BY <1>2, <3>3, <4>1 DEF Refused
      <4>2. CASE kind[p] = "amneziawg"
        <5>1. CASE userJob[n] = "add"
          <6>1. Adapter(p, n)' = Adapter(p, n)
            BY <1>2, <1>4, <4>2, <5>1
          <6>. QED BY <1>2, <3>3, <6>1 DEF Refused
        <5>2. CASE userJob[n] = "remove"
          BY <1>1, <3>3, <4>2, <5>2
        <5>. QED BY <1>3, <5>1, <5>2
      <4>. QED BY <3>3, <4>1, <4>2 DEF Refused
    <3>. QED BY <2>1, <3>1, <3>2, <3>3 DEF NodeInv, Told
  <2>. QED BY <1>1, <1>2, <2>1 DEF Told
<1>9. Flowing(n)'
  <2>1. ASSUME active, NEW p \in Inbounds(n), kind[p] = "xray"
        PROVE  /\ kind'[p] = kind[p]
               /\ Adapter(p, n)'.client.flow =
                    IF Adapter(p, n)'.wire = None THEN "none" ELSE Adapter(p, n)'.wire.cfg.flow
    <3>1. p \in Profile
      BY DEF Inbounds
    <3>. QED BY <1>2, <1>3, <1>4, <2>1, <3>1
  <2>2. \A p \in Inbounds(n) : kind'[p] = kind[p]
    BY <1>1
  <2>. QED BY <1>1, <1>2, <2>1, <2>2 DEF Flowing
<1>10. Addressed(n)'
  <2>. SUFFICES ASSUME ~ dirty[n], ~ run[n].on, ~ unsent[n], userJob[n] = "add"
                PROVE  Addressed(n)'
    BY <1>1, <1>3 DEF Addressed
  <2>1. \A p \in Profile : kind[p] = "amneziawg" => Adapter(p, n)' = Adapter(p, n)
    BY <1>2, <1>4
  <2>2. ASSUME Blocked(n) PROVE Blocked(n)'
    <3>1. PICK p \in Profile :
            /\ Visible(p, n)
            /\ ~ OnTheWire(p, n).cfg.sane \/ Refused(kind[p], core[n][kind[p]], OnTheWire(p, n))
      BY <2>2 DEF Blocked
    <3>2. kind[p] = "amneziawg" => core'[n][kind[p]] = core[n][kind[p]]
      BY <1>2, <2>1
    <3>3. /\ Visible(p, n)'
          /\ ~ OnTheWire(p, n)'.cfg.sane
               \/ Refused(kind[p], core[n][kind[p]], OnTheWire(p, n))'
      BY <1>2, <3>1, <3>2 DEF Refused
    <3>. QED BY <3>3 DEF Blocked
  <2>. QED BY <1>1, <1>2, <2>1, <2>2 DEF NodeInv, Addressed
<1>11. Found(n)'
  BY <1>1, <1>2 DEF NodeInv, Found
<1>. QED BY <1>6, <1>7, <1>8, <1>9, <1>10, <1>11 DEF NodeInv

\* A restarted agent waits for both syncs.
LEMMA AgentRestartsHere ==
  ASSUME Types, NEW n \in Node, NodeInv(n), AgentRestarts(n)
  PROVE  NodeInv(n)'
<1>1. \A k \in Protocols : core'[n][k] = Idle
  BY DEF AgentRestarts, Types, TypeOK
<1>2. dirty'[n] /\ active' = active /\ (active => userJob'[n] = "add")
      /\ (~ active => userJob'[n] = userJob[n])
  BY DEF AgentRestarts, Types, TypeOK
<1>3. Running(n)'
  BY <1>1, IdleFits DEF Running
<1>4. Timely(n)' /\ Present(n)'
  BY <1>2 DEF NodeInv, Timely, Present
<1>. QED BY <1>2, <1>3, <1>4, NodeDirty

-----------------------------------------------------------------------------
(* Every step keeps what holds of the nodes.                               *)

\* At first every node waits for both syncs.
LEMMA InitNodes == Init => \A n \in Node : NodeInv(n)
<1>. SUFFICES ASSUME Init, NEW n \in Node PROVE NodeInv(n)
  OBVIOUS
<1>1. /\ \A k \in Protocols : core[n][k] = Idle
      /\ dirty[n] = TRUE /\ active = TRUE /\ userJob[n] = "add"
  BY DEF Init
<1>2. Running(n) /\ Timely(n) /\ Present(n)
  BY <1>1, IdleFits DEF Running, Timely, Present
<1>. QED BY <1>1, <1>2 DEF NodeInv, Told, Flowing, Addressed, Found

(* A step of another node, or of no node, leaves this one alone.           *)
LEMMA Elsewhere ==
  ASSUME Types, NEW n \in Node, NodeInv(n), SameRows(n),
         core'[n] = core[n], dirty'[n] = dirty[n], run'[n] = run[n], unsent'[n] = unsent[n],
         active' = active, userJob'[n] = userJob[n],
         \A p \in Profile : peerRow[p] # None => peerRow'[p] = peerRow[p]
  PROVE  NodeInv(n)'
<1>1. Stays(n)
  BY DEF Stays
<1>2. Timely(n)'
  BY DEF NodeInv, Timely
<1>. QED BY <1>1, <1>2, NodeStays

(* A change of the rows of a node queues its inbounds again.               *)
LEMMA Queued ==
  ASSUME NEW n \in Node, NodeInv(n), dirty'[n],
         UNCHANGED <<core, active, userJob>>
  PROVE  NodeInv(n)'
<1>1. Running(n)' /\ Timely(n)' /\ Present(n)'
  BY DEF NodeInv, Running, Timely, Present
<1>. QED BY <1>1, NodeDirty

\* updateBinding queues the inbounds of its node, and of no other.
LEMMA UpdateBindingNode ==
  ASSUME Types, NEW n \in Node, NodeInv(n), UpdateBinding
  PROVE  NodeInv(n)'
<1>0. PICK p \in Profile, m \in Node : \E e \in BOOLEAN, o \in Overrides(kind[p]), t \in Ports :
         /\ \A q \in Profile \ {p} : bind[q][m].port # t
         /\ bind' = [bind EXCEPT ![p][m] = [enabled |-> e, over |-> o, port |-> t, hosts |-> @.hosts]]
         /\ bind' # bind
         /\ dirty' = [dirty EXCEPT ![m] = TRUE]
  BY DEF UpdateBinding
<1>1. PICK e \in BOOLEAN, o \in Overrides(kind[p]), t \in Ports :
         /\ \A q \in Profile \ {p} : bind[q][m].port # t
         /\ bind' = [bind EXCEPT ![p][m] = [enabled |-> e, over |-> o, port |-> t, hosts |-> @.hosts]]
         /\ bind' # bind
         /\ dirty' = [dirty EXCEPT ![m] = TRUE]
  BY <1>0
<1>2. UNCHANGED <<kind, config, active, peerRow, core, run, userJob, unsent>>
  BY DEF UpdateBinding
<1>3. dirty \in [Node -> BOOLEAN] /\ bind \in [Profile -> [Node -> Binding]]
  BY DEF Types, TypeOK
<1>4. CASE n = m
  <2>1. dirty'[n]
    BY <1>1, <1>3, <1>4
  <2>. QED BY <1>2, <2>1, Queued
<1>5. CASE n # m
  <2>1. \A q \in Profile : bind'[q][n] = bind[q][n]
    BY <1>1, <1>3, <1>5
  <2>2. SameRows(n)
    BY <1>2, <2>1 DEF SameRows
  <2>3. dirty'[n] = dirty[n]
    BY <1>1, <1>3, <1>5
  <2>. QED BY <1>2, <2>2, <2>3, Elsewhere
<1>. QED BY <1>4, <1>5

\* Hosts are not pushed.
LEMMA UpdateHostsNode ==
  ASSUME Types, NEW n \in Node, NodeInv(n), UpdateHosts
  PROVE  NodeInv(n)'
<1>1. PICK p \in Profile, m \in Node, hs \in SUBSET Hosts :
         bind' = [bind EXCEPT ![p][m] = [@ EXCEPT !.hosts = hs]]
  BY DEF UpdateHosts
<1>2. bind \in [Profile -> [Node -> Binding]]
  BY DEF Types, TypeOK
<1>3. UNCHANGED <<kind, config, active, peerRow, core, dirty, run, userJob, unsent>>
  BY DEF UpdateHosts
<1>4. ASSUME NEW q \in Profile
      PROVE  /\ bind'[q][n].enabled = bind[q][n].enabled
             /\ bind'[q][n].over = bind[q][n].over
             /\ bind'[q][n].port = bind[q][n].port
  <2>. DEFINE b == [bind[p][m] EXCEPT !.hosts = hs]
  <2>1. bind[p][m] \in Binding
    BY <1>2
  <2>2. /\ b.enabled = bind[p][m].enabled /\ b.over = bind[p][m].over
        /\ b.port = bind[p][m].port
    BY <2>1 DEF Binding
  <2>3. bind' = [bind EXCEPT ![p] = [bind[p] EXCEPT ![m] = b]]
    BY <1>1
  <2>. HIDE DEF b
  <2>4. bind'[q][n] = IF q = p /\ n = m THEN b ELSE bind[q][n]
    BY <1>2, <2>3
  <2>. QED BY <2>2, <2>4
<1>5. SameRows(n)
  BY <1>3, <1>4 DEF SameRows
<1>. QED BY <1>3, <1>5, Elsewhere

\* A change of the status leaves a job behind that is about the new one.
LEMMA UpdateStatusNode ==
  ASSUME Types, NEW n \in Node, NodeInv(n), UpdateStatus
  PROVE  NodeInv(n)'
<1>1. /\ active' = ~ active /\ active \in BOOLEAN
      /\ userJob'[n] = IF active THEN "remove" ELSE "add"
      /\ UNCHANGED <<kind, config, bind, peerRow, core, dirty, run, unsent>>
  BY DEF UpdateStatus, Types, TypeOK
<1>2. Stays(n)
  BY <1>1 DEF Stays, SameRows
<1>3. Timely(n)' /\ userJob'[n] # "none"
  BY <1>1 DEF Timely
<1>. QED BY <1>2, <1>3, NodeStays

\* An address that was drawn is kept.
LEMMA FetchKeeps == ASSUME Fetch, NEW p \in Profile, peerRow[p] # None
                    PROVE  peerRow'[p] = peerRow[p]
BY DEF Fetch, Allocated

\* A request changes nothing of a node but addresses not yet drawn.
LEMMA FetchNode ==
  ASSUME Types, NEW n \in Node, NodeInv(n), Fetch
  PROVE  NodeInv(n)'
<1>1. UNCHANGED <<kind, config, bind, active, core, dirty, run, userJob, unsent>>
  BY DEF Fetch
<1>2. SameRows(n)
  BY <1>1 DEF SameRows
<1>. QED BY <1>1, <1>2, FetchKeeps, Elsewhere

\* The push to a node, for this node and the others.
LEMMA PushInboundsNode ==
  ASSUME Types, NEW n \in Node, NodeInv(n), NEW m \in Node, PushInbounds(m)
  PROVE  NodeInv(n)'
<1>1. CASE n = m
  BY <1>1, PushInboundsHere
<1>2. CASE n # m
  <2>1. /\ core'[n] = core[n] /\ dirty'[n] = dirty[n] /\ run'[n] = run[n]
        /\ UNCHANGED <<kind, config, bind, active, peerRow, userJob, unsent>>
    <3>1. run' = run \/ \E x : run' = [run EXCEPT ![m] = x]
      BY DEF PushInbounds
    <3>2. core'[n] = core[n] /\ dirty'[n] = dirty[n]
      BY <1>2 DEF PushInbounds, Types, TypeOK
    <3>3. run'[n] = run[n]
      BY <1>2, <3>1 DEF Types, TypeOK
    <3>4. UNCHANGED <<kind, config, bind, active, peerRow, userJob, unsent>>
      BY DEF PushInbounds
    <3>. QED BY <3>2, <3>3, <3>4
  <2>2. SameRows(n)
    BY <2>1 DEF SameRows
  <2>. QED BY <2>1, <2>2, Elsewhere
<1>. QED BY <1>1, <1>2

\* The push of the users to a node, for this node and the others.
LEMMA PushUsersNode ==
  ASSUME Types, NEW n \in Node, NodeInv(n), NEW m \in Node, PushUsers(m)
  PROVE  NodeInv(n)'
<1>1. CASE n = m
  BY <1>1, PushUsersHere
<1>2. CASE n # m
  <2>1. /\ core'[n] = core[n] /\ run'[n] = run[n] /\ unsent'[n] = unsent[n]
        /\ UNCHANGED <<kind, config, bind, active, dirty, userJob>>
    BY <1>2 DEF PushUsers, Types, TypeOK
  <2>2. SameRows(n)
    BY <2>1 DEF SameRows
  <2>3. ASSUME NEW p \in Profile, peerRow[p] # None PROVE peerRow'[p] = peerRow[p]
    <3>. DEFINE q == run[m].awg
    <3>1. peerRow' = peerRow \/ peerRow' = [peerRow EXCEPT ![q] = Allocated(q, config[q].subnet)]
      BY DEF PushUsers
    <3>2. peerRow \in [Profile -> Subnets \cup {None}]
      BY DEF Types, TypeOK
    <3>. HIDE DEF q
    <3>. QED BY <2>3, <3>1, <3>2 DEF Allocated
  <2>. QED BY <2>1, <2>2, <2>3, Elsewhere
<1>. QED BY <1>1, <1>2

\* The job of a user at a node, for this node and the others.
LEMMA DeliverUserNode ==
  ASSUME Types, NEW n \in Node, NodeInv(n), NEW m \in Node, DeliverUser(m)
  PROVE  NodeInv(n)'
<1>1. CASE n = m
  BY <1>1, DeliverHere
<1>2. CASE n # m
  <2>1. /\ core'[n] = core[n] /\ unsent'[n] = unsent[n] /\ userJob'[n] = userJob[n]
        /\ UNCHANGED <<kind, config, bind, active, peerRow, dirty, run>>
    BY <1>2 DEF DeliverUser, Types, TypeOK
  <2>2. SameRows(n)
    BY <2>1 DEF SameRows
  <2>. QED BY <2>1, <2>2, Elsewhere
<1>. QED BY <1>1, <1>2

\* The restart of an agent, for this node and the others.
LEMMA AgentRestartsNode ==
  ASSUME Types, NEW n \in Node, NodeInv(n), NEW m \in Node, AgentRestarts(m)
  PROVE  NodeInv(n)'
<1>1. CASE n = m
  BY <1>1, AgentRestartsHere
<1>2. CASE n # m
  <2>1. /\ core'[n] = core[n] /\ dirty'[n] = dirty[n] /\ unsent'[n] = unsent[n]
        /\ userJob'[n] = userJob[n]
        /\ UNCHANGED <<kind, config, bind, active, peerRow, run>>
    BY <1>2 DEF AgentRestarts, Types, TypeOK
  <2>2. SameRows(n)
    BY <2>1 DEF SameRows
  <2>. QED BY <2>1, <2>2, Elsewhere
<1>. QED BY <1>1, <1>2

\* So every step keeps the invariant of every node.
LEMMA StepNode ==
  ASSUME Types, NEW n \in Node, NodeInv(n), [Next]_vars
  PROVE  NodeInv(n)'
<1>1. CASE UpdateProfile
  <2>1. dirty'[n] /\ UNCHANGED <<core, active, userJob>>
    BY <1>1 DEF UpdateProfile
  <2>. QED BY <2>1, Queued
<1>2. CASE UNCHANGED vars
  <2>1. UNCHANGED <<kind, config, bind, active, peerRow, core, dirty, run, userJob, unsent>>
    BY <1>2 DEF vars
  <2>2. SameRows(n)
    BY <2>1 DEF SameRows
  <2>. QED BY <2>1, <2>2, Elsewhere
<1>. QED
  BY <1>1, <1>2, UpdateBindingNode, UpdateHostsNode, UpdateStatusNode, FetchNode, PushInboundsNode,
     PushUsersNode, DeliverUserNode, AgentRestartsNode DEF Next

(* The inductive invariant.                                                *)
Inv == Types /\ \A n \in Node : NodeInv(n)

\* The inductive invariant holds in every reachable state.
LEMMA InvHolds == Spec => []Inv
<1>1. Init => Inv
  BY InitTypes, InitNodes DEF Inv
<1>2. Inv /\ [Next]_vars => Inv'
  <2>. SUFFICES ASSUME Inv, [Next]_vars PROVE Inv'
    OBVIOUS
  <2>1. Types'
    BY StepTypes DEF Inv
  <2>2. \A n \in Node : NodeInv(n)'
    BY StepNode DEF Inv
  <2>. QED BY <2>1, <2>2 DEF Inv
<1>. QED BY <1>1, <1>2, PTL DEF Spec

-----------------------------------------------------------------------------
(* What a format says of an endpoint.                                      *)

\* The endpoint generateSubscription makes of a host, field by field.
LEMMA EndpointIs ==
  ASSUME NEW p, NEW n, NEW h
  PROVE  LET c == Merged(bind[p][n], p)
             k == kind[p]
         IN ProtocolEndpoint(p, n, h) =
              [profile |-> p, host |-> h, port |-> bind[p][n].port, key |-> c.key,
               net |-> IF k = "xray" THEN c.net ELSE "raw",
               sub |-> IF k = "xray" THEN c.sub ELSE "vless",
               flow |-> IF k = "xray" THEN c.flow ELSE "none",
               psk |-> IF k = "shadowsocks" THEN c.psk ELSE None,
               secret |-> IF k = "mtproto" THEN Secret(p, n, c) ELSE None,
               address |-> IF k = "amneziawg" THEN Address(p, c.subnet) ELSE None,
               over |-> ProtocolEndpoint(p, n, h).over]
<1>. DEFINE c == Merged(bind[p][n], p)
            e == Endpoint(p, n, h)
<1>1. e = [profile |-> p, host |-> h, port |-> bind[p][n].port, key |-> c.key,
           net |-> "raw", sub |-> "vless", flow |-> "none", psk |-> None, secret |-> None,
           address |-> None, over |-> {}]
  BY DEF Endpoint
<1>2. ProtocolEndpoint(p, n, h) =
        CASE kind[p] = "xray" -> XrayEndpoint(e, c)
          [] kind[p] = "amneziawg" -> AmneziawgEndpoint(e, c)
          [] kind[p] = "mtproto" -> MtprotoEndpoint(e, n, c)
          [] kind[p] = "shadowsocks" -> ShadowsocksEndpoint(e, c)
          [] OTHER -> e
  BY DEF ProtocolEndpoint
<1>. HIDE DEF c, e
<1>3. CASE kind[p] = "xray"
  <2>1. ProtocolEndpoint(p, n, h) = XrayEndpoint(e, c)
    BY <1>2, <1>3
  <2>. QED BY <1>1, <1>3, <2>1 DEF XrayEndpoint, c
<1>4. CASE kind[p] = "amneziawg"
  <2>1. ProtocolEndpoint(p, n, h) = AmneziawgEndpoint(e, c)
    BY <1>2, <1>4
  <2>. QED BY <1>1, <1>4, <2>1 DEF AmneziawgEndpoint, c
<1>5. CASE kind[p] = "mtproto"
  <2>1. ProtocolEndpoint(p, n, h) = MtprotoEndpoint(e, n, c)
    BY <1>2, <1>5
  <2>. QED BY <1>1, <1>5, <2>1 DEF MtprotoEndpoint, c
<1>6. CASE kind[p] = "shadowsocks"
  <2>1. ProtocolEndpoint(p, n, h) = ShadowsocksEndpoint(e, c)
    BY <1>2, <1>6
  <2>. QED BY <1>1, <1>6, <2>1 DEF ShadowsocksEndpoint, c
<1>7. CASE kind[p] \notin {"xray", "amneziawg", "mtproto", "shadowsocks"}
  <2>1. ProtocolEndpoint(p, n, h) = e
    BY <1>2, <1>7
  <2>. QED BY <1>1, <1>7, <2>1 DEF c
<1>. QED BY <1>3, <1>4, <1>5, <1>6, <1>7

(* What a client reads back.                                               *)
LEMMA WrittenIs ==
  ASSUME NEW d, NEW fields,
         DOMAIN d = {"profile", "host", "port", "key", "net", "sub", "flow", "psk", "secret", "address",
                     "over"}
  PROVE  LET e == Written(d, fields)
         IN /\ e.profile = d.profile /\ e.host = d.host /\ e.port = d.port
            /\ "key" \in fields => e.key = d.key
            /\ e.net = IF "net" \in fields THEN d.net ELSE "raw"
            /\ e.sub = IF "sub" \in fields THEN d.sub ELSE "vless"
            /\ e.flow = IF "flow" \in fields THEN d.flow ELSE "none"
            /\ "psk" \in fields => e.psk = d.psk
            /\ "secret" \in fields => e.secret = d.secret
            /\ "address" \in fields => e.address = d.address
<1>. DEFINE rest == [key |-> None, net |-> "raw", sub |-> "vless", flow |-> "none",
                     psk |-> None, secret |-> None, address |-> None, over |-> {}]
            e == Written(d, fields)
<1>1. e = [f \in DOMAIN d |-> IF f \in {"profile", "host", "port"} \cup fields THEN d[f] ELSE rest[f]]
  BY DEF Written
<1>2. rest.net = "raw" /\ rest.sub = "vless" /\ rest.flow = "none"
  OBVIOUS
<1>. HIDE DEF rest, e
<1>3. ASSUME NEW f \in DOMAIN d
      PROVE  e[f] = IF f \in {"profile", "host", "port"} \cup fields THEN d[f] ELSE rest[f]
  BY <1>1
<1>4. e.profile = d.profile /\ e.host = d.host /\ e.port = d.port
  BY <1>3
<1>5. /\ e.net = IF "net" \in fields THEN d.net ELSE "raw"
      /\ e.sub = IF "sub" \in fields THEN d.sub ELSE "vless"
      /\ e.flow = IF "flow" \in fields THEN d.flow ELSE "none"
  BY <1>2, <1>3
<1>6. /\ "key" \in fields => e.key = d.key
      /\ "psk" \in fields => e.psk = d.psk
      /\ "secret" \in fields => e.secret = d.secret
      /\ "address" \in fields => e.address = d.address
  BY <1>3
<1>. QED BY <1>4, <1>5, <1>6 DEF e

(* A format that can speak of a profile says all that its server asks for. *)
Says(e, p, n, h, c) ==
  /\ e.profile = p /\ e.host = h /\ e.port = bind[p][n].port
  /\ kind[p] \in {"hysteria", "xray", "amneziawg", "naive", "shadowsocks"} => e.key = c.key
  /\ kind[p] = "xray" =>
       e.net = c.net /\ e.sub = c.sub /\ (c.sub = "vless" => e.flow = c.flow)
  /\ kind[p] = "shadowsocks" => e.psk = c.psk
  /\ kind[p] = "mtproto" => e.secret = Secret(p, n, c)
  /\ kind[p] = "amneziawg" => e.address = Address(p, c.subnet)

\* Of the overrides some are left out, and of the rest nothing.
LEMMA TellingIs ==
  ASSUME NEW d, NEW over
  PROVE  LET x == Telling(d, over)
         IN DOMAIN x = DOMAIN d /\ \A g \in DOMAIN d \ {"over"} : x[g] = d[g]
BY DEF Telling

\* So says every format, but for what Unspoken names.
LEMMA Spoken ==
  ASSUME Rows, NEW p \in Profile, NEW n \in Node, NEW h, NEW f \in Format,
         NEW e \in InFormat(f, kind[p], ProtocolEndpoint(p, n, h)), ~ Unspoken(p, f)
  PROVE  Says(e, p, n, h, Merged(bind[p][n], p))
<1>. DEFINE c == Merged(bind[p][n], p)
            d == ProtocolEndpoint(p, n, h)
            k == kind[p]
<1>1. d = [profile |-> p, host |-> h, port |-> bind[p][n].port, key |-> c.key,
           net |-> IF k = "xray" THEN c.net ELSE "raw",
           sub |-> IF k = "xray" THEN c.sub ELSE "vless",
           flow |-> IF k = "xray" THEN c.flow ELSE "none",
           psk |-> IF k = "shadowsocks" THEN c.psk ELSE None,
           secret |-> IF k = "mtproto" THEN Secret(p, n, c) ELSE None,
           address |-> IF k = "amneziawg" THEN Address(p, c.subnet) ELSE None,
           over |-> d.over]
  BY EndpointIs
<1>2. /\ c.net \in {"raw", "ws", "xhttp", "kcp"} /\ c.sub \in {"vless", "trojan"} /\ c.flow \in {"none", "vision"}
      /\ c.net = config[p].net /\ c.sub = config[p].sub /\ c.flow = config[p].flow
  BY MergedFits DEF Config
<1>3. k \in {"hysteria", "xray", "amneziawg", "naive", "shadowsocks", "mtproto", "mieru"}
  BY ProtocolsAssumption DEF Rows
<1>4. e \in InFormat(f, k, d)
  OBVIOUS
<1>5. /\ ~ (k = "xray" /\ c.sub = "vless" /\ c.flow = "vision" /\ c.net # "raw")
      /\ ~ (k = "shadowsocks" /\ f \in {"clash", "singbox"})
      /\ ~ (f \in {"clash", "singbox"} /\ c.net \in {"xhttp", "kcp"})
      /\ ~ (f = "xrayjson" /\ (c.net # "raw" \/ c.sub # "vless"))
  BY <1>2 DEF Unspoken
<1>. SUFFICES Says(e, p, n, h, c)
  OBVIOUS
<1>. HIDE DEF c, d, k
<1>6. /\ DOMAIN d = {"profile", "host", "port", "key", "net", "sub", "flow", "psk", "secret", "address",
                     "over"}
      /\ d.profile = p /\ d.host = h /\ d.port = bind[p][n].port /\ d.key = c.key
      /\ d.net = (IF k = "xray" THEN c.net ELSE "raw")
      /\ d.sub = (IF k = "xray" THEN c.sub ELSE "vless")
      /\ d.flow = (IF k = "xray" THEN c.flow ELSE "none")
      /\ k = "shadowsocks" => d.psk = c.psk
      /\ k = "mtproto" => d.secret = Secret(p, n, c)
      /\ k = "amneziawg" => d.address = Address(p, c.subnet)
  BY <1>1
<1>7. Says(d, p, n, h, c)
  BY <1>6 DEF Says, k
<1>8. ASSUME NEW x, DOMAIN x = DOMAIN d, \A g \in DOMAIN d \ {"over"} : x[g] = d[g],
             NEW fields, e = Written(x, fields),
             k \in {"hysteria", "xray", "amneziawg", "naive", "shadowsocks"} => "key" \in fields,
             k = "xray" =>
               /\ "net" \in fields \/ c.net = "raw"
               /\ "sub" \in fields \/ c.sub = "vless"
               /\ c.sub = "vless" => "flow" \in fields \/ c.flow = "none",
             k = "shadowsocks" => "psk" \in fields,
             k = "mtproto" => "secret" \in fields,
             k = "amneziawg" => "address" \in fields
      PROVE  Says(e, p, n, h, c)
  <2>1. /\ e.profile = d.profile /\ e.host = d.host /\ e.port = d.port
        /\ "key" \in fields => e.key = d.key
        /\ e.net = IF "net" \in fields THEN d.net ELSE "raw"
        /\ e.sub = IF "sub" \in fields THEN d.sub ELSE "vless"
        /\ e.flow = IF "flow" \in fields THEN d.flow ELSE "none"
        /\ "psk" \in fields => e.psk = d.psk
        /\ "secret" \in fields => e.secret = d.secret
        /\ "address" \in fields => e.address = d.address
    <3>1. /\ x.profile = d.profile /\ x.host = d.host /\ x.port = d.port /\ x.key = d.key
          /\ x.net = d.net /\ x.sub = d.sub /\ x.flow = d.flow /\ x.psk = d.psk
          /\ x.secret = d.secret /\ x.address = d.address
      BY <1>6, <1>8
    <3>. QED BY <1>6, <1>8, <3>1, WrittenIs
  <2>. QED BY <1>6, <1>8, <2>1 DEF Says, k
<1>9. CASE f = "plain"
  <2>1. e \in Uri(k, d)
    BY <1>4, <1>9 DEF InFormat
  <2>2. CASE k = "xray"
    <3>1. CASE d.sub = "trojan"
      <4>1. e = Written(d, {"key", "net", "sub", "over"})
        BY <2>1, <2>2, <3>1 DEF Uri, TrojanUri
      <4>. QED BY <1>6, <1>8, <2>2, <3>1, <4>1
    <3>2. CASE d.sub # "trojan"
      <4>. DEFINE fields == {"key", "net", "over"}
                               \cup (IF d.net \in {"raw", "xhttp"} THEN {"flow"} ELSE {})
      <4>1. e = Written(d, fields)
        BY <2>1, <2>2, <3>2 DEF Uri, VlessUri
      <4>3. c.sub = "vless"
        BY <1>2, <1>6, <2>2, <3>2
      <4>2. "key" \in fields /\ "net" \in fields /\ ("flow" \in fields \/ c.flow = "none")
        BY <1>2, <1>5, <1>6, <2>2, <4>3
      <4>. HIDE DEF fields
      <4>. QED BY <1>8, <2>2, <4>1, <4>2, <4>3
    <3>. QED BY <3>1, <3>2
  <2>3. CASE k = "shadowsocks"
    <3>1. e = Written(d, {"key", "psk"})
      BY <2>1, <2>3 DEF Uri, ShadowsocksUri
    <3>. QED BY <1>8, <2>3, <3>1
  <2>4. CASE k = "mtproto"
    <3>1. e = Written(d, {"key", "secret"})
      BY <2>1, <2>4 DEF Uri, MtprotoUri
    <3>. QED BY <1>8, <2>4, <3>1
  <2>5. CASE k \in {"hysteria", "mieru", "naive"}
    <3>1. e = Written(d, {"key"})
      BY <2>1, <2>5 DEF Uri, HysteriaUri, MieruUri, NaiveUri
    <3>. QED BY <1>8, <2>5, <3>1
  <2>6. CASE k = "amneziawg"
    BY <2>1, <2>6 DEF Uri
  <2>. QED BY <1>3, <2>2, <2>3, <2>4, <2>5, <2>6
<1>10. CASE f = "json"
  BY <1>4, <1>7, <1>10 DEF InFormat
<1>11. CASE f \in {"clash", "singbox"}
  <2>1. k \in {"hysteria", "xray"}
    BY <1>4, <1>5, <1>11 DEF InFormat, Clash, Singbox
  <2>2. CASE k = "hysteria"
    <3>1. e = Written(d, {"key"})
      BY <1>4, <1>11, <2>2 DEF InFormat, Clash, Singbox
    <3>. QED BY <1>8, <2>2, <3>1
  <2>3. CASE k = "xray"
    <3>. DEFINE x == Telling(d, {"sni", "path"})
                fields == {"key", "net", "sub", "over"}
                            \cup (IF x.sub = "vless" THEN {"flow"} ELSE {})
    <3>0. DOMAIN x = DOMAIN d /\ (\A g \in DOMAIN d \ {"over"} : x[g] = d[g])
          /\ x.sub = d.sub /\ x.net = d.net
      BY <1>6, TellingIs
    <3>1. e = Written(x, fields)
      <4>. HIDE DEF x
      <4>1. e = XrayOutbound(Carried(x, "bare")) \/ e = XrayOutbound(Carried(x, "raw"))
        BY <1>4, <1>11, <2>3 DEF InFormat, Clash, Singbox, x
      <4>2. x.net \notin {"xhttp", "kcp"}
        BY <1>5, <1>6, <1>11, <2>3, <3>0
      <4>. QED BY <4>1, <4>2 DEF Carried, XrayOutbound
    <3>2. /\ "key" \in fields /\ "net" \in fields /\ "sub" \in fields
          /\ c.sub = "vless" => "flow" \in fields
      BY <1>6, <2>3, <3>0
    <3>. HIDE DEF x, fields
    <3>. QED BY <1>8, <2>3, <3>0, <3>1, <3>2
  <2>. QED BY <2>1, <2>2, <2>3
<1>12. CASE f = "xrayjson"
  <2>. DEFINE x == Telling(d, {"sni"})
  <2>1. k = "xray" /\ e = Written(x, {"key", "flow", "over"})
    BY <1>4, <1>12 DEF InFormat, XrayJson
  <2>2. DOMAIN x = DOMAIN d /\ \A g \in DOMAIN d \ {"over"} : x[g] = d[g]
    BY <1>6, TellingIs
  <2>. HIDE DEF x
  <2>. QED BY <1>5, <1>8, <1>12, <2>1, <2>2
<1>13. CASE f = "wgconf"
  <2>1. k = "amneziawg" /\ e = Written(d, {"key", "address"})
    BY <1>4, <1>13 DEF InFormat, WgConf
  <2>. QED BY <1>8, <2>1
<1>. QED BY <1>9, <1>10, <1>11, <1>12, <1>13 DEF Format

\* Every format says whose endpoint it is.
LEMMA Profiled ==
  ASSUME Rows, NEW p \in Profile, NEW n \in Node, NEW h, NEW f \in Format,
         NEW e \in InFormat(f, kind[p], ProtocolEndpoint(p, n, h))
  PROVE  e.profile = p
<1>. DEFINE d == ProtocolEndpoint(p, n, h)
            k == kind[p]
<1>1. /\ DOMAIN d = {"profile", "host", "port", "key", "net", "sub", "flow", "psk", "secret", "address",
                     "over"}
      /\ d.profile = p
  BY EndpointIs
<1>2. k \in {"hysteria", "xray", "amneziawg", "naive", "shadowsocks", "mtproto", "mieru"}
  BY ProtocolsAssumption DEF Rows
<1>3. e \in InFormat(f, k, d)
  OBVIOUS
<1>. HIDE DEF d, k
<1>4. ASSUME NEW over
      PROVE  LET x == Telling(d, over)
             IN DOMAIN x = DOMAIN d /\ x.profile = p
  BY <1>1, TellingIs
<1>5. ASSUME NEW x, DOMAIN x = DOMAIN d, x.profile = p, NEW net
      PROVE  DOMAIN Carried(x, net) = DOMAIN d /\ Carried(x, net).profile = p
  BY <1>5 DEF Carried
<1>6. e = d \/ \E x, fields : e = Written(x, fields) /\ DOMAIN x = DOMAIN d /\ x.profile = p
  <2>1. CASE f = "plain"
    BY <1>1, <1>2, <1>3, <2>1
    DEF InFormat, Uri, HysteriaUri, VlessUri, TrojanUri, ShadowsocksUri, MtprotoUri, MieruUri, NaiveUri
  <2>2. CASE f = "json"
    BY <1>3, <2>2 DEF InFormat
  <2>3. CASE f \in {"clash", "singbox"}
    <3>1. CASE k \in {"hysteria", "shadowsocks"}
      BY <1>1, <1>3, <2>3, <3>1 DEF InFormat, Clash, Singbox
    <3>2. CASE k = "xray"
      <4>1. PICK net : e = XrayOutbound(Carried(Telling(d, {"sni", "path"}), net))
        BY <1>3, <2>3, <3>2 DEF InFormat, Clash, Singbox
      <4>. DEFINE x == Carried(Telling(d, {"sni", "path"}), net)
      <4>2. DOMAIN x = DOMAIN d /\ x.profile = p
        BY <1>4, <1>5
      <4>. HIDE DEF x
      <4>. QED BY <4>1, <4>2 DEF XrayOutbound, x
    <3>. QED BY <1>3, <2>3, <3>1, <3>2 DEF InFormat, Clash, Singbox
  <2>4. CASE f \in {"xrayjson", "wgconf"}
    BY <1>1, <1>3, <1>4, <2>4 DEF InFormat, XrayJson, WgConf
  <2>. QED BY <2>1, <2>2, <2>3, <2>4 DEF Format
<1>. QED BY <1>1, <1>6, WrittenIs

-----------------------------------------------------------------------------
(* The endpoints connect.                                                  *)

(* The server of a quiet node takes a client who holds what was said of it,*)
(* unless one of the reasons applies.                                      *)
LEMMA ServesSaid ==
  ASSUME Inv, active, NEW n \in Node, Quiet(n), NEW p \in Inbounds(n), NEW h, NEW e,
         Says(e, p, n, h, Merged(bind[p][n], p)), NEW f, ~ Unspoken(p, f),
         ~ Shadowed(p, n), ~ Blocked(n), ~ Misaddressed(p, n), ~ PeerDropped(p, n),
         ~ OtherPort(p, n), ~ Overridden(e)
  PROVE  Connects(kind[p], e, core[n][kind[p]].live)
<1>. DEFINE c == Merged(bind[p][n], p)
            k == kind[p]
            a == core[n][k]
            w == OnTheWire(p, n)
            s == [wire |-> w, client |-> a.client]
<1>1. p \in Profile /\ Visible(p, n) /\ Alone(p, n)
  BY DEF Inbounds, Alone
<1>2. Rows /\ NodeInv(n) /\ k \in Protocols /\ a \in Core
  BY <1>1, TypesRows DEF Inv, Types, TypeOK
<1>3. /\ w \in Wire /\ w.cfg = c
      /\ w.port = (IF k = "amneziawg" THEN bind[p][n].port ELSE InstallPort)
      /\ k = "mtproto" => w.secret = Secret(p, n, c)
  BY <1>1, <1>2, WireFits DEF OnTheWire
<1>4. /\ c.flow = config[p].flow /\ c.net = config[p].net /\ c.sub = config[p].sub
  BY <1>1, <1>2, MergedFits
<1>5. w.cfg.sane /\ ~ Refused(k, a, w)
  BY <1>1 DEF Blocked
<1>6. a.wire = w
  BY <1>1, <1>2, <1>5 DEF NodeInv, Told, Quiet, Adapter, PeerDropped
<1>7. a.live = s /\ s # None
  <2>1. w # None /\ s \in Served
    BY <1>2, <1>3, NoneAssumption DEF Core, Served
  <2>2. Follows(a)
    BY <1>2 DEF NodeInv, Running
  <2>. HIDE DEF a, w
  <2>3. a.live = s
    BY <1>5, <1>6, <2>1, <2>2 DEF Follows
  <2>. QED BY <2>1, <2>3, NoneAssumption
<1>8. k \notin {"mtproto", "amneziawg"} => a.client # None
  BY <1>2 DEF NodeInv, Present, Quiet
<1>9. k = "xray" => a.client.flow = c.flow
  <2>1. k = "xray" => a.client.flow = IF a.wire = None THEN "none" ELSE a.wire.cfg.flow
    BY <1>2 DEF NodeInv, Flowing, Quiet, Adapter
  <2>2. w # None
    BY <1>3, NoneAssumption
  <2>. QED BY <1>3, <1>6, <2>1, <2>2
<1>10. k = "amneziawg" =>
         /\ a.client # None /\ a.client.address = Address(p, c.subnet)
         /\ c.subnet = Allocated(p, c.subnet)
  <2>1. k = "amneziawg" =>
          /\ a.client # None /\ peerRow[p] # None
          /\ a.client.address = <<p, peerRow[p]>>
    BY <1>1, <1>2 DEF NodeInv, Addressed, Quiet, Adapter, PeerDropped
  <2>. QED BY <2>1 DEF Address, Allocated, Misaddressed
<1>11. ~ e.host.front => s.wire.port = e.port
  BY <1>3 DEF Says, OtherPort
<1>12. /\ e.port = bind[p][n].port
       /\ k \in {"hysteria", "xray", "amneziawg", "naive", "shadowsocks"} => e.key = c.key
       /\ k = "xray" => e.net = c.net /\ e.sub = c.sub /\ (c.sub = "vless" => e.flow = c.flow)
       /\ k = "shadowsocks" => e.psk = c.psk
       /\ k = "mtproto" => e.secret = Secret(p, n, c)
       /\ k = "amneziawg" => e.address = Address(p, c.subnet)
  BY DEF Says
<1>13. /\ k = "xray" => (c.sub = "vless" /\ c.flow = "vision" => c.net = "raw")
       /\ e.over = {}
  BY <1>4 DEF Unspoken, Overridden
<1>14. s.wire = w /\ s.client = a.client
  OBVIOUS
<1>15. k \in {"hysteria", "xray", "amneziawg", "naive", "shadowsocks", "mtproto", "mieru"}
  BY <1>2, ProtocolsAssumption
<1>. HIDE DEF c, k, a, w, s
<1>16. Serves(k, s, e)
  <2>1. CASE k \in {"hysteria", "naive", "mieru"}
    BY <1>3, <1>8, <1>12, <1>14, <2>1 DEF Serves, HysteriaServes, NaiveServes, MieruServes
  <2>2. CASE k = "xray"
    <3>1. XrayServes(s, e)
      BY <1>3, <1>8, <1>9, <1>12, <1>13, <1>14, <2>2 DEF XrayServes
    <3>. QED BY <2>2, <3>1 DEF Serves
  <2>3. CASE k = "amneziawg"
    <3>1. AmneziawgServes(s, e)
      BY <1>3, <1>10, <1>12, <1>14, <2>3 DEF AmneziawgServes, Address
    <3>. QED BY <2>3, <3>1 DEF Serves
  <2>4. CASE k = "shadowsocks"
    <3>1. ShadowsocksServes(s, e)
      BY <1>3, <1>8, <1>12, <1>14, <2>4 DEF ShadowsocksServes
    <3>. QED BY <2>4, <3>1 DEF Serves
  <2>5. CASE k = "mtproto"
    <3>1. MtprotoServes(s, e)
      BY <1>3, <1>12, <1>14, <2>5 DEF MtprotoServes
    <3>. QED BY <2>5, <3>1 DEF Serves
  <2>. QED BY <1>15, <2>1, <2>2, <2>3, <2>4, <2>5
<1>17. Connects(k, e, a.live)
  BY <1>7, <1>11, <1>16 DEF Connects
<1>. QED BY <1>17 DEF a, k

(* Once its changes have reached the agent, every endpoint of a node in any*)
(* format generateSubscription and the builders write is one the servers   *)
(* that applyInboundsForNode and the cores' renderConfig left accept, but  *)
(* for the seven reasons EndpointsConnect names: for any number of nodes,  *)
(* profiles, hosts, edits and restarts, over every transport of the schema.*)
THEOREM EndpointsConnectHolds == Spec => []EndpointsConnect
<1>1. Inv => EndpointsConnect
  <2>. SUFFICES ASSUME Inv, active, NEW n \in Node, Quiet(n), NEW f \in Format, NEW e \in Emitted(f, n)
                PROVE  LET p == e.profile
                       IN \/ Connects(kind[p], e, core[n][kind[p]].live)
                          \/ Shadowed(p, n) \/ Blocked(n) \/ Misaddressed(p, n)
                          \/ PeerDropped(p, n) \/ OtherPort(p, n) \/ Overridden(e)
                          \/ Unspoken(p, f)
    BY DEF EndpointsConnect
  <2>1. PICK p \in Inbounds(n) :
          \E h \in HostRows(bind[p][n]) : e \in InFormat(f, kind[p], ProtocolEndpoint(p, n, h))
    BY DEF Emitted
  <2>2. PICK h \in HostRows(bind[p][n]) : e \in InFormat(f, kind[p], ProtocolEndpoint(p, n, h))
    BY <2>1
  <2>3. p \in Profile /\ Rows
    BY TypesRows DEF Inbounds, Inv
  <2>4. e.profile = p
    BY <2>2, <2>3, Profiled
  <2>5. ~ Unspoken(p, f) => Says(e, p, n, h, Merged(bind[p][n], p))
    BY <2>2, <2>3, Spoken
  <2>6. \/ Connects(kind[p], e, core[n][kind[p]].live)
        \/ Shadowed(p, n) \/ Blocked(n) \/ Misaddressed(p, n)
        \/ PeerDropped(p, n) \/ OtherPort(p, n) \/ Overridden(e) \/ Unspoken(p, f)
    BY <2>5, ServesSaid
  <2>. QED BY <2>4, <2>6
<1>. QED BY <1>1, InvHolds, PTL

=============================================================================

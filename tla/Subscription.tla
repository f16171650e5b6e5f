---------------------------- MODULE Subscription ----------------------------
(***************************************************************************)
(* Two programs render the same rows.  The panel turns a profile, its      *)
(* bindings and their hosts into the endpoints of a user's subscription    *)
(* (subscription.service.ts and the builders of the formats); the agent    *)
(* turns what the inbound-sync worker pushes into the configuration of the *)
(* protocol server (the renderConfig of every core).  A client connects    *)
(* when the two agree.                                                     *)
(*                                                                         *)
(* One user, whose squads hold every profile.  A configuration keeps the   *)
(* fields on which the two sides can disagree: the server's key material   *)
(* (REALITY keys, SNI and short ids, AmneziaWG keys and obfuscation, SS    *)
(* method, mtproto domain, naive hostname, hysteria obfs), the SS server   *)
(* PSK, the Xray transport, subprotocol and flow, the AmneziaWG subnet,    *)
(* and whether the agent's own validation takes what the panel's schema    *)
(* took.  The transport "ws" stands for httpupgrade and grpc too: all      *)
(* three are written alike, with their options, on both sides.  How events *)
(* and jobs can be lost or reordered is the matter of UserSync and         *)
(* InboundSync: here every change reaches the agent at last.               *)
(***************************************************************************)
EXTENDS Naturals, FiniteSets, Functions

CONSTANTS
    Node,
    Profile,
    Protocols,      \* the protocols a profile may have
    Keys,           \* the key material of a server
    Psks,           \* the PSKs of a Shadowsocks server
    Subnets,        \* the address ranges of AmneziaWG
    Transports,     \* Xray's transport, subprotocol and flow
    Hosts,          \* the hosts a binding may have
    Ports,          \* the ports of bindings
    Drafts,         \* the configurations the profiles may be created with
    None,           \* the absent value
    MaxEdits,       \* bound on the administrator's changes
    MaxRestarts     \* bound on the restarts of the agents

ASSUME BoundsAssumption == MaxEdits \in Nat /\ MaxRestarts \in Nat
ASSUME ProfileAssumption == IsFiniteSet(Profile)
ASSUME ProtocolsAssumption ==
    Protocols \subseteq {"hysteria", "xray", "amneziawg", "naive", "shadowsocks",
                         "mtproto", "mieru"}
ASSUME TransportsAssumption ==
    Transports \subseteq
        {"raw", "ws", "xhttp", "kcp"} \X {"vless", "trojan"} \X {"none", "vision"}
ASSUME PortsAssumption == Ports \subseteq Nat /\ 0 \in Ports

Format == {"plain", "json", "clash", "singbox", "xrayjson", "wgconf"}

(* A row of hosts: whether it has an address and port of its own, a        *)
(* proxy's; which of the server name, the path (or Host header) and the    *)
(* security layer it overrides with a value the server does not have; the  *)
(* formats it is disabled for, of which the JSON is none.                  *)
Host == [front : BOOLEAN, over : SUBSET {"sni", "path", "layer"},
         muted : SUBSET (Format \ {"json"})]
DefaultHost == [front |-> FALSE, over |-> {}, muted |-> {}]

ASSUME HostsAssumption == Hosts \subseteq Host /\ DefaultHost \in Hosts

VARIABLES
    kind,       \* profile.protocol
    config,     \* profile.config
    bind,       \* the bindings: enabled, overrides, port, enabled hosts
    active,     \* users.status = 'active'
    peerRow,    \* amneziawg_peers: the subnet of the user's address in a profile
    core,       \* the adapters of each agent, and what their servers serve
    dirty,      \* an inbound-sync job is waiting for the node
    run,        \* the running job of the node, and the AmneziaWG profile it found
    userJob,    \* the node-users job still to be delivered to the node
    unsent,     \* (history) the last inbound sync sent no peer, or it was dropped since
    edits, restarts

vars == <<kind, config, bind, active, peerRow, core, dirty, run, userJob,
          unsent, edits, restarts>>

-----------------------------------------------------------------------------
(* The rows.                                                               *)

Config == [key : Keys \cup {None}, psk : Psks \cup {None},
           net : {"raw", "ws", "xhttp", "kcp"},
           sub : {"vless", "trojan"}, flow : {"none", "vision"},
           subnet : Subnets \cup {None}, sane : BOOLEAN]
Plain == [key |-> None, psk |-> None, net |-> "raw", sub |-> "vless",
          flow |-> "none", subnet |-> None, sane |-> TRUE]

(* What the schema of a protocol lets into profile.config.  sane is FALSE  *)
(* for what the panel stores and the agent's validation refuses: a mieru   *)
(* MTU of 576 to 1279, equal AmneziaWG headers or Jmin above Jmax.  The    *)
(* default flow of Xray is Vision, whatever the transport.                 *)
HysteriaConfig == {[Plain EXCEPT !.key = i] : i \in Keys}
XrayConfig ==
    {[Plain EXCEPT !.key = x[1], !.net = x[2][1], !.sub = x[2][2], !.flow = x[2][3]] :
        x \in Keys \X Transports}
AmneziawgConfig ==
    {[Plain EXCEPT !.key = x[1], !.subnet = x[2], !.sane = x[3]] :
        x \in Keys \X Subnets \X BOOLEAN}
NaiveConfig == {[Plain EXCEPT !.key = i] : i \in Keys}
ShadowsocksConfig ==
    {[Plain EXCEPT !.key = x[1], !.psk = x[2]] : x \in Keys \X (Psks \cup {None})}
MtprotoConfig == {[Plain EXCEPT !.key = i] : i \in Keys}
MieruConfig == {[Plain EXCEPT !.sane = b] : b \in BOOLEAN}

SchemaConfig(k) ==
    [hysteria |-> HysteriaConfig, xray |-> XrayConfig, amneziawg |-> AmneziawgConfig,
     naive |-> NaiveConfig, shadowsocks |-> ShadowsocksConfig,
     mtproto |-> MtprotoConfig, mieru |-> MieruConfig][k]

(* createProfile draws the server PSK the form leaves out; updateProfile   *)
(* stores what the schema returns, absent when the form leaves it out.     *)
Created(k) == {c \in SchemaConfig(k) : k = "shadowsocks" => c.psk # None}

NoOverrides == [f \in {} |-> None]
Overrides(k) ==
    {NoOverrides}
        \cup (IF k # "mieru" THEN [{"key"} -> Keys] ELSE {})
        \cup (IF k = "amneziawg" THEN [{"subnet"} -> Subnets] ELSE {})

Binding == [enabled : BOOLEAN, over : UNION {Overrides(k) : k \in Protocols},
            port : Ports, hosts : SUBSET Hosts]

(* { ...profile.config, ...binding.overrides }                             *)
Merged(b, p) ==
    [f \in DOMAIN config[p] |-> IF f \in DOMAIN b.over THEN b.over[f] ELSE config[p][f]]

(* The port an agent was installed with is 0; the only server that binds   *)
(* the port of the binding is AmneziaWG's.                                 *)
InstallPort == 0

-----------------------------------------------------------------------------
(* The panel renders a subscription.                                       *)

Visible(p, n) == bind[p][n].enabled

(* The enabled bindings of a node: what is rendered and what is pushed.    *)
Inbounds(n) == {p \in Profile : Visible(p, n)}

(* mtprotoSecret(binding.id, domain): the same on both sides.              *)
Secret(p, n, c) == <<p, n, c.key>>

(* allocatePeer returns the row of the user and the profile, and draws an  *)
(* address of the subnet it is given only when there is none.              *)
Allocated(p, subnet) == IF peerRow[p] = None THEN subnet ELSE peerRow[p]
Address(p, subnet) == <<p, Allocated(p, subnet)>>

(* A binding without an enabled host is served by one default endpoint.    *)
HostRows(b) == IF b.hosts = {} THEN {DefaultHost} ELSE b.hosts

Endpoint(p, n, h) ==
    [profile |-> p, host |-> h, port |-> bind[p][n].port,
     key |-> Merged(bind[p][n], p).key, net |-> "raw", sub |-> "vless",
     flow |-> "none", psk |-> None, secret |-> None, address |-> None, over |-> {}]

(* The overrides of a host are read for Xray only, and a raw or a kcp      *)
(* transport has neither path nor Host header.                             *)
XrayEndpoint(e, c) ==
    [e EXCEPT !.net = c.net, !.sub = c.sub, !.flow = c.flow,
              !.over = IF c.net \in {"raw", "kcp"} THEN e.host.over \ {"path"} ELSE e.host.over]
AmneziawgEndpoint(e, c) == [e EXCEPT !.address = Address(e.profile, c.subnet)]
MtprotoEndpoint(e, n, c) == [e EXCEPT !.secret = Secret(e.profile, n, c)]
ShadowsocksEndpoint(e, c) == [e EXCEPT !.psk = c.psk]

ProtocolEndpoint(p, n, h) ==
    LET e == Endpoint(p, n, h)
        c == Merged(bind[p][n], p)
    IN CASE kind[p] = "xray" -> XrayEndpoint(e, c)
         [] kind[p] = "amneziawg" -> AmneziawgEndpoint(e, c)
         [] kind[p] = "mtproto" -> MtprotoEndpoint(e, n, c)
         [] kind[p] = "shadowsocks" -> ShadowsocksEndpoint(e, c)
         [] OTHER -> e

(* What the builders write of an endpoint: a client that reads it back has *)
(* a default for the rest.                                                 *)
Written(e, fields) ==
    [f \in DOMAIN e |-> IF f \in {"profile", "host", "port"} \cup fields THEN e[f]
                        ELSE [key |-> None, net |-> "raw", sub |-> "vless", flow |-> "none",
                              psk |-> None, secret |-> None, address |-> None, over |-> {}][f]]

(* A URI, of which AmneziaWG has none.                                     *)
HysteriaUri(e) == Written(e, {"key"})
VlessUri(e) ==
    Written(e, {"key", "net", "over"} \cup (IF e.net \in {"raw", "xhttp"} THEN {"flow"} ELSE {}))
TrojanUri(e) == Written(e, {"key", "net", "sub", "over"})
ShadowsocksUri(e) == Written(e, {"key", "psk"})
MtprotoUri(e) == Written(e, {"key", "secret"})
MieruUri(e) == Written(e, {"key"})
NaiveUri(e) == Written(e, {"key"})

Uri(k, e) ==
    CASE k = "hysteria" -> {HysteriaUri(e)}
      [] k = "xray" -> {IF e.sub = "trojan" THEN TrojanUri(e) ELSE VlessUri(e)}
      [] k = "shadowsocks" -> {ShadowsocksUri(e)}
      [] k = "mtproto" -> {MtprotoUri(e)}
      [] k = "mieru" -> {MieruUri(e)}
      [] k = "naive" -> {NaiveUri(e)}
      [] k = "amneziawg" -> {}

(* clash and sing-box name three protocols, and of Shadowsocks the user's  *)
(* key alone.  Of xhttp and kcp, clash writes the name without the options *)
(* and sing-box nothing, as for raw.  The Xray format writes a raw VLESS   *)
(* outbound for every Xray endpoint; the wg-quick file is AmneziaWG's.     *)
Telling(e, over) == [e EXCEPT !.over = @ \cap over]
Carried(e, net) == IF e.net \in {"xhttp", "kcp"} THEN [e EXCEPT !.net = net] ELSE e
XrayOutbound(e) ==
    Written(e, {"key", "net", "sub", "over"} \cup (IF e.sub = "vless" THEN {"flow"} ELSE {}))

Clash(k, e) ==
    CASE k \in {"hysteria", "shadowsocks"} -> {Written(e, {"key"})}
      [] k = "xray" -> {XrayOutbound(Carried(Telling(e, {"sni", "path"}), "bare"))}
      [] OTHER -> {}
Singbox(k, e) ==
    CASE k \in {"hysteria", "shadowsocks"} -> {Written(e, {"key"})}
      [] k = "xray" -> {XrayOutbound(Carried(Telling(e, {"sni", "path"}), "raw"))}
      [] OTHER -> {}
XrayJson(k, e) ==
    IF k = "xray" THEN {Written(Telling(e, {"sni"}), {"key", "flow", "over"})} ELSE {}
WgConf(k, e) == IF k = "amneziawg" THEN {Written(e, {"key", "address"})} ELSE {}

InFormat(f, k, e) ==
    CASE f = "plain" -> Uri(k, e)
      [] f = "json" -> {e}
      [] f = "clash" -> Clash(k, e)
      [] f = "singbox" -> Singbox(k, e)
      [] f = "xrayjson" -> XrayJson(k, e)
      [] f = "wgconf" -> WgConf(k, e)

(* The endpoints of the node in a response (generateSubscription, the      *)
(* hosts that are not disabled for the format, and its builder; the        *)
(* wg-quick file keeps the first of them).                                 *)
Emitted(f, n) ==
    UNION {UNION {InFormat(f, kind[p], ProtocolEndpoint(p, n, h)) :
                     h \in {g \in HostRows(bind[p][n]) : f \notin g.muted}} : p \in Inbounds(n)}

-----------------------------------------------------------------------------
(* The agent renders its servers.                                          *)

Wire == [cfg : Config, port : Ports,
         secret : {None} \cup (Profile \X Node \X Keys)]
Client == [flow : {"none", "vision"}, address : {None} \cup (Profile \X Subnets)]
Served == [wire : Wire, client : Client \cup {None}]

ASSUME NoneAssumption ==
    None \notin Keys \cup Psks \cup Subnets \cup Profile \cup (Profile \X Subnets)
                  \cup (Profile \X Node \X Keys) \cup Wire \cup Client \cup Served

Core == [wire : Wire \cup {None}, client : Client \cup {None}, live : Served \cup {None}]
Idle == [wire |-> None, client |-> None, live |-> None]
Resting == [on |-> FALSE, awg |-> None]

(* MUTANT: the port of the binding is not handed to AmneziaWG.             *)
OnTheWire_NoPort(p, n) ==
    LET c == Merged(bind[p][n], p)
    IN [cfg |-> c, port |-> InstallPort,
        secret |-> IF kind[p] = "mtproto" THEN Secret(p, n, c) ELSE None]

(* What fetchEnabledInbounds puts on the wire for a binding: the merged    *)
(* configuration, the derived secret, and for AmneziaWG the port.          *)
OnTheWire(p, n) ==
    LET c == Merged(bind[p][n], p)
    IN [cfg |-> c,
        port |-> IF kind[p] = "amneziawg" THEN bind[p][n].port ELSE InstallPort,
        secret |-> IF kind[p] = "mtproto" THEN Secret(p, n, c) ELSE None]

(* renderConfig validates the whole configuration: when it fails the old   *)
(* file and the old server stay, though the adapter keeps the new record.  *)
Rendered(a) ==
    IF a.wire # None /\ a.wire.cfg.sane
      THEN [a EXCEPT !.live = [wire |-> a.wire, client |-> a.client]]
      ELSE a

(* ApplyInbound refuses a Shadowsocks configuration without the server     *)
(* PSK and a change of subnet while there are peers.                       *)
Refused(k, a, w) ==
    \/ k = "shadowsocks" /\ w.cfg.psk = None
    \/ /\ k = "amneziawg" /\ a.wire # None /\ a.client # None
       /\ a.wire.cfg.subnet # w.cfg.subnet

ApplyInbound(k, a, w) ==
    IF Refused(k, a, w) \/ w = a.wire THEN a ELSE Rendered([a EXCEPT !.wire = w])

Fails(k, a, w) == Refused(k, a, w) \/ (w # a.wire /\ ~w.cfg.sane)

(* AddUser: a client takes the flow the inbound has now; AmneziaWG skips a *)
(* user without an address; mtproto has no users.                          *)
AddUser(k, a, address) ==
    IF \/ k = "mtproto"
       \/ k = "amneziawg" /\ address = None
      THEN a
      ELSE Rendered([a EXCEPT !.client =
              [flow |-> IF a.wire = None THEN "none" ELSE a.wire.cfg.flow,
               address |-> IF k = "amneziawg" THEN address ELSE None]])

RemoveUser(a) == IF a.client = None THEN a ELSE Rendered([a EXCEPT !.client = None])

(* Whom the configurations the cores render let in: the server s, that     *)
(* runs, and a client that holds the endpoint e.  Xray takes Vision over   *)
(* raw only (config.go:85-89), though uri.ts:85 writes it for xhttp too.   *)
HysteriaServes(s, e) == s.wire.cfg.key = e.key /\ s.client # None
XrayServes(s, e) ==
    /\ s.wire.cfg.key = e.key /\ s.client # None
    /\ s.wire.cfg.net = e.net /\ s.wire.cfg.sub = e.sub /\ e.over = {}
    /\ e.sub = "vless" =>
          s.client.flow = e.flow /\ (e.flow = "vision" => e.net = "raw")
AmneziawgServes(s, e) ==
    /\ s.wire.cfg.key = e.key /\ s.client # None
    /\ s.client.address = e.address /\ s.wire.cfg.subnet = e.address[2]
NaiveServes(s, e) == s.wire.cfg.key = e.key /\ s.client # None
ShadowsocksServes(s, e) ==
    s.wire.cfg.key = e.key /\ s.client # None /\ s.wire.cfg.psk = e.psk
MtprotoServes(s, e) == s.wire.secret = e.secret
MieruServes(s, e) == s.client # None

Serves(k, s, e) ==
    CASE k = "hysteria" -> HysteriaServes(s, e)
      [] k = "xray" -> XrayServes(s, e)
      [] k = "amneziawg" -> AmneziawgServes(s, e)
      [] k = "naive" -> NaiveServes(s, e)
      [] k = "shadowsocks" -> ShadowsocksServes(s, e)
      [] k = "mtproto" -> MtprotoServes(s, e)
      [] k = "mieru" -> MieruServes(s, e)

(* They are pushed in the order of their ports.                            *)
First(S, n) == CHOOSE p \in S : \A q \in S : bind[p][n].port <= bind[q][n].port
Last(S, n) == CHOOSE p \in S : \A q \in S : bind[q][n].port <= bind[p][n].port

(* handleApplyInbounds: each inbound goes to the adapter of its protocol,  *)
(* one after the other; a failure does not stop the rest.                  *)
Handled(acc, p, n) ==
    LET k == kind[p]
        w == OnTheWire(p, n)
    IN [cores |-> [acc.cores EXCEPT ![k] = ApplyInbound(k, @, w)],
        failed |-> acc.failed \/ Fails(k, acc.cores[k], w)]

Applied(n) ==
    LET after[S \in SUBSET Inbounds(n)] ==
            IF S = {} THEN [cores |-> core[n], failed |-> FALSE]
            ELSE Handled(after[S \ {Last(S, n)}], Last(S, n), n)
    IN after[Inbounds(n)]

-----------------------------------------------------------------------------
(* The administrator.                                                      *)

UpdateProfile ==
    /\ edits < MaxEdits
    /\ \E p \in Profile : \E c \in SchemaConfig(kind[p]) \ {config[p]} :
        /\ config' = [config EXCEPT ![p] = c]
        /\ dirty' = [n \in Node |-> TRUE]
    /\ edits' = edits + 1
    /\ UNCHANGED <<kind, bind, active, peerRow, core, run, userJob, unsent, restarts>>

(* MUTANT: the port of another binding of the node is not looked up.       *)
UpdateBinding_AnyPort ==
    /\ edits < MaxEdits
    /\ \E p \in Profile, n \in Node : \E e \in BOOLEAN, o \in Overrides(kind[p]), t \in Ports :
        /\ bind' = [bind EXCEPT ![p][n] = [enabled |-> e, over |-> o, port |-> t,
                                          hosts |-> @.hosts]]
        /\ bind' # bind
        /\ dirty' = [dirty EXCEPT ![n] = TRUE]
    /\ edits' = edits + 1
    /\ UNCHANGED <<kind, config, active, peerRow, core, run, userJob, unsent, restarts>>

(* Enable, disable, move or override a binding; the port of a node is held *)
(* by one binding only.                                                    *)
UpdateBinding ==
    /\ edits < MaxEdits
    /\ \E p \in Profile, n \in Node : \E e \in BOOLEAN, o \in Overrides(kind[p]), t \in Ports :
        /\ \A q \in Profile \ {p} : bind[q][n].port # t
        /\ bind' = [bind EXCEPT ![p][n] = [enabled |-> e, over |-> o, port |-> t,
                                          hosts |-> @.hosts]]
        /\ bind' # bind
        /\ dirty' = [dirty EXCEPT ![n] = TRUE]
    /\ edits' = edits + 1
    /\ UNCHANGED <<kind, config, active, peerRow, core, run, userJob, unsent, restarts>>

(* createHost, updateHost and deleteHost tell the agents nothing.          *)
UpdateHosts ==
    /\ edits < MaxEdits
    /\ \E p \in Profile, n \in Node : \E hs \in SUBSET Hosts \ {bind[p][n].hosts} :
        bind' = [bind EXCEPT ![p][n] = [@ EXCEPT !.hosts = hs]]
    /\ edits' = edits + 1
    /\ UNCHANGED <<kind, config, active, peerRow, core, dirty, run, userJob, unsent, restarts>>

UpdateStatus ==
    /\ edits < MaxEdits
    /\ active' = ~active
    /\ userJob' = [n \in Node |-> IF active THEN "remove" ELSE "add"]
    /\ edits' = edits + 1
    /\ UNCHANGED <<kind, config, bind, peerRow, core, dirty, run, unsent, restarts>>

-----------------------------------------------------------------------------
(* The clients and the workers.                                            *)

(* A request for the subscription allocates the addresses it has to write. *)
Fetch ==
    /\ active
    /\ peerRow' = [p \in Profile |->
          LET served == {n \in Node : Visible(p, n)}
          IN IF kind[p] # "amneziawg" \/ served = {} THEN peerRow[p]
             ELSE Allocated(p, Merged(bind[p][CHOOSE n \in served : TRUE], p).subnet)]
    /\ peerRow' # peerRow
    /\ UNCHANGED <<kind, config, bind, active, core, dirty, run, userJob, unsent,
                   edits, restarts>>

(* applyInboundsForNode pushes the inbounds; when the agent answers with   *)
(* an error the job fails and is retried, until its attempts are spent.    *)
PushInbounds(n) ==
    /\ dirty[n] /\ ~run[n].on
    /\ core' = [core EXCEPT ![n] = Applied(n).cores]
    /\ LET awg == {p \in Inbounds(n) : kind[p] = "amneziawg"}
       IN IF Applied(n).failed
            THEN \/ dirty' = [dirty EXCEPT ![n] = FALSE] /\ UNCHANGED run
                 \/ UNCHANGED <<dirty, run>>
            ELSE /\ dirty' = [dirty EXCEPT ![n] = FALSE]
                 /\ run' = IF Inbounds(n) = {} THEN run
                           ELSE [run EXCEPT ![n] =
                                   [on |-> TRUE,
                                    awg |-> IF awg = {} THEN None ELSE First(awg, n)]]
    /\ UNCHANGED <<kind, config, bind, active, peerRow, userJob, unsent, edits, restarts>>

(* It then reads the active users and pushes each of them, with an address *)
(* in the subnet of the profile (not of the binding) of its AmneziaWG      *)
(* inbound; when none can be drawn, without one.                           *)
PushUsers(n) ==
    /\ run[n].on
    /\ \E drawn \in BOOLEAN :
         LET p == run[n].awg
             addressed == p # None /\ drawn
             address == IF addressed THEN Address(p, config[p].subnet) ELSE None
         IN /\ drawn \/ (active /\ p # None)
            /\ IF active
                 THEN /\ core' = [core EXCEPT ![n] =
                                     [k \in Protocols |-> AddUser(k, core[n][k], address)]]
                      /\ peerRow' = IF addressed
                                    THEN [peerRow EXCEPT ![p] = Allocated(p, config[p].subnet)]
                                    ELSE peerRow
                 ELSE UNCHANGED <<core, peerRow>>
            /\ unsent' = [unsent EXCEPT ![n] = ~active \/ ~drawn]
    /\ run' = [run EXCEPT ![n] = Resting]
    /\ UNCHANGED <<kind, config, bind, active, dirty, userJob, edits, restarts>>

(* The node-users worker sends credentials without an address.             *)
DeliverUser(n) ==
    /\ userJob[n] # "none"
    /\ core' = [core EXCEPT ![n] = [k \in Protocols |->
                   IF userJob[n] = "add" THEN AddUser(k, core[n][k], None)
                   ELSE RemoveUser(core[n][k])]]
    /\ unsent' = [unsent EXCEPT ![n] = @ \/ userJob[n] = "remove"]
    /\ userJob' = [userJob EXCEPT ![n] = "none"]
    /\ UNCHANGED <<kind, config, bind, active, peerRow, dirty, run, edits, restarts>>

(* A restarted agent has empty adapters; the panel sees the new boot and   *)
(* queues both syncs again.                                                *)
AgentRestarts(n) ==
    /\ restarts < MaxRestarts
    /\ core' = [core EXCEPT ![n] = [k \in Protocols |-> Idle]]
    /\ dirty' = [dirty EXCEPT ![n] = TRUE]
    /\ userJob' = IF active THEN [userJob EXCEPT ![n] = "add"] ELSE userJob
    /\ unsent' = [unsent EXCEPT ![n] = TRUE]
    /\ restarts' = restarts + 1
    /\ UNCHANGED <<kind, config, bind, active, peerRow, run, edits>>

-----------------------------------------------------------------------------
Init ==
    /\ kind \in [Profile -> Protocols]
    /\ config \in [Profile -> UNION {SchemaConfig(k) : k \in Protocols}]
    /\ \A p \in Profile : config[p] \in Created(kind[p]) \cap Drafts
    /\ bind \in [Profile -> [Node -> {[enabled |-> TRUE, over |-> NoOverrides, port |-> t,
                                       hosts |-> {DefaultHost}] : t \in Ports}]]
    /\ \A n \in Node : IsInjective([p \in Profile |-> bind[p][n].port])
    /\ active = TRUE
    /\ peerRow = [p \in Profile |-> None]
    /\ core = [n \in Node |-> [k \in Protocols |-> Idle]]
    /\ dirty = [n \in Node |-> TRUE]
    /\ run = [n \in Node |-> Resting]
    /\ userJob = [n \in Node |-> "add"]
    /\ unsent = [n \in Node |-> TRUE]
    /\ edits = 0 /\ restarts = 0

Next ==
    \/ UpdateProfile
    \/ UpdateBinding
    \/ UpdateHosts
    \/ UpdateStatus
    \/ Fetch
    \/ \E n \in Node : PushInbounds(n)
    \/ \E n \in Node : PushUsers(n)
    \/ \E n \in Node : DeliverUser(n)
    \/ \E n \in Node : AgentRestarts(n)

Spec == Init /\ [][Next]_vars

-----------------------------------------------------------------------------
(* Properties                                                              *)

TypeOK ==
    /\ kind \in [Profile -> Protocols]
    /\ config \in [Profile -> Config]
    /\ \A p \in Profile : config[p] \in SchemaConfig(kind[p])
    /\ bind \in [Profile -> [Node -> Binding]]
    /\ \A p \in Profile, n \in Node : bind[p][n].over \in Overrides(kind[p])
    /\ \A n \in Node : IsInjective([p \in Profile |-> bind[p][n].port])
    /\ active \in BOOLEAN
    /\ peerRow \in [Profile -> Subnets \cup {None}]
    /\ core \in [Node -> [Protocols -> Core]]
    /\ dirty \in [Node -> BOOLEAN]
    /\ run \in [Node -> [on : BOOLEAN, awg : Profile \cup {None}]]
    /\ userJob \in [Node -> {"none", "add", "remove"}]
    /\ unsent \in [Node -> BOOLEAN]
    /\ edits \in 0..MaxEdits /\ restarts \in 0..MaxRestarts

(* A host with an address of its own leads to a proxy of the operator's,   *)
(* which knows the port.                                                   *)
Connects(k, e, s) ==
    s # None /\ (~e.host.front => s.wire.port = e.port) /\ Serves(k, s, e)

Quiet(n) == ~dirty[n] /\ ~run[n].on /\ userJob[n] = "none"

(* What keeps an endpoint from connecting although everything was sent.    *)

(* Another binding of the protocol on the node: an agent has one server of *)
(* each protocol, and nothing stops a second profile.                      *)
Shadowed(p, n) == \E q \in Profile \ {p} : Visible(q, n) /\ kind[q] = kind[p]

(* The agent refuses a configuration of the node, and the users are pushed *)
(* only after all of them were applied.                                    *)
Blocked(n) ==
    \E p \in Profile :
        LET k == kind[p]
            w == OnTheWire(p, n)
        IN Visible(p, n) /\ (~w.cfg.sane \/ Refused(k, core[n][k], w))

(* The address of the user is not of the subnet the server is in: it was   *)
(* drawn before a change of the subnet, or in the subnet of the profile    *)
(* while the binding overrides it.                                         *)
Misaddressed(p, n) ==
    kind[p] = "amneziawg" /\ Merged(bind[p][n], p).subnet # Allocated(p, config[p].subnet)

(* The peer of a user who was cut off and let in again, or for whom no     *)
(* address could be drawn, waits for the next push of the inbounds: the    *)
(* node-users job carries no address.                                      *)
PeerDropped(p, n) == kind[p] = "amneziawg" /\ unsent[n]

(* The port of the binding is not the one the server was installed with.   *)
OtherPort(p, n) == kind[p] # "amneziawg" /\ bind[p][n].port # InstallPort

(* A host's server name, path or security layer goes into the endpoint,    *)
(* and nothing of the host is pushed to the agent.                         *)
Overridden(e) == e.over # {}

(* clash and sing-box leave the server PSK out, and xhttp and kcp or their *)
(* options; the Xray format has the canonical transport and subprotocol    *)
(* only; and no one aligns the flow of a profile with its transport.       *)
Unspoken(p, f) ==
    \/ /\ kind[p] = "xray" /\ config[p].sub = "vless"
       /\ config[p].flow = "vision" /\ config[p].net # "raw"
    \/ kind[p] = "shadowsocks" /\ f \in {"clash", "singbox"}
    \/ f \in {"clash", "singbox"} /\ config[p].net \in {"xhttp", "kcp"}
    \/ f = "xrayjson" /\ (config[p].net # "raw" \/ config[p].sub # "vless")

(* Once the changes of a node have reached its agent, every endpoint of    *)
(* the node in any format of the subscription is one its server accepts,   *)
(* but for the seven reasons above: what generateSubscription renders and  *)
(* what applyInboundsForNode and the cores render are the same rows.       *)
EndpointsConnect ==
    active =>
        \A n \in Node : Quiet(n) =>
            \A f \in Format : \A e \in Emitted(f, n) :
                LET p == e.profile
                IN \/ Connects(kind[p], e, core[n][kind[p]].live)
                   \/ Shadowed(p, n) \/ Blocked(n) \/ Misaddressed(p, n)
                   \/ PeerDropped(p, n) \/ OtherPort(p, n) \/ Overridden(e) \/ Unspoken(p, f)

=============================================================================

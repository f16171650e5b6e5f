---------------------------- MODULE CoreAdapters ----------------------------
(***************************************************************************)
(* The agent of one node: its HTTP handlers and its protocol adapters,     *)
(* each with a map of users, an inbound and a proxy server.                *)
(*                                                                         *)
(*   POST /addUser, /removeUser  --one after the other-->  every adapter   *)
(*   POST /applyInbounds         --by protocol name----->  one adapter     *)
(*   adapter  --write config, restart / reload / sync--->  its server      *)
(*                                                                         *)
(* An adapter's methods exclude one another (a.mu) and are one step each;  *)
(* the handlers run side by side, so requests interleave between adapters. *)
(* A request goes on after the panel has stopped waiting for its answer.   *)
(*                                                                         *)
(* Inbounds are versions.  Requests are well-formed, users carry every     *)
(* credential except, perhaps, an AmneziaWG address; binaries are          *)
(* installed and no inbound is preset in the environment.                  *)
(***************************************************************************)
EXTENDS Naturals, FiniteSets

CONSTANTS
    User,
    Slot,        \* BOUND: requests handled at one time
    MaxRequests, \* BOUND: requests per process of the agent
    MaxStarts,   \* BOUND: processes of the agent
    MaxVersion,  \* BOUND: versions of an inbound
    Vision,      \* the versions whose flow is xtls-rprx-vision, not empty
    Renumbered,  \* the versions in a second AmneziaWG subnet
    Installs,    \* BOUND: the sets of adapters main may register
    Faults       \* the failures the environment may produce

Version == 0 .. MaxVersion
Kind == {"hysteria", "xray", "shadowsocks", "mtproto", "mieru", "amneziawg", "naive"}

ASSUME SlotAssumption == IsFiniteSet(Slot)
ASSUME BoundsAssumption == MaxRequests \in Nat /\ MaxStarts \in Nat /\ MaxVersion \in Nat
ASSUME VersionsAssumption == Vision \subseteq 1 .. MaxVersion /\ Renumbered \subseteq 1 .. MaxVersion
ASSUME InstallsAssumption ==
    \A I \in Installs : I \subseteq Kind /\ "hysteria" \in I
                        /\ ("xray" \in I <=> "shadowsocks" \in I)
ASSUME FaultsAssumption == Faults \subseteq {"disk", "spawn", "reload", "crash", "stop", "kill"}

VARIABLES
    install, \* the adapters main has registered
    up,      \* the agent's process runs
    core,    \* per adapter: its memory and its server
    req,     \* the requests being handled
    sent,    \* requests of this process so far
    starts,  \* processes so far
    raced,   \* ghost: users two of whose requests have overlapped since
    trouble  \* ghost: per adapter, what happened since it last served its memory

vars == <<install, up, core, req, sent, starts, raced, trouble>>

-----------------------------------------------------------------------------
(* Values *)

\* What a server was last made to read; Down when it does not run.
Served == [conf : Version, users : SUBSET User, vision : SUBSET User]
Down == [conf |-> 0, users |-> {}, vision |-> {}]

\* vision: the users xray's client entries give that flow. conf 0: no inbound
\* yet. handle: a.proc # nil.
Core == [users : SUBSET User, vision : SUBSET User, conf : Version,
         started : BOOLEAN, handle : BOOLEAN, server : Served]
Fresh(server) == [users |-> {}, vision |-> {}, conf |-> 0,
                  started |-> FALSE, handle |-> FALSE, server |-> server]

\* todo: the adapters yet to be called.
Request == [op : {"none", "add", "remove", "apply"}, who : SUBSET User, ip : BOOLEAN,
            conf : Version, todo : SUBSET Kind, failed : BOOLEAN, alone : BOOLEAN]
Idle == [op |-> "none", who |-> {}, ip |-> FALSE, conf |-> 0, todo |-> {},
         failed |-> FALSE, alone |-> TRUE]

\* The order of registration in main.go.
Rank == [k \in Kind |->
    CASE k = "hysteria" -> 1 [] k = "xray" -> 2 [] k = "shadowsocks" -> 3 [] k = "mtproto" -> 4
      [] k = "mieru" -> 5 [] k = "amneziawg" -> 6 [] k = "naive" -> 7]

\* The panel's installer configures the hysteria unit on hysteria nodes; on
\* the others the adapter only answers the auth callback.
HysteriaManaged == install = {"hysteria"}

-----------------------------------------------------------------------------
(* What a method of an adapter may end in: the adapter, and nil or an error *)

Ok(c) == [core |-> c, ok |-> TRUE]
Err(c) == [core |-> c, ok |-> FALSE]
Fault(f, S) == IF f \in Faults THEN S ELSE {}

\* Users of hysteria (auth callback) and mtproto (one secret) are not part of
\* what the server reads.
UsersInMemory == {"hysteria", "mtproto"}
Memory(k, c) == [conf |-> c.conf, users |-> IF k \in UsersInMemory THEN {} ELSE c.users,
                 vision |-> c.vision]

\* MUTANT: a.proc is set before Start is known to have worked.
Spawn_KeepsHandle(k, c) ==
    {Ok([c EXCEPT !.server = Memory(k, c), !.started = TRUE, !.handle = TRUE])}
    \cup Fault("spawn", {Err([c EXCEPT !.server = Down, !.handle = TRUE])})

\* Stop the subprocess, if any, and start another.
Spawn(k, c) ==
    {Ok([c EXCEPT !.server = Memory(k, c), !.started = TRUE, !.handle = TRUE])}
    \cup Fault("spawn", {Err([c EXCEPT !.server = Down, !.handle = FALSE])})

\* `caddy reload` asks the running caddy; one that has died keeps its handle.
CaddyReload(c) ==
    IF c.server = Down THEN {Err(c)}
    ELSE {Ok([c EXCEPT !.server = Memory("naive", c)])} \cup Fault("reload", {Err(c)})

\* `awg syncconf` changes the peers of an interface that is up; when it fails,
\* systemctl restarts the interface.
AwgSync(c) ==
    LET restarted == {Ok([c EXCEPT !.server = Memory("amneziawg", c)])}
                     \cup Fault("reload", {Err(c), Err([c EXCEPT !.server = Down])})
    IN  IF c.server = Down THEN restarted
        ELSE {Ok([c EXCEPT !.server.users = c.users])} \cup Fault("reload", restarted)

\* `awg-quick down`, `awg-quick up`.
AwgBounce(c) ==
    Fault("disk", {Err(c)})
    \cup {Ok([c EXCEPT !.server = Memory("amneziawg", c), !.started = TRUE])}
    \cup Fault("reload", {Err([c EXCEPT !.server = Down])})

\* `mita apply config`: the daemon is not the agent's.
MitaApply(c) ==
    {Ok([c EXCEPT !.server = Memory("mieru", c), !.started = TRUE])}
    \cup Fault("reload", {Err(c)})

\* regenerateAnd...Locked: render (mieru alone needs no inbound), write, load.
Regenerate(k, c) ==
    IF c.conf = 0 /\ k # "mieru" THEN {Err(c)}
    ELSE Fault("disk", {Err(c)}) \cup
         CASE k = "amneziawg" -> AwgSync(c)
           [] k = "mieru" -> MitaApply(c)
           [] k = "naive" /\ c.handle -> CaddyReload(c)
           [] OTHER -> Spawn(k, c)

-----------------------------------------------------------------------------
(* The methods of CoreAdapter *)

\* Waits for Start or ApplyInbound before it touches the server.
Cached(k, c) == k \in UsersInMemory \/ (k \in {"shadowsocks", "mieru"} /\ ~c.started)

\* existing == desired; an entry of xray also holds the flow of the inbound
\* at the time it was made.
Unchanged(k, c, u) == u \in c.users /\ (k = "xray" => (u \in c.vision <=> c.conf \in Vision))

With(k, c, u) ==
    [c EXCEPT !.users = @ \cup {u},
              !.vision = IF k = "xray" /\ c.conf \in Vision THEN @ \cup {u} ELSE @ \ {u}]

\* MUTANT: the flows are a map of their own, and its entry stays.
Without_KeepsFlow(c, u) == [c EXCEPT !.users = @ \ {u}]

Without(c, u) == [c EXCEPT !.users = @ \ {u}, !.vision = @ \ {u}]

\* MUTANT: what could not be loaded is taken back.
AddUser_RollsBack(k, c, u, ip) ==
    IF Unchanged(k, c, u) \/ (k = "amneziawg" /\ ~ip) THEN {Ok(c)}
    ELSE IF Cached(k, c) THEN {Ok(With(k, c, u))}
    ELSE {IF o.ok THEN o ELSE Err(c) : o \in Regenerate(k, With(k, c, u))}

AddUser(k, c, u, ip) ==
    IF Unchanged(k, c, u) \/ (k = "amneziawg" /\ ~ip) THEN {Ok(c)}
    ELSE IF Cached(k, c) THEN {Ok(With(k, c, u))}
    ELSE Regenerate(k, With(k, c, u))

\* MUTANT: only the map is changed, as in the adapters whose users are in memory.
RemoveUser_NoReload(k, c, u) == {Ok(Without(c, u))}

RemoveUser(k, c, u) ==
    IF u \notin c.users THEN {Ok(c)}
    ELSE IF Cached(k, c) THEN {Ok(Without(c, u))}
    ELSE Regenerate(k, Without(c, u))

\* The hysteria adapter alone remembers an inbound only once it is on disk.
ApplyHysteria(c, v) ==
    IF ~HysteriaManaged THEN {Ok([c EXCEPT !.conf = v])}
    ELSE Fault("disk", {Err(c)})
         \cup {Ok([c EXCEPT !.conf = v, !.server.conf = v])}
         \cup Fault("reload", {Err([c EXCEPT !.conf = v]),
                               Err([c EXCEPT !.conf = v, !.server = Down])})

\* classifyDiff: an inbound in another subnet, the first one included, is
\* refused while there are peers.
OtherSubnet(v, w) == v = 0 \/ (v \in Renumbered <=> w \notin Renumbered)

ApplyInbound(k, c, v) ==
    IF v = c.conf THEN {Ok(c)}
    ELSE CASE k = "hysteria" -> ApplyHysteria(c, v)
           [] k = "amneziawg" -> IF OtherSubnet(c.conf, v) /\ c.users # {} THEN {Err(c)}
                                 ELSE AwgBounce([c EXCEPT !.conf = v])
           [] OTHER -> Regenerate(k, [c EXCEPT !.conf = v])

\* Running() does not notice an exit (only Wait, in Stop, would tell);
\* hysteria wants a subprocess even where systemd runs the server.
Healthy(k) ==
    CASE k = "hysteria" -> ~HysteriaManaged
      [] k = "mieru" -> core[k].started
      [] k = "amneziawg" -> core[k].started /\ core[k].server # Down
      [] OTHER -> core[k].started /\ core[k].handle

-----------------------------------------------------------------------------
(* server.go *)

InFlight(u) == {s \in Slot : u \in req[s].who}

\* handleAddUser, handleRemoveUser.
ReceiveUser(s, op, u, ip) ==
    /\ up /\ req[s] = Idle /\ sent < MaxRequests
    /\ req' = [r \in Slot |->
                 IF r = s THEN [Idle EXCEPT !.op = op, !.who = {u}, !.ip = ip, !.todo = install,
                                            !.alone = InFlight(u) = {}]
                 ELSE [req[r] EXCEPT !.alone = @ /\ u \notin req[r].who]]
    /\ raced' = IF InFlight(u) = {} THEN raced ELSE raced \cup {u}
    /\ sent' = sent + 1
    /\ UNCHANGED <<install, up, core, starts, trouble>>

\* handleApplyInbounds: inbounds.json first, and nothing without it. An
\* inbound of no adapter is skipped.
ReceiveApply(s, K, v) ==
    /\ up /\ req[s] = Idle /\ sent < MaxRequests
    /\ \E persisted \in {TRUE} \cup Fault("disk", {FALSE}) :
          req' = [req EXCEPT ![s] = [Idle EXCEPT !.op = "apply", !.conf = v,
                                       !.todo = IF persisted THEN K ELSE {},
                                       !.failed = ~persisted]]
    /\ sent' = sent + 1
    /\ UNCHANGED <<install, up, core, starts, raced, trouble>>

\* Users go to the adapters in the order of registration, inbounds in the
\* order of the panel's rows.
IsNext(r, k) == k \in r.todo /\ (r.op # "apply" => \A l \in r.todo : Rank[k] <= Rank[l])

Outcomes(k, r) ==
    IF r.op = "apply" THEN ApplyInbound(k, core[k], r.conf)
    ELSE UNION {IF r.op = "add" THEN AddUser(k, core[k], u, r.ip)
                ELSE RemoveUser(k, core[k], u) : u \in r.who}

Serves(k, c) == c.server = Memory(k, c)

\* MUTANT: the first adapter that fails ends the request.
CallAdapter_StopsAtError(s, k) ==
    /\ IsNext(req[s], k)
    /\ \E o \in Outcomes(k, req[s]) :
          /\ core' = [core EXCEPT ![k] = o.core]
          /\ req' = [req EXCEPT ![s].todo = IF o.ok THEN @ \ {k} ELSE {}, ![s].failed = @ \/ ~o.ok]
          /\ trouble' = [trouble EXCEPT ![k] = IF ~o.ok THEN @ \cup {"failed"}
                                               ELSE IF Serves(k, o.core) THEN {} ELSE @]
    /\ UNCHANGED <<install, up, sent, starts, raced>>

\* An adapter that fails is noted, and the next one is called.
CallAdapter(s, k) ==
    /\ IsNext(req[s], k)
    /\ \E o \in Outcomes(k, req[s]) :
          /\ core' = [core EXCEPT ![k] = o.core]
          /\ req' = [req EXCEPT ![s].todo = @ \ {k}, ![s].failed = @ \/ ~o.ok]
          /\ trouble' = [trouble EXCEPT ![k] = IF ~o.ok THEN @ \cup {"failed"}
                                               ELSE IF Serves(k, o.core) THEN {} ELSE @]
    /\ UNCHANGED <<install, up, sent, starts, raced>>

\* 200, or 500 when some adapter failed.
Answer(s) ==
    /\ req[s] # Idle /\ req[s].todo = {}
    /\ req' = [req EXCEPT ![s] = Idle]
    /\ raced' = IF req[s].alone THEN raced \ req[s].who ELSE raced
    /\ UNCHANGED <<install, up, core, sent, starts, trouble>>

-----------------------------------------------------------------------------
(* Processes *)

\* A subprocess dies; nobody waits for it.
CoreDies(k) ==
    /\ "crash" \in Faults
    /\ k \in {"xray", "shadowsocks", "mtproto", "naive"} /\ core[k].server # Down
    /\ core' = [core EXCEPT ![k].server = Down]
    /\ trouble' = [trouble EXCEPT ![k] = @ \cup {"died"}]
    /\ UNCHANGED <<install, up, req, sent, starts, raced>>

\* main: Start of every adapter. All but mieru wait for an inbound; should
\* mita refuse, the process exits and systemd starts another.
AgentStart ==
    /\ ~up /\ starts < MaxStarts
    /\ up' = TRUE
    /\ core' = IF "mieru" \notin install THEN core
               ELSE [core EXCEPT !["mieru"].started = TRUE, !["mieru"].server = Down]
    /\ sent' = 0
    /\ starts' = starts + 1
    /\ UNCHANGED <<install, req, raced, trouble>>

\* Memory and requests are gone; the servers of Survivors go on as they are.
AgentEnds(Survivors) ==
    /\ up
    /\ up' = FALSE
    /\ core' = [k \in Kind |-> Fresh(IF k \in Survivors THEN core[k].server ELSE Down)]
    /\ req' = [s \in Slot |-> Idle]
    /\ raced' = {}
    /\ trouble' = [k \in Kind |-> {}]
    /\ UNCHANGED <<install, sent, starts>>

\* stopAdapters leaves hysteria's unit alone.
AgentStop == "stop" \in Faults /\ AgentEnds({"hysteria"})

\* systemd kills what the agent has spawned, and only that.
AgentKilled == "kill" \in Faults /\ AgentEnds({"hysteria", "amneziawg", "mieru"})

-----------------------------------------------------------------------------
Init ==
    /\ install \in Installs
    /\ up = FALSE
    /\ core = [k \in Kind |-> Fresh(Down)]
    /\ req = [s \in Slot |-> Idle]
    /\ sent = 0
    /\ starts = 0
    /\ raced = {}
    /\ trouble = [k \in Kind |-> {}]

Next ==
    \/ \E s \in Slot, op \in {"add", "remove"}, u \in User, ip \in BOOLEAN :
          (ip => op = "add" /\ "amneziawg" \in install) /\ ReceiveUser(s, op, u, ip)
    \/ \E s \in Slot, K \in SUBSET install, v \in 1 .. MaxVersion : ReceiveApply(s, K, v)
    \/ \E s \in Slot : Answer(s) \/ \E k \in install : CallAdapter(s, k)
    \/ \E k \in install : CoreDies(k)
    \/ AgentStart \/ AgentStop \/ AgentKilled

Spec == Init /\ [][Next]_vars

-----------------------------------------------------------------------------
(* Properties *)

TypeOK ==
    /\ install \in Installs
    /\ up \in BOOLEAN
    /\ core \in [Kind -> Core]
    /\ \A k \in Kind : core[k].vision \subseteq core[k].users
    /\ req \in [Slot -> Request]
    /\ \A s \in Slot : req[s].todo \subseteq install
    /\ sent \in 0 .. MaxRequests
    /\ starts \in 0 .. MaxStarts
    /\ raced \in SUBSET User
    /\ trouble \in [Kind -> SUBSET {"failed", "died"}]

\* The adapter has something to serve, and a server of its own.
Configured(k) ==
    /\ up /\ k \in install
    /\ core[k].conf # 0 \/ k = "mieru"
    /\ k = "hysteria" => HysteriaManaged

(* A server runs exactly what its adapter's memory says (inbound, users and
   their flow), unless a call answered an error, or the server died, since it
   last did: adapters that reload, restart, syncconf or only cache all keep
   this. The exception cannot be dropped: after a failed reload the same call
   finds nothing to change and returns nil, so a retry does not repair it. *)
ServedExplained ==
    \A k \in Kind : Configured(k) /\ ~Serves(k, core[k]) => trouble[k] # {}

(* /addUser and /removeUser reach every adapter even if some fail, so once no
   request about a user is being handled the adapters agree on him, unless
   two such requests overlapped: there is no lock across adapters. AmneziaWG
   may lack a user whose address the request did not carry. *)
AdaptersAgree ==
    \A u \in User : InFlight(u) = {} /\ u \notin raced =>
        \A k, l \in install :
            u \in core[k].users /\ l # "amneziawg" => u \in core[l].users

(* What /healthz says of an adapter is true, except that a server that died
   is still called running, hysteria under systemd is never called running,
   and an AmneziaWG interface that systemctl brought up may not be. *)
HealthExplained ==
    up => \A k \in install :
        /\ Healthy(k) /\ k \notin {"hysteria", "mieru"} =>
               core[k].server # Down \/ "died" \in trouble[k]
        /\ Configured(k) /\ Serves(k, core[k]) /\ k \notin {"hysteria", "amneziawg"} =>
               Healthy(k)

\* A request as UserMaps sees it. An addition without an address is not about
\* AmneziaWG.
CallOf(r) ==
    IF r.op \notin {"add", "remove"} THEN [op |-> "none", who |-> {}, due |-> {}]
    ELSE [op |-> r.op, who |-> r.who,
          due |-> IF r.op = "add" /\ ~r.ip THEN r.todo \ {"amneziawg"} ELSE r.todo]

Maps == INSTANCE UserMaps WITH
            Adapter <- Kind, holds <- [k \in Kind |-> core[k].users], call <- [s \in Slot |-> CallOf(req[s])]

(* The agent is what UserSync takes it for: a call changes each adapter's map
   exactly once, between its arrival and its answer, even if the answer is an
   error, and nothing else does but the end of the process. *)
AgentIsUserMaps == Maps!Spec

(* core/amneziawg/adapter.go, Start: without an inbound "*defer* the bring-up
   until ApplyInbound supplies real values". Without failures an adapter that
   has been given an inbound has one. VIOLATED: a user with an address who
   comes first (the push to the agent's previous process, still handing out
   users) is kept, though his call fails, and the first inbound is then
   refused as a change of subnet, again and again. *)
PushConfigures ==
    [][\A s \in Slot, k \in Kind : CallAdapter(s, k) /\ req[s].op = "apply" => core[k].conf' # 0]_vars

=============================================================================

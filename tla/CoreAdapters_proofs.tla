------------------------ MODULE CoreAdapters_proofs ------------------------
(***************************************************************************)
(* For every set of users, adapters, faults and every bound: the types of  *)
(* CoreAdapters, that the agent implements UserMaps, that its adapters     *)
(* agree about a user, that each server runs what its adapter remembers or *)
(* there is a reason, and that what /healthz says of it is true.           *)
(***************************************************************************)
EXTENDS CoreAdapters, TLAPS

-----------------------------------------------------------------------------
(* What the methods of an adapter do to its users *)

Outcome == [core : Core, ok : BOOLEAN]

\* The same inbound and users; anything may have happened to the server.
Alike(c, d) ==
    /\ d \in Core
    /\ d.users = c.users
    /\ d.vision = c.vision
    /\ d.conf = c.conf

\* Every outcome leaves inbound and users as they are in c.
Keeps(c, S) == \A o \in S : o \in Outcome /\ Alike(c, o.core)

LEMMA VersionType == 0 \in Version
BY BoundsAssumption DEF Version

LEMMA DownType == Down \in Served
BY VersionType DEF Down, Served

LEMMA MemoryType ==
    ASSUME NEW k \in Kind, NEW c \in Core
    PROVE  Memory(k, c) \in Served
BY DEF Memory, Served, Core

LEMMA OutcomeType ==
    ASSUME NEW c \in Core
    PROVE  /\ Ok(c) \in Outcome /\ Ok(c).core = c /\ Ok(c).ok
           /\ Err(c) \in Outcome /\ Err(c).core = c /\ ~Err(c).ok
BY DEF Ok, Err, Outcome

\* The updates of the record that concern the server only.
LEMMA ServerUpdates ==
    ASSUME NEW c \in Core, NEW s \in Served, NEW b \in BOOLEAN
    PROVE  /\ Alike(c, c)
           /\ Alike(c, [c EXCEPT !.server = s])
           /\ Alike(c, [c EXCEPT !.server = s, !.handle = b])
           /\ Alike(c, [c EXCEPT !.server = s, !.started = TRUE])
           /\ Alike(c, [c EXCEPT !.server = s, !.started = TRUE, !.handle = TRUE])
           /\ Alike(c, [c EXCEPT !.server.users = c.users])
<1>1. c.server \in Served /\ c.users \in SUBSET User
  BY DEF Core
<1>2. [c.server EXCEPT !.users = c.users] \in Served
  BY <1>1 DEF Served
<1>3. [c EXCEPT !.server.users = c.users]
        = [c EXCEPT !.server = [c.server EXCEPT !.users = c.users]]
  BY DEF Core
<1>. QED
  BY <1>2, <1>3 DEF Alike, Core

\* Outcomes are put together from these pieces.
LEMMA KeepsPieces ==
    ASSUME NEW c \in Core
    PROVE  /\ \A d : Alike(c, d) => Keeps(c, {Ok(d)}) /\ Keeps(c, {Err(d)})
           /\ \A d, e : Alike(c, d) /\ Alike(c, e) => Keeps(c, {Err(d), Err(e)})
           /\ \A S, T : Keeps(c, S) /\ Keeps(c, T) => Keeps(c, S \cup T)
           /\ \A f, S : Keeps(c, S) => Keeps(c, Fault(f, S))
<1>1. \A d : Alike(c, d) => /\ Ok(d) \in Outcome /\ Ok(d).core = d
                            /\ Err(d) \in Outcome /\ Err(d).core = d
  BY OutcomeType DEF Alike
<1>2. ASSUME NEW d, NEW e, Alike(c, d), Alike(c, e) PROVE Keeps(c, {Err(d), Err(e)})
  BY <1>1, <1>2 DEF Keeps
<1>3. ASSUME NEW d, Alike(c, d) PROVE Keeps(c, {Ok(d)}) /\ Keeps(c, {Err(d)})
  BY <1>1, <1>3 DEF Keeps
<1>4. \A S, T : Keeps(c, S) /\ Keeps(c, T) => Keeps(c, S \cup T)
  BY DEF Keeps
<1>5. \A f, S : Keeps(c, S) => Keeps(c, Fault(f, S))
  BY DEF Keeps, Fault
<1>. QED
  BY <1>2, <1>3, <1>4, <1>5

LEMMA SpawnKeeps ==
    ASSUME NEW k \in Kind, NEW c \in Core
    PROVE  Keeps(c, Spawn(k, c))
<1>1. Memory(k, c) \in Served /\ Down \in Served
  BY MemoryType, DownType
<1>2. /\ Alike(c, [c EXCEPT !.server = Memory(k, c), !.started = TRUE, !.handle = TRUE])
      /\ Alike(c, [c EXCEPT !.server = Down, !.handle = FALSE])
  BY <1>1, ServerUpdates
<1>. QED
  BY <1>2, KeepsPieces DEF Spawn

LEMMA CaddyReloadKeeps ==
    ASSUME NEW c \in Core
    PROVE  Keeps(c, CaddyReload(c))
<1>1. Memory("naive", c) \in Served
  BY MemoryType DEF Kind
<1>2. Alike(c, [c EXCEPT !.server = Memory("naive", c)]) /\ Alike(c, c)
  BY <1>1, ServerUpdates
<1>. QED
  BY <1>2, KeepsPieces DEF CaddyReload

LEMMA AwgSyncKeeps ==
    ASSUME NEW c \in Core
    PROVE  Keeps(c, AwgSync(c))
<1>. DEFINE restarted == {Ok([c EXCEPT !.server = Memory("amneziawg", c)])}
                           \cup Fault("reload", {Err(c), Err([c EXCEPT !.server = Down])})
            synced == {Ok([c EXCEPT !.server.users = c.users])}
                        \cup Fault("reload", restarted)
<1>1. Memory("amneziawg", c) \in Served /\ Down \in Served
  BY MemoryType, DownType DEF Kind
<1>2. /\ Alike(c, [c EXCEPT !.server = Memory("amneziawg", c)])
      /\ Alike(c, [c EXCEPT !.server = Down])
      /\ Alike(c, [c EXCEPT !.server.users = c.users])
      /\ Alike(c, c)
  BY <1>1, ServerUpdates
<1>3. Keeps(c, restarted)
  BY <1>2, KeepsPieces
<1>4. Keeps(c, synced)
  <2>. HIDE DEF restarted
  <2>. QED
    BY <1>2, <1>3, KeepsPieces
<1>5. AwgSync(c) = IF c.server = Down THEN restarted ELSE synced
  BY DEF AwgSync
<1>. HIDE DEF restarted, synced
<1>. QED
  BY <1>3, <1>4, <1>5

LEMMA AwgBounceKeeps ==
    ASSUME NEW c \in Core
    PROVE  Keeps(c, AwgBounce(c))
<1>1. Memory("amneziawg", c) \in Served /\ Down \in Served
  BY MemoryType, DownType DEF Kind
<1>2. /\ Alike(c, [c EXCEPT !.server = Memory("amneziawg", c), !.started = TRUE])
      /\ Alike(c, [c EXCEPT !.server = Down])
      /\ Alike(c, c)
  BY <1>1, ServerUpdates
<1>3. /\ Keeps(c, Fault("disk", {Err(c)}))
      /\ Keeps(c, {Ok([c EXCEPT !.server = Memory("amneziawg", c), !.started = TRUE])})
      /\ Keeps(c, Fault("reload", {Err([c EXCEPT !.server = Down])}))
  BY <1>2, KeepsPieces
<1>. QED
  BY <1>3, KeepsPieces DEF AwgBounce

LEMMA MitaApplyKeeps ==
    ASSUME NEW c \in Core
    PROVE  Keeps(c, MitaApply(c))
<1>1. Memory("mieru", c) \in Served
  BY MemoryType DEF Kind
<1>2. /\ Alike(c, [c EXCEPT !.server = Memory("mieru", c), !.started = TRUE])
      /\ Alike(c, c)
  BY <1>1, ServerUpdates
<1>. QED
  BY <1>2, KeepsPieces DEF MitaApply

LEMMA RegenerateKeeps ==
    ASSUME NEW k \in Kind, NEW c \in Core
    PROVE  Keeps(c, Regenerate(k, c))
<1>. DEFINE loaded == CASE k = "amneziawg" -> AwgSync(c)
                        [] k = "mieru" -> MitaApply(c)
                        [] k = "naive" /\ c.handle -> CaddyReload(c)
                        [] OTHER -> Spawn(k, c)
<1>1. Keeps(c, {Err(c)}) /\ Keeps(c, Fault("disk", {Err(c)}))
  BY KeepsPieces, ServerUpdates, DownType
<1>2. Keeps(c, loaded)
  BY SpawnKeeps, CaddyReloadKeeps, AwgSyncKeeps, MitaApplyKeeps
<1>3. Keeps(c, Fault("disk", {Err(c)}) \cup loaded)
  <2>. HIDE DEF loaded
  <2>. QED
    BY <1>1, <1>2, KeepsPieces
<1>4. Regenerate(k, c) = IF c.conf = 0 /\ k # "mieru" THEN {Err(c)}
                         ELSE Fault("disk", {Err(c)}) \cup loaded
  BY DEF Regenerate
<1>. HIDE DEF loaded
<1>. QED
  BY <1>1, <1>3, <1>4

\* Which users an adapter has after a call, and that no flow is left over.
Changes(S, users) ==
    \A o \in S : /\ o \in Outcome
                 /\ o.core.vision \subseteq o.core.users
                 /\ o.core.users = users

LEMMA KeepsChanges ==
    ASSUME NEW c \in Core, NEW S, Keeps(c, S), c.vision \subseteq c.users
    PROVE  Changes(S, c.users)
BY DEF Keeps, Alike, Changes

LEMMA WithType ==
    ASSUME NEW k \in Kind, NEW c \in Core, NEW u \in User, c.vision \subseteq c.users
    PROVE  /\ With(k, c, u) \in Core
           /\ With(k, c, u).users = c.users \cup {u}
           /\ With(k, c, u).vision \subseteq With(k, c, u).users
<1>1. c.users \in SUBSET User /\ c.vision \in SUBSET User
  BY DEF Core
<1>2. PICK v \in SUBSET User :
          /\ v \subseteq c.users \cup {u}
          /\ With(k, c, u) = [c EXCEPT !.users = c.users \cup {u}, !.vision = v]
  <2>1. c.vision \cup {u} \in SUBSET User /\ c.vision \ {u} \in SUBSET User
    BY <1>1
  <2>. QED
    BY <2>1 DEF With, Core
<1>3. [c EXCEPT !.users = c.users \cup {u}, !.vision = v] \in Core
  BY <1>1, <1>2 DEF Core
<1>4. /\ [c EXCEPT !.users = c.users \cup {u}, !.vision = v].users = c.users \cup {u}
      /\ [c EXCEPT !.users = c.users \cup {u}, !.vision = v].vision = v
  BY DEF Core
<1>. QED
  BY <1>2, <1>3, <1>4

LEMMA WithoutType ==
    ASSUME NEW c \in Core, NEW u \in User, c.vision \subseteq c.users
    PROVE  /\ Without(c, u) \in Core
           /\ Without(c, u).users = c.users \ {u}
           /\ Without(c, u).vision \subseteq Without(c, u).users
BY DEF Without, Core

LEMMA AddUserChanges ==
    ASSUME NEW k \in Kind, NEW c \in Core, NEW u \in User, NEW ip \in BOOLEAN,
           c.vision \subseteq c.users
    PROVE  Changes(AddUser(k, c, u, ip),
                   IF k = "amneziawg" /\ ~ip THEN c.users ELSE c.users \cup {u})
<1>1. CASE Unchanged(k, c, u) \/ (k = "amneziawg" /\ ~ip)
  <2>1. Keeps(c, AddUser(k, c, u, ip))
    BY <1>1, KeepsPieces, ServerUpdates, DownType DEF AddUser
  <2>2. Unchanged(k, c, u) => c.users \cup {u} = c.users
    BY DEF Unchanged
  <2>. QED
    BY <1>1, <2>1, <2>2, KeepsChanges
<1>2. CASE ~(Unchanged(k, c, u) \/ (k = "amneziawg" /\ ~ip))
  <2>. DEFINE d == With(k, c, u)
  <2>1. d \in Core /\ d.users = c.users \cup {u} /\ d.vision \subseteq d.users
    BY WithType
  <2>2. AddUser(k, c, u, ip) = IF Cached(k, c) THEN {Ok(d)} ELSE Regenerate(k, d)
    BY <1>2 DEF AddUser
  <2>. HIDE DEF d
  <2>3. Keeps(d, {Ok(d)}) /\ Keeps(d, Regenerate(k, d))
    BY <2>1, KeepsPieces, ServerUpdates, DownType, RegenerateKeeps
  <2>. QED
    BY <1>2, <2>1, <2>2, <2>3, KeepsChanges
<1>. QED
  BY <1>1, <1>2

LEMMA RemoveUserChanges ==
    ASSUME NEW k \in Kind, NEW c \in Core, NEW u \in User, c.vision \subseteq c.users
    PROVE  Changes(RemoveUser(k, c, u), c.users \ {u})
<1>1. CASE u \notin c.users
  <2>1. Keeps(c, RemoveUser(k, c, u))
    BY <1>1, KeepsPieces, ServerUpdates, DownType DEF RemoveUser
  <2>2. c.users \ {u} = c.users
    BY <1>1
  <2>. QED
    BY <2>1, <2>2, KeepsChanges
<1>2. CASE u \in c.users
  <2>. DEFINE d == Without(c, u)
  <2>1. d \in Core /\ d.users = c.users \ {u} /\ d.vision \subseteq d.users
    BY WithoutType
  <2>2. RemoveUser(k, c, u) = IF Cached(k, c) THEN {Ok(d)} ELSE Regenerate(k, d)
    BY <1>2 DEF RemoveUser
  <2>. HIDE DEF d
  <2>3. Keeps(d, {Ok(d)}) /\ Keeps(d, Regenerate(k, d))
    BY <2>1, KeepsPieces, ServerUpdates, DownType, RegenerateKeeps
  <2>. QED
    BY <2>1, <2>2, <2>3, KeepsChanges
<1>. QED
  BY <1>1, <1>2

\* Another inbound, the same users.
LEMMA ConfType ==
    ASSUME NEW c \in Core, NEW v \in Version, c.vision \subseteq c.users
    PROVE  LET d == [c EXCEPT !.conf = v]
           IN  d \in Core /\ d.users = c.users /\ d.vision \subseteq d.users
BY DEF Core

LEMMA ApplyHysteriaChanges ==
    ASSUME NEW c \in Core, NEW v \in Version, c.vision \subseteq c.users
    PROVE  Changes(ApplyHysteria(c, v), c.users)
<1>. DEFINE d == [c EXCEPT !.conf = v]
<1>1. d \in Core /\ d.users = c.users /\ d.vision \subseteq d.users
  BY ConfType
<1>2. [c.server EXCEPT !.conf = v] \in Served
  BY DEF Core, Served
<1>3. [c EXCEPT !.conf = v, !.server.conf = v]
        = [d EXCEPT !.server = [c.server EXCEPT !.conf = v]]
  BY DEF Core
<1>4. [c EXCEPT !.conf = v, !.server = Down] = [d EXCEPT !.server = Down]
  BY DEF Core
<1>5. ApplyHysteria(c, v) =
        IF ~HysteriaManaged THEN {Ok(d)}
        ELSE Fault("disk", {Err(c)})
             \cup {Ok([d EXCEPT !.server = [c.server EXCEPT !.conf = v]])}
             \cup Fault("reload", {Err(d), Err([d EXCEPT !.server = Down])})
  BY <1>3, <1>4 DEF ApplyHysteria
<1>. HIDE DEF d
<1>6. /\ Alike(d, d)
      /\ Alike(d, [d EXCEPT !.server = [c.server EXCEPT !.conf = v]])
      /\ Alike(d, [d EXCEPT !.server = Down])
  BY <1>1, <1>2, ServerUpdates, DownType
<1>7. /\ Keeps(d, {Ok(d)})
      /\ Keeps(d, {Ok([d EXCEPT !.server = [c.server EXCEPT !.conf = v]])})
      /\ Keeps(d, Fault("reload", {Err(d), Err([d EXCEPT !.server = Down])}))
  BY <1>1, <1>6, KeepsPieces
<1>8. Keeps(c, Fault("disk", {Err(c)}))
  BY KeepsPieces, ServerUpdates, DownType
<1>9. Changes(Fault("disk", {Err(c)}), c.users)
  BY <1>8, KeepsChanges
<1>10. /\ Changes({Ok(d)}, c.users)
       /\ Changes({Ok([d EXCEPT !.server = [c.server EXCEPT !.conf = v]])}, c.users)
       /\ Changes(Fault("reload", {Err(d), Err([d EXCEPT !.server = Down])}), c.users)
  BY <1>1, <1>7, KeepsChanges
<1>11. \A S, T : Changes(S, c.users) /\ Changes(T, c.users) => Changes(S \cup T, c.users)
  BY DEF Changes
<1>. QED
  BY <1>5, <1>9, <1>10, <1>11

LEMMA ApplyInboundChanges ==
    ASSUME NEW k \in Kind, NEW c \in Core, NEW v \in Version, c.vision \subseteq c.users
    PROVE  Changes(ApplyInbound(k, c, v), c.users)
<1>. DEFINE d == [c EXCEPT !.conf = v]
<1>1. d \in Core /\ d.users = c.users /\ d.vision \subseteq d.users
  BY ConfType
<1>2. Keeps(c, {Ok(c)}) /\ Keeps(c, {Err(c)})
  BY KeepsPieces, ServerUpdates, DownType
<1>3. ApplyInbound(k, c, v) \in
        {{Ok(c)}, {Err(c)}, ApplyHysteria(c, v), AwgBounce(d), Regenerate(k, d)}
  BY DEF ApplyInbound
<1>. HIDE DEF d
<1>4. Keeps(d, AwgBounce(d)) /\ Keeps(d, Regenerate(k, d))
  BY <1>1, AwgBounceKeeps, RegenerateKeeps
<1>. QED
  BY <1>1, <1>2, <1>3, <1>4, KeepsChanges, ApplyHysteriaChanges

-----------------------------------------------------------------------------
(* Type correctness *)

\* A request about a user is about one user, and no other is about any.
Addressed ==
    \A s \in Slot : IF req[s].op \in {"add", "remove"} THEN \E u \in User : req[s].who = {u}
                    ELSE req[s].who = {}

TypeInv == TypeOK /\ Addressed

LEMMA FreshType ==
    ASSUME NEW s \in Served
    PROVE  Fresh(s) \in Core /\ Fresh(s).users = {} /\ Fresh(s).vision = {}
BY VersionType DEF Fresh, Core

LEMMA IdleType == Idle \in Request /\ Idle.op = "none" /\ Idle.who = {} /\ Idle.todo = {}
BY VersionType DEF Idle, Request

LEMMA InstallType ==
    ASSUME TypeOK
    PROVE  install \in SUBSET Kind
BY InstallsAssumption DEF TypeOK

LEMMA InitType == Init => TypeInv
<1>. SUFFICES ASSUME Init PROVE TypeInv
  OBVIOUS
<1>1. Fresh(Down) \in Core /\ Fresh(Down).users = {} /\ Fresh(Down).vision = {}
  BY FreshType, DownType
<1>2. Addressed
  BY IdleType DEF Init, Addressed
<1>3. core \in [Kind -> Core] /\ \A k \in Kind : core[k].vision \subseteq core[k].users
  BY <1>1 DEF Init
<1>4. req \in [Slot -> Request] /\ \A s \in Slot : req[s].todo \subseteq install
  BY IdleType DEF Init
<1>5. sent \in 0 .. MaxRequests /\ starts \in 0 .. MaxStarts
  BY BoundsAssumption DEF Init
<1>6. trouble \in [Kind -> SUBSET {"failed", "died"}]
  BY DEF Init
<1>. QED
  BY <1>2, <1>3, <1>4, <1>5, <1>6 DEF Init, TypeInv, TypeOK

\* The users an adapter has once the request has been through it.
After(k, r) ==
    IF r.op = "add" THEN IF k = "amneziawg" /\ ~r.ip THEN core[k].users ELSE core[k].users \cup r.who
    ELSE core[k].users \ r.who

LEMMA OutcomesChanges ==
    ASSUME TypeInv, NEW s \in Slot, NEW k \in Kind
    PROVE  Changes(Outcomes(k, req[s]), After(k, req[s]))
<1>. DEFINE r == req[s]
            c == core[k]
<1>1. r \in Request /\ c \in Core /\ c.vision \subseteq c.users
  BY DEF TypeInv, TypeOK
<1>2. r.conf \in Version /\ r.ip \in BOOLEAN
  BY <1>1 DEF Request
<1>3. CASE r.op \in {"add", "remove"}
  <2>1. PICK u \in User : r.who = {u}
    BY <1>3 DEF TypeInv, Addressed
  <2>2. Outcomes(k, r) = IF r.op = "add" THEN AddUser(k, c, u, r.ip) ELSE RemoveUser(k, c, u)
    BY <1>3, <2>1 DEF Outcomes
  <2>3. After(k, r) = IF r.op = "add" THEN IF k = "amneziawg" /\ ~r.ip THEN c.users
                                           ELSE c.users \cup {u}
                      ELSE c.users \ {u}
    BY <2>1 DEF After
  <2>4. /\ Changes(AddUser(k, c, u, r.ip), IF k = "amneziawg" /\ ~r.ip THEN c.users
                                           ELSE c.users \cup {u})
        /\ Changes(RemoveUser(k, c, u), c.users \ {u})
    BY <1>1, <1>2, AddUserChanges, RemoveUserChanges
  <2>. QED
    BY <2>2, <2>3, <2>4
<1>4. CASE r.op \notin {"add", "remove"}
  <2>1. r.who = {} /\ After(k, r) = c.users
    BY <1>4 DEF TypeInv, Addressed, After
  <2>2. Outcomes(k, r) = IF r.op = "apply" THEN ApplyInbound(k, c, r.conf) ELSE {}
    BY <2>1 DEF Outcomes
  <2>3. Changes(ApplyInbound(k, c, r.conf), c.users) /\ Changes({}, c.users)
    BY <1>1, <1>2, ApplyInboundChanges DEF Changes
  <2>. QED
    BY <2>1, <2>2, <2>3
<1>. QED
  BY <1>3, <1>4

LEMMA ReceiveUserType ==
    ASSUME TypeInv, NEW s \in Slot, NEW op \in {"add", "remove"}, NEW u \in User,
           NEW ip \in BOOLEAN, ReceiveUser(s, op, u, ip)
    PROVE  TypeInv'
<1>. DEFINE new == [Idle EXCEPT !.op = op, !.who = {u}, !.ip = ip, !.todo = install,
                                !.alone = InFlight(u) = {}]
            older(r) == [req[r] EXCEPT !.alone = @ /\ u \notin req[r].who]
<1>1. install \in SUBSET Kind
  BY InstallType DEF TypeInv
<1>2. new \in Request /\ new.op = op /\ new.who = {u} /\ new.todo = install
  BY <1>1, VersionType DEF Idle, Request
<1>3. ASSUME NEW r \in Slot
      PROVE  /\ older(r) \in Request
             /\ older(r).op = req[r].op /\ older(r).who = req[r].who
             /\ older(r).todo = req[r].todo
  BY DEF TypeInv, TypeOK, Request
<1>4. req' = [r \in Slot |-> IF r = s THEN new ELSE older(r)]
  BY DEF ReceiveUser
<1>. HIDE DEF new, older
<1>5. req' \in [Slot -> Request] /\ \A r \in Slot : req'[r].todo \subseteq install
  BY <1>2, <1>3, <1>4 DEF TypeInv, TypeOK
<1>6. Addressed'
  BY <1>2, <1>3, <1>4 DEF TypeInv, Addressed
<1>7. sent' \in 0 .. MaxRequests
  <2>1. sent \in 0 .. MaxRequests /\ sent < MaxRequests /\ sent' = sent + 1
    BY DEF ReceiveUser, TypeInv, TypeOK
  <2>. QED
    BY <2>1, BoundsAssumption
<1>8. raced' \in SUBSET User
  BY DEF ReceiveUser, TypeInv, TypeOK
<1>. QED
  BY <1>5, <1>6, <1>7, <1>8 DEF ReceiveUser, TypeInv, TypeOK

LEMMA ReceiveApplyType ==
    ASSUME TypeInv, NEW s \in Slot, NEW K \in SUBSET install, NEW v \in 1 .. MaxVersion,
           ReceiveApply(s, K, v)
    PROVE  TypeInv'
<1>1. PICK persisted \in BOOLEAN :
        req' = [req EXCEPT ![s] = [Idle EXCEPT !.op = "apply", !.conf = v,
                                     !.todo = IF persisted THEN K ELSE {},
                                     !.failed = ~persisted]]
  BY DEF ReceiveApply, Fault
<1>. DEFINE new == [Idle EXCEPT !.op = "apply", !.conf = v,
                                !.todo = IF persisted THEN K ELSE {}, !.failed = ~persisted]
<1>2. v \in Version /\ K \in SUBSET Kind
  BY InstallType, BoundsAssumption DEF Version, TypeInv
<1>3. new \in Request /\ new.op = "apply" /\ new.who = {} /\ new.todo \subseteq install
  BY <1>2 DEF Idle, Request
<1>4. req' = [req EXCEPT ![s] = new]
  BY <1>1
<1>. HIDE DEF new
<1>5. req' \in [Slot -> Request] /\ \A r \in Slot : req'[r].todo \subseteq install
  BY <1>3, <1>4 DEF TypeInv, TypeOK
<1>6. Addressed'
  BY <1>3, <1>4 DEF TypeInv, TypeOK, Addressed
<1>7. sent' \in 0 .. MaxRequests
  BY BoundsAssumption DEF ReceiveApply, TypeInv, TypeOK
<1>. QED
  BY <1>5, <1>6, <1>7 DEF ReceiveApply, TypeInv, TypeOK

\* What is left of a request after a call.
Called(r, k, b) == [r EXCEPT !.todo = @ \ {k}, !.failed = b]

LEMMA CalledType ==
    ASSUME NEW r \in Request, NEW k \in Kind, NEW b \in BOOLEAN
    PROVE  /\ Called(r, k, b) \in Request
           /\ Called(r, k, b).op = r.op /\ Called(r, k, b).who = r.who
           /\ Called(r, k, b).ip = r.ip /\ Called(r, k, b).alone = r.alone
           /\ Called(r, k, b).todo = r.todo \ {k}
BY DEF Called, Request

\* The adapter and the request after a call.
CallResult(s, k, c, r) ==
    /\ c \in Core
    /\ c.vision \subseteq c.users
    /\ c.users = After(k, req[s])
    /\ core' = [core EXCEPT ![k] = c]
    /\ req' = [req EXCEPT ![s] = r]
    /\ r \in Request
    /\ r.op = req[s].op /\ r.who = req[s].who /\ r.ip = req[s].ip
    /\ r.alone = req[s].alone
    /\ r.todo = req[s].todo \ {k}

LEMMA CallAdapterStep ==
    ASSUME TypeInv, NEW s \in Slot, NEW k \in Kind, CallAdapter(s, k)
    PROVE  \E c, r : CallResult(s, k, c, r)
<1>1. PICK o \in Outcomes(k, req[s]) :
        /\ core' = [core EXCEPT ![k] = o.core]
        /\ req' = [req EXCEPT ![s].todo = @ \ {k}, ![s].failed = @ \/ ~o.ok]
  BY DEF CallAdapter
<1>2. /\ o \in Outcome
      /\ o.core.vision \subseteq o.core.users
      /\ o.core.users = After(k, req[s])
  BY OutcomesChanges DEF Changes
<1>3. o.core \in Core
  BY <1>2 DEF Outcome
<1>4. req[s] \in Request
  BY DEF TypeInv, TypeOK
<1>5. (req[s].failed \/ ~o.ok) \in BOOLEAN
  OBVIOUS
<1>. DEFINE r == Called(req[s], k, req[s].failed \/ ~o.ok)
<1>6. req' = [req EXCEPT ![s] = r]
  BY <1>1, <1>4 DEF TypeInv, TypeOK, Request, Called
<1>7. /\ r \in Request
      /\ r.op = req[s].op /\ r.who = req[s].who /\ r.ip = req[s].ip
      /\ r.alone = req[s].alone
      /\ r.todo = req[s].todo \ {k}
  BY <1>4, <1>5, CalledType
<1>. HIDE DEF r
<1>8. CallResult(s, k, o.core, r)
  BY <1>1, <1>2, <1>3, <1>6, <1>7 DEF CallResult
<1>. QED
  BY <1>8

LEMMA CallAdapterType ==
    ASSUME TypeInv, NEW s \in Slot, NEW k \in Kind, CallAdapter(s, k)
    PROVE  TypeInv'
<1>1. PICK c, new : CallResult(s, k, c, new)
  BY CallAdapterStep
<1>2. req' \in [Slot -> Request] /\ \A r \in Slot : req'[r].todo \subseteq install
  BY <1>1 DEF CallResult, TypeInv, TypeOK
<1>3. Addressed'
  BY <1>1 DEF CallResult, TypeInv, TypeOK, Addressed
<1>4. core' \in [Kind -> Core] /\ \A l \in Kind : core'[l].vision \subseteq core'[l].users
  BY <1>1 DEF CallResult, TypeInv, TypeOK
<1>5. trouble' \in [Kind -> SUBSET {"failed", "died"}]
  BY DEF CallAdapter, TypeInv, TypeOK
<1>. QED
  BY <1>2, <1>3, <1>4, <1>5 DEF CallAdapter, TypeInv, TypeOK

LEMMA AnswerType ==
    ASSUME TypeInv, NEW s \in Slot, Answer(s)
    PROVE  TypeInv'
<1>1. req' \in [Slot -> Request] /\ \A r \in Slot : req'[r].todo \subseteq install
  BY IdleType DEF Answer, TypeInv, TypeOK
<1>2. Addressed'
  BY IdleType DEF Answer, TypeInv, TypeOK, Addressed
<1>. QED
  BY <1>1, <1>2 DEF Answer, TypeInv, TypeOK

LEMMA CoreDiesType ==
    ASSUME TypeInv, NEW k \in Kind, CoreDies(k)
    PROVE  TypeInv' /\ \A l \in Kind : core'[l].users = core[l].users
<1>1. core[k] \in Core
  BY DEF TypeInv, TypeOK
<1>2. Alike(core[k], [core[k] EXCEPT !.server = Down])
  BY <1>1, ServerUpdates, DownType
<1>3. core' = [core EXCEPT ![k] = [core[k] EXCEPT !.server = Down]]
  BY DEF CoreDies, TypeInv, TypeOK
<1>4. /\ core' \in [Kind -> Core]
      /\ \A l \in Kind : /\ core'[l].vision \subseteq core'[l].users
                         /\ core'[l].users = core[l].users
  BY <1>2, <1>3 DEF Alike, TypeInv, TypeOK
<1>5. trouble' \in [Kind -> SUBSET {"failed", "died"}]
  BY DEF CoreDies, TypeInv, TypeOK
<1>. QED
  BY <1>4, <1>5 DEF CoreDies, TypeInv, TypeOK, Addressed

LEMMA AgentStartType ==
    ASSUME TypeInv, AgentStart
    PROVE  TypeInv' /\ \A l \in Kind : core'[l].users = core[l].users
<1>. DEFINE c == core["mieru"]
            d == [c EXCEPT !.started = TRUE, !.server = Down]
<1>1. c \in Core /\ "mieru" \in Kind
  BY DEF TypeInv, TypeOK, Kind
<1>2. Alike(c, d)
  BY <1>1, ServerUpdates, DownType DEF Alike, Core
<1>3. core' = core \/ core' = [core EXCEPT !["mieru"] = d]
  BY <1>1 DEF AgentStart, TypeInv, TypeOK
<1>4. /\ core' \in [Kind -> Core]
      /\ \A l \in Kind : /\ core'[l].vision \subseteq core'[l].users
                         /\ core'[l].users = core[l].users
  BY <1>1, <1>2, <1>3 DEF Alike, TypeInv, TypeOK
<1>5. sent' \in 0 .. MaxRequests /\ starts' \in 0 .. MaxStarts
  BY BoundsAssumption DEF AgentStart, TypeInv, TypeOK
<1>. QED
  BY <1>4, <1>5 DEF AgentStart, TypeInv, TypeOK, Addressed

LEMMA AgentEndsType ==
    ASSUME TypeInv, NEW S, AgentEnds(S)
    PROVE  TypeInv' /\ \A l \in Kind : core'[l].users = {}
<1>1. \A k \in Kind : (IF k \in S THEN core[k].server ELSE Down) \in Served
  BY DownType DEF TypeInv, TypeOK, Core
<1>2. /\ core' \in [Kind -> Core]
      /\ \A k \in Kind : core'[k].vision \subseteq core'[k].users /\ core'[k].users = {}
  BY <1>1, FreshType DEF AgentEnds
<1>3. /\ req' \in [Slot -> Request]
      /\ \A r \in Slot : req'[r].todo \subseteq install'
      /\ Addressed'
  BY IdleType DEF AgentEnds, Addressed
<1>. QED
  BY <1>2, <1>3 DEF AgentEnds, TypeInv, TypeOK

LEMMA NextType == TypeInv /\ [Next]_vars => TypeInv'
<1>. SUFFICES ASSUME TypeInv, [Next]_vars PROVE TypeInv'
  OBVIOUS
<1>1. install \in SUBSET Kind
  BY InstallType DEF TypeInv
<1>2. CASE UNCHANGED vars
  BY <1>2 DEF vars, TypeInv, TypeOK, Addressed
<1>3. CASE Next
  BY <1>1, <1>3, ReceiveUserType, ReceiveApplyType, CallAdapterType, AnswerType,
     CoreDiesType, AgentStartType, AgentEndsType DEF Next, AgentStop, AgentKilled
<1>. QED
  BY <1>2, <1>3

(* Every variable has its type, an adapter has flows for its own users only,
   and a request is left with adapters the agent has. *)
THEOREM TypeCorrect == Spec => []TypeOK
<1>1. TypeInv => TypeOK
  BY DEF TypeInv
<1>. QED
  BY <1>1, InitType, NextType, PTL DEF Spec

-----------------------------------------------------------------------------
(* The agent implements UserMaps *)

\* What UserMaps sees of the state.
holds == [k \in Kind |-> core[k].users]
call == [s \in Slot |-> CallOf(req[s])]

LEMMA NoCallIsIdle == CallOf(Idle) = Maps!NoCall
BY IdleType DEF CallOf, Maps!NoCall

LEMMA MapsInit == Init => Maps!Init
<1>. SUFFICES ASSUME Init PROVE Maps!Init
  OBVIOUS
<1>1. [k \in Kind |-> core[k].users] = [k \in Kind |-> {}]
  BY FreshType, DownType DEF Init
<1>2. [s \in Slot |-> CallOf(req[s])] = [s \in Slot |-> Maps!NoCall]
  BY NoCallIsIdle DEF Init
<1>. QED
  BY <1>1, <1>2 DEF Maps!Init

LEMMA ReceiveUserMaps ==
    ASSUME TypeInv, NEW s \in Slot, NEW op \in {"add", "remove"}, NEW u \in User,
           NEW ip \in BOOLEAN, ReceiveUser(s, op, u, ip)
    PROVE  Maps!Next
<1>. DEFINE new == [Idle EXCEPT !.op = op, !.who = {u}, !.ip = ip, !.todo = install,
                                !.alone = InFlight(u) = {}]
            older(r) == [req[r] EXCEPT !.alone = @ /\ u \notin req[r].who]
<1>1. CallOf(new) \in Maps!Call
  <2>1. new.op = op /\ new.who = {u} /\ new.todo \in SUBSET Kind
    BY InstallType DEF TypeInv, Idle
  <2>. HIDE DEF new
  <2>. QED
    BY <2>1 DEF CallOf, Maps!Call
<1>2. \A r \in Slot : CallOf(older(r)) = CallOf(req[r])
  BY DEF CallOf, TypeInv, TypeOK, Request
<1>3. req' = [r \in Slot |-> IF r = s THEN new ELSE older(r)] /\ req[s] = Idle /\ core' = core
  BY DEF ReceiveUser
<1>. HIDE DEF new, older
<1>4. call[s] = Maps!NoCall /\ call'[s] \in Maps!Call
  BY <1>1, <1>3, NoCallIsIdle DEF call
<1>5. call' = [call EXCEPT ![s] = call'[s]] /\ holds' = holds
  BY <1>2, <1>3 DEF call, holds
<1>6. Maps!Receive(s)
  BY <1>4, <1>5 DEF Maps!Receive, call, holds
<1>. QED
  BY <1>6 DEF Maps!Next

LEMMA ReceiveApplyMaps ==
    ASSUME TypeInv, NEW s \in Slot, NEW K, NEW v, ReceiveApply(s, K, v)
    PROVE  UNCHANGED <<holds, call>>
<1>1. PICK persisted \in BOOLEAN :
        req' = [req EXCEPT ![s] = [Idle EXCEPT !.op = "apply", !.conf = v,
                                     !.todo = IF persisted THEN K ELSE {},
                                     !.failed = ~persisted]]
  BY DEF ReceiveApply, Fault
<1>2. req[s] = Idle /\ core' = core
  BY DEF ReceiveApply
<1>3. CallOf(req'[s]) = CallOf(req[s])
  BY <1>1, <1>2, IdleType DEF CallOf, Idle, TypeInv, TypeOK
<1>4. \A r \in Slot : CallOf(req'[r]) = CallOf(req[r])
  BY <1>1, <1>3 DEF TypeInv, TypeOK
<1>. QED
  BY <1>2, <1>4 DEF holds, call

LEMMA CallAdapterMaps ==
    ASSUME TypeInv, NEW s \in Slot, NEW k \in Kind, CallAdapter(s, k)
    PROVE  Maps!Next \/ UNCHANGED <<holds, call>>
<1>1. PICK c, new : CallResult(s, k, c, new)
  BY CallAdapterStep
<1>2. k \in req[s].todo
  BY DEF CallAdapter, IsNext
<1>3. holds' = [holds EXCEPT ![k] = After(k, req[s])]
  BY <1>1 DEF CallResult, holds, TypeInv, TypeOK
<1>4. call' = [call EXCEPT ![s] = CallOf(new)]
  BY <1>1 DEF CallResult, call, TypeInv, TypeOK
<1>5. CASE req[s].op \notin {"add", "remove"} \/ (req[s].op = "add" /\ ~req[s].ip /\ k = "amneziawg")
  <2>1. CallOf(new) = CallOf(req[s])
    BY <1>1, <1>5 DEF CallResult, CallOf
  <2>2. After(k, req[s]) = core[k].users
    BY <1>5 DEF After, TypeInv, Addressed
  <2>. QED
    BY <1>3, <1>4, <2>1, <2>2 DEF holds, call
<1>6. CASE /\ req[s].op \in {"add", "remove"}
           /\ ~(req[s].op = "add" /\ ~req[s].ip /\ k = "amneziawg")
  <2>1. /\ k \in call[s].due
        /\ call[s].op = req[s].op /\ call[s].who = req[s].who
    BY <1>2, <1>6 DEF call, CallOf
  <2>2. After(k, req[s]) = IF call[s].op = "add" THEN holds[k] \cup call[s].who
                           ELSE holds[k] \ call[s].who
    BY <1>6, <2>1 DEF After, holds
  <2>3. CallOf(new) = [call[s] EXCEPT !.due = call[s].due \ {k}]
    <3>. DEFINE due(r) == IF r.op = "add" /\ ~r.ip THEN r.todo \ {"amneziawg"} ELSE r.todo
    <3>1. call[s] = [op |-> req[s].op, who |-> req[s].who, due |-> due(req[s])]
      BY <1>6 DEF CallOf, call
    <3>2. CallOf(new) = [op |-> req[s].op, who |-> req[s].who, due |-> due(new)]
      BY <1>1, <1>6 DEF CallOf, CallResult
    <3>3. due(new) = due(req[s]) \ {k}
      BY <1>1 DEF CallResult
    <3>. HIDE DEF due
    <3>. QED
      BY <3>1, <3>2, <3>3
  <2>4. /\ holds' = [holds EXCEPT ![k] = IF call[s].op = "add" THEN holds[k] \cup call[s].who
                                         ELSE holds[k] \ call[s].who]
        /\ call' = [call EXCEPT ![s] = [call[s] EXCEPT !.due = call[s].due \ {k}]]
    BY <1>3, <1>4, <2>2, <2>3
  <2>5. Maps!TakeEffect(s, k)
    BY <2>1, <2>4 DEF Maps!TakeEffect, holds, call
  <2>. QED
    BY <2>5 DEF Maps!Next
<1>. QED
  BY <1>5, <1>6

LEMMA AnswerMaps ==
    ASSUME TypeInv, NEW s \in Slot, Answer(s)
    PROVE  Maps!Next
<1>1. call[s].due = {}
  BY DEF Answer, call, CallOf
<1>2. call' = [call EXCEPT ![s] = Maps!NoCall] /\ holds' = holds
  BY NoCallIsIdle DEF Answer, call, holds, TypeInv, TypeOK
<1>3. Maps!Answer(s)
  BY <1>1, <1>2 DEF Maps!Answer, call, holds
<1>. QED
  BY <1>3 DEF Maps!Next

LEMMA AgentEndsMaps ==
    ASSUME TypeInv, NEW S, AgentEnds(S)
    PROVE  Maps!Next
<1>1. holds' = [k \in Kind |-> {}]
  BY AgentEndsType DEF holds
<1>2. call' = [s \in Slot |-> Maps!NoCall]
  BY NoCallIsIdle DEF AgentEnds, call
<1>3. Maps!ProcessEnds
  BY <1>1, <1>2 DEF Maps!ProcessEnds, holds, call
<1>. QED
  BY <1>3 DEF Maps!Next

LEMMA ServersOnlyMaps ==
    ASSUME TypeInv, AgentStart \/ \E k \in Kind : CoreDies(k)
    PROVE  UNCHANGED <<holds, call>>
<1>1. \A l \in Kind : core'[l].users = core[l].users
  BY AgentStartType, CoreDiesType
<1>2. req' = req
  BY DEF AgentStart, CoreDies
<1>. QED
  BY <1>1, <1>2 DEF holds, call

LEMMA NextMaps == TypeInv /\ [Next]_vars => [Maps!Next]_(Maps!vars)
<1>. SUFFICES ASSUME TypeInv, [Next]_vars PROVE Maps!Next \/ UNCHANGED <<holds, call>>
  BY DEF Maps!vars, holds, call
<1>1. install \in SUBSET Kind
  BY InstallType DEF TypeInv
<1>2. CASE UNCHANGED vars
  BY <1>2 DEF vars, holds, call
<1>3. CASE Next
  BY <1>1, <1>3, ReceiveUserMaps, ReceiveApplyMaps, CallAdapterMaps, AnswerMaps,
     AgentEndsMaps, ServersOnlyMaps DEF Next, AgentStop, AgentKilled
<1>. QED
  BY <1>2, <1>3

(* The agent is the UserMaps that the panel's models take it for: whatever the
   adapters and their servers do, a call changes each map once, between its
   arrival and its answer, and nothing but the end of the process does else. *)
THEOREM ImplementsUserMaps == Spec => AgentIsUserMaps
<1>. QED
  BY InitType, NextType, MapsInit, NextMaps, PTL DEF Spec, AgentIsUserMaps, Maps!Spec

-----------------------------------------------------------------------------
(* The adapters agree about a user *)

\* The adapters that the request has been to are as it wants them.
Done(u, r) ==
    \A k \in install \ r.todo :
        IF r.op = "add" THEN k # "amneziawg" => u \in core[k].users ELSE u \notin core[k].users

\* A request that has overlapped with no other about its user is the only one,
\* and done with the adapters it has been to; the user of any other is in raced.
Alone ==
    \A s \in Slot : \A u \in req[s].who :
        IF req[s].alone THEN InFlight(u) = {s} /\ Done(u, req[s]) ELSE u \in raced

AgreeInv == TypeInv /\ Alone /\ AdaptersAgree

LEMMA InitAgree == Init => Alone /\ AdaptersAgree
<1>. SUFFICES ASSUME Init PROVE Alone /\ AdaptersAgree
  OBVIOUS
<1>1. Alone
  BY IdleType DEF Init, Alone
<1>2. install \in SUBSET Kind /\ \A k \in Kind : core[k].users = {}
  BY FreshType, DownType, InstallsAssumption DEF Init
<1>. QED
  BY <1>1, <1>2 DEF AdaptersAgree

\* A step that changes nobody's requests and nobody's users.
LEMMA SameUsersAgree ==
    ASSUME AgreeInv, install' = install, raced' = raced, req' = req,
           \A l \in Kind : core'[l].users = core[l].users
    PROVE  Alone' /\ AdaptersAgree'
<1>1. install \in SUBSET Kind
  BY InstallType DEF AgreeInv, TypeInv
<1>2. \A u \in User : InFlight(u)' = InFlight(u)
  BY DEF InFlight
<1>3. \A u, r : Done(u, r)' <=> Done(u, r)
  BY <1>1 DEF Done
<1>4. \A s \in Slot : req[s].who \in SUBSET User
  BY DEF AgreeInv, TypeInv, TypeOK, Request
<1>5. Alone'
  BY <1>2, <1>3, <1>4 DEF AgreeInv, Alone, Done, InFlight
<1>6. AdaptersAgree'
  BY <1>1, <1>2 DEF AgreeInv, AdaptersAgree
<1>. QED
  BY <1>5, <1>6

LEMMA ReceiveUserAgree ==
    ASSUME AgreeInv, NEW s \in Slot, NEW op \in {"add", "remove"}, NEW u \in User,
           NEW ip \in BOOLEAN, ReceiveUser(s, op, u, ip)
    PROVE  Alone' /\ AdaptersAgree'
<1>. DEFINE new == [Idle EXCEPT !.op = op, !.who = {u}, !.ip = ip, !.todo = install,
                                !.alone = InFlight(u) = {}]
            older(r) == [req[r] EXCEPT !.alone = @ /\ u \notin req[r].who]
<1>1. /\ req' = [r \in Slot |-> IF r = s THEN new ELSE older(r)]
      /\ req[s] = Idle
      /\ core' = core /\ install' = install
      /\ raced' = IF InFlight(u) = {} THEN raced ELSE raced \cup {u}
  BY DEF ReceiveUser
<1>2. /\ new.op = op /\ new.who = {u} /\ new.todo = install
      /\ new.alone <=> InFlight(u) = {}
  BY DEF Idle
<1>3. ASSUME NEW r \in Slot
      PROVE  /\ older(r).op = req[r].op /\ older(r).who = req[r].who
             /\ older(r).todo = req[r].todo
             /\ older(r).alone <=> req[r].alone /\ u \notin req[r].who
  BY DEF AgreeInv, TypeInv, TypeOK, Request
<1>. HIDE DEF new, older
<1>4. /\ \A v \in User : v # u => InFlight(v)' = InFlight(v)
      /\ InFlight(u)' = InFlight(u) \cup {s}
  BY <1>1, <1>2, <1>3, IdleType DEF InFlight
<1>5. \A t \in Slot : t # s => \A v : Done(v, req[t]) => Done(v, req[t])'
  BY <1>1, <1>3 DEF Done
<1>6. ASSUME NEW t \in Slot, NEW v \in req'[t].who, t # s
      PROVE  IF req'[t].alone THEN InFlight(v)' = {t} /\ Done(v, req[t])' ELSE v \in raced'
  <2>1. /\ v \in req[t].who /\ v \in User
        /\ req'[t].alone <=> req[t].alone /\ u \notin req[t].who
    BY <1>1, <1>3, <1>6 DEF AgreeInv, TypeInv, TypeOK, Request
  <2>2. CASE req'[t].alone
    BY <1>4, <1>5, <1>6, <2>1, <2>2 DEF AgreeInv, Alone
  <2>3. CASE ~req'[t].alone /\ u \in req[t].who
    <3>1. v = u
      BY <2>1, <2>3 DEF AgreeInv, TypeInv, Addressed
    <3>2. InFlight(u) # {}
      BY <2>3 DEF InFlight
    <3>. QED
      BY <1>1, <2>3, <3>1, <3>2
  <2>4. CASE ~req'[t].alone /\ u \notin req[t].who
    BY <1>1, <2>1, <2>4 DEF AgreeInv, Alone
  <2>. QED
    BY <2>2, <2>3, <2>4
<1>7. ASSUME NEW v \in req'[s].who
      PROVE  IF req'[s].alone THEN InFlight(v)' = {s} /\ Done(v, req[s])' ELSE v \in raced'
  <2>1. v = u /\ (req'[s].alone <=> InFlight(u) = {}) /\ req'[s].todo = install'
    BY <1>1, <1>2
  <2>2. Done(v, req[s])'
    BY <2>1 DEF Done
  <2>. QED
    BY <1>1, <1>4, <2>1, <2>2
<1>8. Alone'
  BY <1>6, <1>7 DEF Alone
<1>9. AdaptersAgree'
  BY <1>1, <1>4 DEF AgreeInv, AdaptersAgree
<1>. QED
  BY <1>8, <1>9

LEMMA ReceiveApplyAgree ==
    ASSUME AgreeInv, NEW s \in Slot, NEW K, NEW v, ReceiveApply(s, K, v)
    PROVE  Alone' /\ AdaptersAgree'
<1>1. PICK new :
        /\ req' = [req EXCEPT ![s] = new]
        /\ new.who = {}
  <2>1. PICK persisted \in BOOLEAN :
          req' = [req EXCEPT ![s] = [Idle EXCEPT !.op = "apply", !.conf = v,
                                       !.todo = IF persisted THEN K ELSE {},
                                       !.failed = ~persisted]]
    BY DEF ReceiveApply, Fault
  <2>2. [Idle EXCEPT !.op = "apply", !.conf = v, !.todo = IF persisted THEN K ELSE {},
                     !.failed = ~persisted].who = {}
    BY DEF Idle
  <2>. QED
    BY <2>1, <2>2
<1>2. req[s] = Idle /\ core' = core /\ install' = install /\ raced' = raced
  BY DEF ReceiveApply
<1>3. req'[s].who = {} /\ \A r \in Slot : r # s => req'[r] = req[r]
  BY <1>1 DEF AgreeInv, TypeInv, TypeOK
<1>4. \A u \in User : InFlight(u)' = InFlight(u)
  BY <1>2, <1>3, IdleType DEF InFlight
<1>5. \A r \in Slot : req[r].who \in SUBSET User
  BY DEF AgreeInv, TypeInv, TypeOK, Request
<1>6. ASSUME NEW t \in Slot, NEW u \in req'[t].who
      PROVE  IF req'[t].alone THEN InFlight(u)' = {t} /\ Done(u, req[t])' ELSE u \in raced'
  <2>1. t # s /\ req'[t] = req[t] /\ u \in req[t].who /\ u \in User
    BY <1>3, <1>5
  <2>2. Done(u, req[t]) => Done(u, req[t])'
    BY <1>2, <2>1 DEF Done
  <2>. QED
    BY <1>2, <1>4, <2>1, <2>2 DEF AgreeInv, Alone
<1>7. AdaptersAgree'
  BY <1>2, <1>4 DEF AgreeInv, AdaptersAgree
<1>. QED
  BY <1>6, <1>7 DEF Alone

LEMMA CallAdapterAgree ==
    ASSUME AgreeInv, NEW s \in Slot, NEW k \in Kind, CallAdapter(s, k)
    PROVE  Alone' /\ AdaptersAgree'
<1>1. PICK c, new : CallResult(s, k, c, new)
  BY CallAdapterStep DEF AgreeInv
<1>2. install' = install /\ raced' = raced /\ install \in SUBSET Kind
  BY InstallType DEF CallAdapter, AgreeInv, TypeInv
<1>3. \A t \in Slot : /\ req'[t].who = req[t].who /\ req'[t].op = req[t].op
                      /\ req'[t].alone = req[t].alone
                      /\ t # s => req'[t] = req[t]
  BY <1>1 DEF CallResult, AgreeInv, TypeInv, TypeOK
<1>4. \A u \in User : InFlight(u)' = InFlight(u)
  BY <1>3 DEF InFlight
<1>5. \A l \in Kind : core'[l].users = IF l = k THEN After(k, req[s]) ELSE core[l].users
  BY <1>1 DEF CallResult, AgreeInv, TypeInv, TypeOK
<1>6. \A u : u \notin req[s].who =>
        \A l \in Kind : u \in core'[l].users <=> u \in core[l].users
  BY <1>5 DEF After
<1>7. \A r \in Slot : req[r].who \in SUBSET User
  BY DEF AgreeInv, TypeInv, TypeOK, Request
<1>8. ASSUME NEW t \in Slot, NEW u \in req'[t].who
      PROVE  IF req'[t].alone THEN InFlight(u)' = {t} /\ Done(u, req[t])' ELSE u \in raced'
  <2>1. u \in req[t].who /\ u \in User
    BY <1>3, <1>7
  <2>2. CASE ~req'[t].alone
    BY <1>2, <1>3, <2>1, <2>2 DEF AgreeInv, Alone
  <2>3. CASE req'[t].alone /\ t # s
    <3>1. InFlight(u) = {t} /\ Done(u, req[t])
      BY <1>3, <2>1, <2>3 DEF AgreeInv, Alone
    <3>2. u \notin req[s].who
      BY <2>3, <3>1 DEF InFlight
    <3>3. Done(u, req[t])'
      BY <1>2, <1>3, <1>6, <2>3, <3>1, <3>2 DEF Done
    <3>4. InFlight(u)' = {t}
      BY <1>4, <2>1, <3>1
    <3>. QED
      BY <2>3, <3>3, <3>4
  <2>4. CASE req'[t].alone /\ t = s
    <3>1. InFlight(u) = {s} /\ Done(u, req[s])
      BY <1>3, <2>1, <2>4 DEF AgreeInv, Alone
    <3>2. req'[s].todo = req[s].todo \ {k}
      BY <1>1 DEF CallResult, AgreeInv, TypeInv, TypeOK
    <3>3. IF req[s].op = "add" THEN k # "amneziawg" => u \in core'[k].users
          ELSE u \notin core'[k].users
      BY <1>5, <2>1, <2>4 DEF After
    <3>4. ASSUME NEW l \in install \ req'[s].todo
          PROVE  IF req[s].op = "add" THEN l # "amneziawg" => u \in core'[l].users
                 ELSE u \notin core'[l].users
      BY <1>2, <1>5, <3>1, <3>2, <3>3 DEF Done
    <3>5. Done(u, req[s])'
      BY <1>2, <1>3, <3>4 DEF Done
    <3>. QED
      BY <1>4, <2>1, <2>4, <3>1, <3>5
  <2>. QED
    BY <2>2, <2>3, <2>4
<1>9. ASSUME NEW u \in User, InFlight(u)' = {}, u \notin raced'
      PROVE  \A l, m \in install' : u \in core'[l].users /\ m # "amneziawg" => u \in core'[m].users
  <2>1. u \notin req[s].who
    BY <1>4, <1>9 DEF InFlight
  <2>2. \A l, m \in install : u \in core[l].users /\ m # "amneziawg" => u \in core[m].users
    BY <1>2, <1>4, <1>9 DEF AgreeInv, AdaptersAgree
  <2>. QED
    BY <1>2, <1>6, <2>1, <2>2
<1>. QED
  BY <1>8, <1>9 DEF Alone, AdaptersAgree

LEMMA AnswerAgree ==
    ASSUME AgreeInv, NEW s \in Slot, Answer(s)
    PROVE  Alone' /\ AdaptersAgree'
<1>1. /\ core' = core /\ install' = install
      /\ req[s].todo = {}
      /\ raced' = IF req[s].alone THEN raced \ req[s].who ELSE raced
  BY DEF Answer
<1>2. req'[s].who = {} /\ \A r \in Slot : r # s => req'[r] = req[r]
  BY IdleType DEF Answer, AgreeInv, TypeInv, TypeOK
<1>3. \A u \in User : InFlight(u)' = InFlight(u) \ {s}
  BY <1>2 DEF InFlight
<1>4. \A r \in Slot : req[r].who \in SUBSET User
  BY DEF AgreeInv, TypeInv, TypeOK, Request
<1>5. ASSUME NEW t \in Slot, NEW u \in req'[t].who
      PROVE  IF req'[t].alone THEN InFlight(u)' = {t} /\ Done(u, req[t])' ELSE u \in raced'
  <2>1. t # s /\ req'[t] = req[t] /\ u \in req[t].who /\ u \in User
    BY <1>2, <1>4
  <2>2. CASE req[t].alone
    <3>1. InFlight(u) = {t} /\ Done(u, req[t])
      BY <2>1, <2>2 DEF AgreeInv, Alone
    <3>2. Done(u, req[t])'
      BY <1>1, <2>1, <3>1 DEF Done
    <3>. QED
      BY <1>3, <2>1, <2>2, <3>1, <3>2
  <2>3. CASE ~req[t].alone
    <3>1. u \in raced
      BY <2>1, <2>3 DEF AgreeInv, Alone
    <3>2. req[s].alone => u \notin req[s].who
      BY <2>1 DEF AgreeInv, Alone, InFlight
    <3>. QED
      BY <1>1, <2>1, <2>3, <3>1, <3>2
  <2>. QED
    BY <2>2, <2>3
<1>6. ASSUME NEW u \in User, InFlight(u)' = {}, u \notin raced'
      PROVE  \A k, l \in install' : u \in core'[k].users /\ l # "amneziawg" => u \in core'[l].users
  <2>1. CASE u \in req[s].who
    <3>1. req[s].alone
      BY <1>1, <1>6, <2>1 DEF AgreeInv, Alone
    <3>2. Done(u, req[s])
      BY <2>1, <3>1 DEF AgreeInv, Alone
    <3>. QED
      BY <1>1, <3>2 DEF Done
  <2>2. CASE u \notin req[s].who
    <3>1. InFlight(u) = {} /\ u \notin raced
      BY <1>1, <1>3, <1>6, <2>2 DEF InFlight
    <3>. QED
      BY <1>1, <3>1 DEF AgreeInv, AdaptersAgree
  <2>. QED
    BY <2>1, <2>2
<1>. QED
  BY <1>5, <1>6 DEF Alone, AdaptersAgree

LEMMA AgentEndsAgree ==
    ASSUME AgreeInv, NEW S, AgentEnds(S)
    PROVE  Alone' /\ AdaptersAgree'
<1>1. Alone'
  BY IdleType DEF AgentEnds, Alone
<1>2. install' \in SUBSET Kind
  BY InstallType DEF AgentEnds, AgreeInv, TypeInv
<1>3. \A k \in Kind : core'[k].users = {}
  BY AgentEndsType DEF AgreeInv
<1>. QED
  BY <1>1, <1>2, <1>3 DEF AdaptersAgree

LEMMA NextAgree == AgreeInv /\ [Next]_vars => AgreeInv'
<1>. SUFFICES ASSUME AgreeInv, [Next]_vars PROVE AgreeInv'
  OBVIOUS
<1>1. TypeInv' /\ install \in SUBSET Kind
  BY NextType, InstallType DEF AgreeInv, TypeInv
<1>2. CASE UNCHANGED vars
  BY <1>1, <1>2, SameUsersAgree DEF vars, AgreeInv
<1>3. ASSUME AgentStart \/ \E k \in Kind : CoreDies(k) PROVE Alone' /\ AdaptersAgree'
  <2>1. \A l \in Kind : core'[l].users = core[l].users
    BY <1>3, AgentStartType, CoreDiesType DEF AgreeInv
  <2>2. install' = install /\ raced' = raced /\ req' = req
    BY <1>3 DEF AgentStart, CoreDies
  <2>. QED
    BY <2>1, <2>2, SameUsersAgree
<1>4. CASE Next
  <2>1. Alone' /\ AdaptersAgree'
    BY <1>1, <1>3, <1>4, ReceiveUserAgree, ReceiveApplyAgree, CallAdapterAgree, AnswerAgree,
       AgentEndsAgree DEF Next, AgentStop, AgentKilled
  <2>. QED
    BY <1>1, <2>1 DEF AgreeInv
<1>. QED
  BY <1>2, <1>4

(* Once no request about a user is being handled, the adapters agree on him,
   whatever failed on the way, unless two requests about him overlapped. *)
THEOREM UsersAgree == Spec => []AdaptersAgree
<1>1. Init => AgreeInv
  BY InitType, InitAgree DEF AgreeInv
<1>2. AgreeInv => AdaptersAgree
  BY DEF AgreeInv
<1>. QED
  BY <1>1, <1>2, NextAgree, PTL DEF Spec

-----------------------------------------------------------------------------
(* What a server runs, and what is said of it *)

\* The adapters whose server is a subprocess of the agent.
Spawned == {"xray", "shadowsocks", "mtproto", "naive"}

\* There is something to serve, and a server to serve it.
SetUp(k, c) == (c.conf # 0 \/ k = "mieru") /\ (k = "hysteria" => HysteriaManaged)

\* Flows are xray's; hysteria's server is told of no users; a handle is of an
\* inbound; a subprocess that runs has been started and is held.
Sound(k, c) ==
    /\ k # "xray" => c.vision = {}
    /\ k = "hysteria" => c.server.users = {} /\ c.server.vision = {}
    /\ c.handle => c.conf # 0
    /\ k \in Spawned /\ c.server # Down => c.started /\ c.handle

\* The same server, and the same of what is said of it.
SameServer(b, d) == d.server = b.server /\ d.handle = b.handle /\ d.started = b.started

\* What a call on b may end in: nothing is served that should not be, and an
\* answer without an error means that the server follows, or did not before.
Good(k, b, o) ==
    /\ o.core \in Core /\ Sound(k, o.core)
    /\ b.started => o.core.started
    /\ k \in Spawned /\ o.core.handle => o.core.server # Down \/ (b.handle /\ b.server = Down)
    /\ o.ok /\ SetUp(k, o.core) => Serves(k, o.core) \/ (SetUp(k, b) /\ ~Serves(k, b))

\* The outcomes that leave the server alone, and those that do not answer nil.
LEMMA GoodPieces ==
    ASSUME NEW k \in Kind, NEW b \in Core, NEW d \in Core, Sound(k, d), SameServer(b, d)
    PROVE  /\ Good(k, b, Err(d))
           /\ (SetUp(k, d) => Serves(k, d) \/ (SetUp(k, b) /\ ~Serves(k, b))) => Good(k, b, Ok(d))
           /\ Good(k, b, Err([d EXCEPT !.server = Down, !.handle = FALSE]))
           /\ k \notin Spawned => Good(k, b, Err([d EXCEPT !.server = Down]))
<1>1. \A x : Ok(x).core = x /\ Ok(x).ok /\ Err(x).core = x /\ ~Err(x).ok
  BY DEF Ok, Err
<1>2. Good(k, b, Err(d)) /\ ((SetUp(k, d) => Serves(k, d) \/ (SetUp(k, b) /\ ~Serves(k, b)))
                              => Good(k, b, Ok(d)))
  BY <1>1 DEF Good, SameServer
<1>. DEFINE e == [d EXCEPT !.server = Down, !.handle = FALSE]
            f == [d EXCEPT !.server = Down]
<1>3. /\ e \in Core /\ e.server = Down /\ ~e.handle /\ e.started = d.started /\ e.vision = d.vision
      /\ f \in Core /\ f.server = Down /\ f.started = d.started /\ f.vision = d.vision
      /\ f.handle = d.handle /\ f.conf = d.conf
  BY DownType DEF Core
<1>4. Down.users = {} /\ Down.vision = {}
  BY DEF Down
<1>5. Good(k, b, Err(e))
  <2>. HIDE DEF e
  <2>. QED BY <1>1, <1>3, <1>4 DEF Good, Sound, SameServer
<1>6. k \notin Spawned => Good(k, b, Err(f))
  <2>. HIDE DEF f
  <2>. QED BY <1>1, <1>3, <1>4 DEF Good, Sound, SameServer
<1>. QED
  BY <1>2, <1>5, <1>6

\* A server that was just made to read the memory.
LEMMA GoodLoads ==
    ASSUME NEW k \in Kind, NEW b \in Core, NEW d \in Core, Sound(k, d), SameServer(b, d),
           NEW e \in Core, e.server = Memory(k, d), e.conf = d.conf, e.users = d.users,
           e.vision = d.vision, e.started \/ e.started = d.started, e.handle => d.conf # 0,
           k \in Spawned => e.started /\ e.handle /\ d.conf # 0
    PROVE  Good(k, b, Ok(e))
<1>1. Ok(e).core = e /\ Ok(e).ok
  BY DEF Ok
<1>2. Serves(k, e)
  BY DEF Serves, Memory
<1>3. e.server.conf = d.conf /\ Down.conf = 0
  BY DEF Memory, Down
<1>4. k = "hysteria" => e.server.users = {} /\ e.server.vision = {}
  BY DEF Memory, UsersInMemory, Sound
<1>5. Sound(k, e)
  BY <1>3, <1>4 DEF Sound
<1>. QED
  BY <1>1, <1>2, <1>3, <1>5 DEF Good, SameServer

\* Every way a changed memory reaches its server.
LEMMA RegenerateGood ==
    ASSUME NEW k \in Kind \ {"hysteria"}, NEW b \in Core, NEW d \in Core, Sound(k, d), SameServer(b, d),
           k = "amneziawg" => d.conf = b.conf /\ b.vision = {},
           NEW o \in Regenerate(k, d)
    PROVE  Good(k, b, o)
<1>0. Memory(k, d) \in Served /\ Down \in Served
  BY MemoryType, DownType
<1>1. CASE o = Err(d)
  BY <1>1, GoodPieces
<1>2. CASE (d.conf # 0 \/ k = "mieru") /\ o \in Spawn(k, d) /\ k \in Spawned
  <2>. DEFINE e == [d EXCEPT !.server = Memory(k, d), !.started = TRUE, !.handle = TRUE]
  <2>1. CASE o = Ok(e)
    <3>1. /\ e \in Core /\ e.server = Memory(k, d) /\ e.conf = d.conf /\ e.users = d.users
          /\ e.vision = d.vision /\ e.started /\ e.handle
      BY <1>0 DEF Core
    <3>2. d.conf # 0
      BY <1>2 DEF Spawned
    <3>. HIDE DEF e
    <3>. QED BY <2>1, <3>1, <3>2, GoodLoads
  <2>2. CASE o = Err([d EXCEPT !.server = Down, !.handle = FALSE])
    BY <2>2, GoodPieces
  <2>. QED BY <1>2, <2>1, <2>2 DEF Spawn, Fault
<1>3. CASE k = "naive" /\ d.handle /\ d.conf # 0 /\ o \in CaddyReload(d)
  <2>. DEFINE e == [d EXCEPT !.server = Memory("naive", d)]
  <2>1. CASE o = Ok(e) /\ d.server # Down
    <3>1. /\ e \in Core /\ e.server = Memory(k, d) /\ e.conf = d.conf /\ e.users = d.users
          /\ e.vision = d.vision /\ e.started = d.started /\ e.handle = d.handle
      BY <1>0, <1>3 DEF Core
    <3>2. d.started /\ e.handle
      BY <1>3, <2>1, <3>1 DEF Sound, Spawned
    <3>. HIDE DEF e
    <3>. QED BY <1>3, <2>1, <3>1, <3>2, GoodLoads
  <2>. QED BY <1>1, <1>3, <2>1 DEF CaddyReload, Fault
<1>4. CASE k = "mieru" /\ o \in MitaApply(d)
  <2>. DEFINE e == [d EXCEPT !.server = Memory("mieru", d), !.started = TRUE]
  <2>1. CASE o = Ok(e)
    <3>1. /\ e \in Core /\ e.server = Memory(k, d) /\ e.conf = d.conf /\ e.users = d.users
          /\ e.vision = d.vision /\ e.started /\ e.handle = d.handle
      BY <1>0, <1>4 DEF Core
    <3>2. (e.handle => d.conf # 0) /\ k \notin Spawned
      BY <1>4, <3>1 DEF Sound, Spawned
    <3>. HIDE DEF e
    <3>. QED BY <2>1, <3>1, <3>2, GoodLoads
  <2>. QED BY <1>1, <1>4, <2>1 DEF MitaApply, Fault
<1>5. CASE k = "amneziawg" /\ o \in AwgSync(d)
  <2>. DEFINE e == [d EXCEPT !.server = Memory("amneziawg", d)]
              f == [d EXCEPT !.server = Down]
              g == [d EXCEPT !.server.users = d.users]
  <2>0. k \notin Spawned
    BY <1>5 DEF Spawned
  <2>1. CASE o = Ok(e)
    <3>1. /\ e \in Core /\ e.server = Memory(k, d) /\ e.conf = d.conf /\ e.users = d.users
          /\ e.vision = d.vision /\ e.started = d.started /\ e.handle = d.handle
      BY <1>0, <1>5 DEF Core
    <3>2. e.handle => d.conf # 0
      BY <3>1 DEF Sound
    <3>. HIDE DEF e
    <3>. QED BY <2>0, <2>1, <3>1, <3>2, GoodLoads
  <2>2. CASE o = Err(f)
    BY <2>0, <2>2, GoodPieces
  <2>3. CASE o = Ok(g)
    <3>1. d.server \in Served /\ d.users \in SUBSET User
      BY DEF Core
    <3>2. [d.server EXCEPT !.users = d.users] \in Served
      BY <3>1 DEF Served
    <3>3. g = [d EXCEPT !.server = [d.server EXCEPT !.users = d.users]]
      BY DEF Core
    <3>4. /\ g \in Core /\ g.conf = d.conf /\ g.users = d.users /\ g.vision = d.vision
          /\ g.started = d.started /\ g.handle = d.handle
          /\ g.server = [d.server EXCEPT !.users = d.users]
      BY <3>2, <3>3 DEF Core
    <3>. HIDE DEF g
    <3>5. Sound(k, g)
      BY <1>5, <2>0, <3>4 DEF Sound
    <3>6. SetUp(k, g) <=> SetUp(k, b)
      BY <1>5, <3>4 DEF SetUp
    <3>7. Serves(k, b) => Serves(k, g)
      <4>. SUFFICES ASSUME Serves(k, b) PROVE g.server = Memory(k, g)
        BY DEF Serves
      <4>1. d.server = Memory(k, b)
        BY DEF Serves, SameServer
      <4>2. g.server = [conf |-> b.conf, users |-> d.users, vision |-> b.vision]
        BY <1>5, <3>4, <4>1 DEF Memory, UsersInMemory
      <4>3. d.vision = {} /\ b.vision = {}
        BY <1>5 DEF Sound
      <4>. QED BY <1>5, <3>4, <4>2, <4>3 DEF Memory, UsersInMemory
    <3>8. Ok(g).core = g
      BY DEF Ok
    <3>. QED BY <2>0, <2>3, <3>4, <3>5, <3>6, <3>7, <3>8 DEF Good, SameServer
  <2>. QED BY <1>1, <1>5, <2>1, <2>2, <2>3 DEF AwgSync, Fault
<1>. QED
  <2>1. CASE d.conf = 0 /\ k # "mieru"
    BY <1>1, <2>1 DEF Regenerate
  <2>2. CASE ~(d.conf = 0 /\ k # "mieru")
    <3>1. \/ o = Err(d)
          \/ k = "amneziawg" /\ o \in AwgSync(d)
          \/ k = "mieru" /\ o \in MitaApply(d)
          \/ k = "naive" /\ d.handle /\ o \in CaddyReload(d)
          \/ k \in Spawned /\ o \in Spawn(k, d)
      BY <2>2 DEF Regenerate, Fault, Kind, Spawned
    <3>. QED BY <1>1, <1>2, <1>3, <1>4, <1>5, <2>2, <3>1
  <2>. QED BY <2>1, <2>2

\* A call that changes users only: the server follows, or is not told yet.
LEMMA ChangeGood ==
    ASSUME NEW k \in Kind, NEW b \in Core, NEW d \in Core, Sound(k, b), Sound(k, d),
           SameServer(b, d), d.conf = b.conf, k = "mieru" => b.started, Cached(k, d) <=> Cached(k, b),
           NEW o \in IF Cached(k, b) THEN {Ok(d)} ELSE Regenerate(k, d)
    PROVE  Good(k, b, o)
<1>1. CASE Cached(k, b)
  <2>1. (SetUp(k, d) <=> SetUp(k, b)) /\ k # "xray"
    BY <1>1 DEF SetUp, Cached, UsersInMemory
  <2>2. CASE k \in UsersInMemory
    <3>1. Serves(k, d) <=> Serves(k, b)
      BY <2>1, <2>2 DEF Serves, Memory, Sound, SameServer
    <3>. QED BY <1>1, <2>1, <3>1, GoodPieces
  <2>3. CASE k \notin UsersInMemory
    <3>1. k = "shadowsocks" /\ ~b.started
      BY <1>1, <2>3 DEF Cached
    <3>2. b.server = Down
      BY <3>1 DEF Sound, Spawned
    <3>3. SetUp(k, b) => ~Serves(k, b)
      BY <3>1, <3>2 DEF SetUp, Serves, Memory, Down
    <3>. QED BY <1>1, <2>1, <3>3, GoodPieces
  <2>. QED BY <2>2, <2>3
<1>2. CASE ~Cached(k, b)
  <2>1. k # "hysteria"
    BY <1>2 DEF Cached, UsersInMemory
  <2>2. k = "amneziawg" => b.vision = {}
    BY DEF Sound
  <2>. QED BY <1>2, <2>1, <2>2, RegenerateGood
<1>. QED BY <1>1, <1>2

\* POST /addUser at one adapter.
LEMMA AddUserGood ==
    ASSUME NEW k \in Kind, NEW b \in Core, b.vision \subseteq b.users, Sound(k, b),
           k = "mieru" => b.started, NEW u \in User, NEW ip \in BOOLEAN, NEW o \in AddUser(k, b, u, ip)
    PROVE  Good(k, b, o)
<1>1. CASE Unchanged(k, b, u) \/ (k = "amneziawg" /\ ~ip)
  <2>1. o = Ok(b) /\ SameServer(b, b)
    BY <1>1 DEF AddUser, SameServer
  <2>. QED BY <2>1, GoodPieces
<1>2. CASE ~(Unchanged(k, b, u) \/ (k = "amneziawg" /\ ~ip))
  <2>. DEFINE d == With(k, b, u)
  <2>1. o \in IF Cached(k, b) THEN {Ok(d)} ELSE Regenerate(k, d)
    BY <1>2 DEF AddUser
  <2>2. d \in Core
    BY WithType
  <2>3. /\ d.server = b.server /\ d.handle = b.handle /\ d.started = b.started /\ d.conf = b.conf
        /\ k # "xray" => d.vision = b.vision \ {u}
    BY DEF With, Core
  <2>. HIDE DEF d
  <2>4. SameServer(b, d) /\ Sound(k, d) /\ (Cached(k, d) <=> Cached(k, b))
    BY <2>3 DEF SameServer, Sound, Cached
  <2>. QED BY <2>1, <2>2, <2>3, <2>4, ChangeGood
<1>. QED BY <1>1, <1>2

\* POST /removeUser at one adapter.
LEMMA RemoveUserGood ==
    ASSUME NEW k \in Kind, NEW b \in Core, b.vision \subseteq b.users, Sound(k, b),
           k = "mieru" => b.started, NEW u \in User, NEW o \in RemoveUser(k, b, u)
    PROVE  Good(k, b, o)
<1>1. CASE u \notin b.users
  <2>1. o = Ok(b) /\ SameServer(b, b)
    BY <1>1 DEF RemoveUser, SameServer
  <2>. QED BY <2>1, GoodPieces
<1>2. CASE u \in b.users
  <2>. DEFINE d == Without(b, u)
  <2>1. o \in IF Cached(k, b) THEN {Ok(d)} ELSE Regenerate(k, d)
    BY <1>2 DEF RemoveUser
  <2>2. d \in Core
    BY WithoutType
  <2>3. /\ d.server = b.server /\ d.handle = b.handle /\ d.started = b.started /\ d.conf = b.conf
        /\ d.vision = b.vision \ {u}
    BY DEF Without, Core
  <2>. HIDE DEF d
  <2>4. SameServer(b, d) /\ Sound(k, d) /\ (Cached(k, d) <=> Cached(k, b))
    BY <2>3 DEF SameServer, Sound, Cached
  <2>. QED BY <2>1, <2>2, <2>3, <2>4, ChangeGood
<1>. QED BY <1>1, <1>2

\* POST /applyInbounds at the hysteria adapter.
LEMMA ApplyHysteriaGood ==
    ASSUME NEW b \in Core, Sound("hysteria", b), NEW v \in Version, v # 0,
           NEW o \in ApplyHysteria(b, v)
    PROVE  Good("hysteria", b, o)
<1>. DEFINE k == "hysteria"
            d == [b EXCEPT !.conf = v]
            s == [b.server EXCEPT !.conf = v]
            e == [d EXCEPT !.server = s]
<1>0. k \in Kind /\ k \notin Spawned /\ SameServer(b, b)
  BY DEF Kind, Spawned, SameServer
<1>1. /\ d \in Core /\ d.server = b.server /\ d.handle = b.handle /\ d.started = b.started
      /\ d.conf = v /\ d.vision = b.vision /\ d.users = b.users
  BY DEF Core
<1>2. \/ ~HysteriaManaged /\ o = Ok(d)
      \/ HysteriaManaged /\ \/ o = Err(b) \/ o = Ok(e) \/ o = Err(d)
                            \/ o = Err([d EXCEPT !.server = Down])
  <2>1. [b EXCEPT !.conf = v, !.server.conf = v] = e
    BY DEF Core
  <2>2. [b EXCEPT !.conf = v, !.server = Down] = [d EXCEPT !.server = Down]
    BY DEF Core
  <2>. QED BY <2>1, <2>2 DEF ApplyHysteria, Fault
<1>3. s \in Served /\ s.conf = v /\ s.users = b.server.users /\ s.vision = b.server.vision
  BY DEF Core, Served
<1>4. s = Memory(k, d)
  BY <1>1, <1>3 DEF Served, Memory, UsersInMemory, Sound
<1>. HIDE DEF s
<1>5. /\ e \in Core /\ e.server = s /\ e.conf = d.conf /\ e.users = d.users
      /\ e.vision = d.vision /\ e.started = d.started /\ e.handle = d.handle
  BY <1>1, <1>3 DEF Core
<1>. HIDE DEF d, e
<1>6. SameServer(b, d) /\ Sound(k, d)
  BY <1>1 DEF SameServer, Sound, Spawned
<1>7. Good(k, b, Ok(e))
  <2>1. d.conf # 0
    BY <1>1
  <2>. QED BY <1>0, <1>1, <1>4, <1>5, <1>6, <2>1, GoodLoads
<1>8. CASE ~HysteriaManaged /\ o = Ok(d)
  <2>1. ~SetUp(k, d)
    BY <1>8 DEF SetUp
  <2>. QED BY <1>0, <1>1, <1>6, <1>8, <2>1, GoodPieces
<1>9. Good(k, b, Err(b)) /\ Good(k, b, Err(d)) /\ Good(k, b, Err([d EXCEPT !.server = Down]))
  BY <1>0, <1>1, <1>6, GoodPieces
<1>. QED BY <1>2, <1>7, <1>8, <1>9

\* POST /applyInbounds at any adapter.
LEMMA ApplyInboundGood ==
    ASSUME NEW k \in Kind, NEW b \in Core, Sound(k, b), NEW v \in Version, v # 0,
           NEW o \in ApplyInbound(k, b, v)
    PROVE  Good(k, b, o)
<1>. DEFINE d == [b EXCEPT !.conf = v]
<1>0. SameServer(b, b)
  BY DEF SameServer
<1>1. /\ d \in Core /\ d.server = b.server /\ d.handle = b.handle /\ d.started = b.started
      /\ d.conf = v /\ d.vision = b.vision
  BY DEF Core
<1>2. \/ o = Ok(b) \/ o = Err(b)
      \/ k = "hysteria" /\ o \in ApplyHysteria(b, v)
      \/ k = "amneziawg" /\ o \in AwgBounce(d)
      \/ k \notin {"hysteria", "amneziawg"} /\ o \in Regenerate(k, d)
  BY DEF ApplyInbound
<1>. HIDE DEF d
<1>3. SameServer(b, d) /\ Sound(k, d)
  BY <1>1 DEF SameServer, Sound
<1>4. CASE o = Ok(b) \/ o = Err(b)
  BY <1>0, <1>4, GoodPieces
<1>5. CASE k = "amneziawg" /\ o \in AwgBounce(d)
  <2>. DEFINE e == [d EXCEPT !.server = Memory("amneziawg", d), !.started = TRUE]
  <2>1. k \notin Spawned
    BY <1>5 DEF Spawned
  <2>2. CASE o = Ok(e)
    <3>0. Memory(k, d) \in Served
      BY <1>1, MemoryType
    <3>1. /\ e \in Core /\ e.server = Memory(k, d) /\ e.conf = d.conf /\ e.users = d.users
          /\ e.vision = d.vision /\ e.started /\ e.handle = d.handle
      BY <1>1, <1>5, <3>0 DEF Core
    <3>. HIDE DEF e
    <3>. QED BY <1>1, <1>3, <2>1, <2>2, <3>1, GoodLoads
  <2>3. CASE o = Err(d) \/ o = Err([d EXCEPT !.server = Down])
    BY <1>1, <1>3, <2>1, <2>3, GoodPieces
  <2>. QED BY <1>5, <2>2, <2>3 DEF AwgBounce, Fault
<1>6. CASE k \notin {"hysteria", "amneziawg"} /\ o \in Regenerate(k, d)
  BY <1>1, <1>3, <1>6, RegenerateGood
<1>. QED BY <1>2, <1>4, <1>5, <1>6, ApplyHysteriaGood

\* An adapter as the process finds it when it starts.
Blank(c) == c.conf = 0 /\ c.users = {} /\ c.vision = {} /\ ~c.started /\ ~c.handle

\* What can be said of every adapter and its server.
Told(k) ==
    /\ Sound(k, core[k])
    /\ k \in Spawned /\ core[k].handle => core[k].server # Down \/ "died" \in trouble[k]
    /\ Configured(k) /\ ~Serves(k, core[k]) => trouble[k] # {}
    /\ up /\ k = "mieru" /\ k \in install => core[k].started

\* Nothing is remembered, and nothing handled, between two processes; the
\* panel has no inbound 0.
Rested ==
    /\ \A s \in Slot : req[s].op = "apply" => req[s].conf # 0
    /\ ~up => (\A s \in Slot : req[s].todo = {}) /\ (\A k \in Kind : Blank(core[k]))

ToldInv == TypeInv /\ Rested /\ \A k \in Kind : Told(k)

\* What an adapter is told of carries over when it and its server do not change.
LEMMA ToldStays ==
    ASSUME NEW k \in Kind, Told(k), install' = install, up' = up,
           core'[k] = core[k], trouble'[k] = trouble[k]
    PROVE  Told(k)'
<1>1. HysteriaManaged' <=> HysteriaManaged
  BY DEF HysteriaManaged
<1>2. Configured(k)' <=> Configured(k)
  BY <1>1 DEF Configured
<1>3. Sound(k, core[k])' <=> Sound(k, core[k])
  BY DEF Sound, HysteriaManaged
<1>4. Serves(k, core[k])' <=> Serves(k, core[k])
  BY DEF Serves, Memory
<1>5. Sound(k, core[k]) /\ (Configured(k) /\ ~Serves(k, core[k]) => trouble[k] # {})
  BY DEF Told
<1>6. k \in Spawned /\ core'[k].handle => core'[k].server # Down \/ "died" \in trouble'[k]
  BY DEF Told
<1>7. up' /\ k = "mieru" /\ k \in install' => core'[k].started
  BY DEF Told
<1>8. Configured(k)' /\ ~Serves(k, core[k])' => trouble'[k] # {}
  BY <1>2, <1>4, <1>5
<1>. QED BY <1>3, <1>5, <1>6, <1>7, <1>8 DEF Told

\* Before the first process nothing runs and nothing is remembered.
LEMMA InitTold == Init => Rested /\ \A k \in Kind : Told(k)
<1>. SUFFICES ASSUME Init PROVE Rested /\ \A k \in Kind : Told(k)
  OBVIOUS
<1>1. \A k \in Kind : core[k] = Fresh(Down)
  BY DEF Init
<1>2. \A k \in Kind : Blank(core[k]) /\ core[k].server = Down
  BY <1>1 DEF Fresh, Blank
<1>3. Rested
  BY <1>2, IdleType DEF Init, Rested
<1>4. \A k \in Kind : Told(k)
  BY <1>2 DEF Init, Told, Blank, Sound, Down, Configured
<1>. QED BY <1>3, <1>4

\* A request arrives.
LEMMA ReceiveTold ==
    ASSUME ToldInv, NEW s \in Slot,
           \/ \E op \in {"add", "remove"}, u \in User, ip \in BOOLEAN : ReceiveUser(s, op, u, ip)
           \/ \E K \in SUBSET install, v \in 1 .. MaxVersion : ReceiveApply(s, K, v)
    PROVE  Rested' /\ \A k \in Kind : Told(k)'
<1>1. core' = core /\ trouble' = trouble /\ install' = install /\ up' = up /\ up
  BY DEF ReceiveUser, ReceiveApply
<1>2. \A k \in Kind : Told(k)'
  BY <1>1, ToldStays DEF ToldInv
<1>3. ASSUME NEW t \in Slot, req'[t].op = "apply" PROVE req'[t].conf # 0
  <2>1. \A r \in Slot : req[r] \in Request
    BY DEF ToldInv, TypeInv, TypeOK
  <2>2. CASE \E op \in {"add", "remove"}, u \in User, ip \in BOOLEAN : ReceiveUser(s, op, u, ip)
    <3>1. PICK op \in {"add", "remove"}, u \in User, ip \in BOOLEAN : ReceiveUser(s, op, u, ip)
      BY <2>2
    <3>2. t # s => req'[t].op = req[t].op /\ req'[t].conf = req[t].conf
      BY <2>1, <3>1 DEF ReceiveUser, Request
    <3>3. t = s => req'[t].op = op
      BY <3>1 DEF ReceiveUser, Idle
    <3>. QED BY <1>3, <3>2, <3>3 DEF ToldInv, Rested
  <2>3. CASE \E K \in SUBSET install, v \in 1 .. MaxVersion : ReceiveApply(s, K, v)
    <3>1. PICK K \in SUBSET install, v \in 1 .. MaxVersion : ReceiveApply(s, K, v)
      BY <2>3
    <3>2. t # s => req'[t] = req[t]
      BY <3>1 DEF ReceiveApply, ToldInv, TypeInv, TypeOK
    <3>3. t = s => req'[t].conf = v
      <4>1. PICK persisted \in {TRUE} \cup Fault("disk", {FALSE}) :
              req' = [req EXCEPT ![s] = [Idle EXCEPT !.op = "apply", !.conf = v,
                                           !.todo = IF persisted THEN K ELSE {},
                                           !.failed = ~persisted]]
        BY <3>1 DEF ReceiveApply
      <4>2. req'[s] = [Idle EXCEPT !.op = "apply", !.conf = v,
                         !.todo = IF persisted THEN K ELSE {}, !.failed = ~persisted]
        BY <4>1 DEF ToldInv, TypeInv, TypeOK
      <4>. QED BY <4>2 DEF Idle
    <3>4. v # 0
      BY BoundsAssumption
    <3>. QED BY <1>3, <3>2, <3>3, <3>4 DEF ToldInv, Rested
  <2>. QED BY <2>2, <2>3
<1>. QED BY <1>1, <1>2, <1>3 DEF Rested

\* Whatever a request does at an adapter is a good outcome.
LEMMA OutcomesGood ==
    ASSUME ToldInv, up, NEW s \in Slot, NEW k \in install, NEW o \in Outcomes(k, req[s])
    PROVE  k \in Kind /\ Good(k, core[k], o)
<1>1. k \in Kind
  BY InstallType DEF ToldInv, TypeInv
<1>2. /\ core[k] \in Core /\ core[k].vision \subseteq core[k].users
      /\ req[s].conf \in Version /\ req[s].ip \in BOOLEAN /\ req[s].who \in SUBSET User
  BY <1>1 DEF ToldInv, TypeInv, TypeOK, Request
<1>3. Sound(k, core[k]) /\ (k = "mieru" => core[k].started)
  BY <1>1 DEF ToldInv, Told
<1>4. CASE req[s].op = "apply"
  <2>1. req[s].conf # 0
    BY <1>4 DEF ToldInv, Rested
  <2>2. o \in ApplyInbound(k, core[k], req[s].conf)
    BY <1>4 DEF Outcomes
  <2>. QED BY <1>1, <1>2, <1>3, <2>1, <2>2, ApplyInboundGood
<1>5. CASE req[s].op # "apply"
  <2>1. PICK u \in req[s].who : o \in IF req[s].op = "add" THEN AddUser(k, core[k], u, req[s].ip)
                                      ELSE RemoveUser(k, core[k], u)
    BY <1>5 DEF Outcomes
  <2>2. u \in User
    BY <1>2
  <2>. QED BY <1>1, <1>2, <1>3, <2>1, <2>2, AddUserGood, RemoveUserGood
<1>. QED BY <1>1, <1>4, <1>5

\* A call at one adapter.
LEMMA CallAdapterTold ==
    ASSUME ToldInv, NEW s \in Slot, NEW k \in install, CallAdapter(s, k)
    PROVE  Rested' /\ \A l \in Kind : Told(l)'
<1>1. PICK o \in Outcomes(k, req[s]) :
        /\ core' = [core EXCEPT ![k] = o.core]
        /\ req' = [req EXCEPT ![s].todo = @ \ {k}, ![s].failed = @ \/ ~o.ok]
        /\ trouble' = [trouble EXCEPT ![k] = IF ~o.ok THEN @ \cup {"failed"}
                                             ELSE IF Serves(k, o.core) THEN {} ELSE @]
  BY DEF CallAdapter
<1>2. install' = install /\ up' = up
  BY DEF CallAdapter
<1>3. up
  BY DEF ToldInv, Rested, CallAdapter, IsNext
<1>4. k \in Kind /\ Good(k, core[k], o)
  BY <1>3, OutcomesGood
<1>5. Rested'
  <2>1. \A t \in Slot : req'[t].op = req[t].op /\ req'[t].conf = req[t].conf
    BY <1>1 DEF ToldInv, TypeInv, TypeOK, Request
  <2>. QED BY <1>2, <1>3, <2>1 DEF ToldInv, Rested
<1>6. ASSUME NEW l \in Kind, l # k PROVE Told(l)'
  <2>1. core'[l] = core[l] /\ trouble'[l] = trouble[l]
    BY <1>1, <1>6 DEF ToldInv, TypeInv, TypeOK
  <2>. QED BY <1>2, <2>1, ToldStays DEF ToldInv
<1>7. Told(k)'
  <2>1. core'[k] = o.core
    BY <1>1, <1>4 DEF ToldInv, TypeInv, TypeOK
  <2>2. trouble'[k] = IF ~o.ok THEN trouble[k] \cup {"failed"}
                      ELSE IF Serves(k, o.core) THEN {} ELSE trouble[k]
    BY <1>1, <1>4 DEF ToldInv, TypeInv, TypeOK
  <2>3. Sound(k, o.core) /\ Told(k)
    BY <1>4 DEF Good, ToldInv
  <2>4. Configured(k) <=> SetUp(k, core[k])
    BY <1>3 DEF Configured, SetUp
  <2>5. Configured(k)' <=> SetUp(k, o.core)
    BY <1>2, <1>3, <2>1 DEF Configured, SetUp, HysteriaManaged
  <2>6. Sound(k, core[k])'
    BY <2>1, <2>3 DEF Sound
  <2>7. Configured(k)' /\ ~Serves(k, o.core) => trouble'[k] # {}
    BY <1>4, <2>2, <2>3, <2>4, <2>5 DEF Good, Told
  <2>8. k \in Spawned /\ o.core.handle => o.core.server # Down \/ "died" \in trouble'[k]
    <3>. SUFFICES ASSUME k \in Spawned, o.core.handle, o.core.server = Down
                  PROVE  "died" \in trouble'[k]
      OBVIOUS
    <3>1. "died" \in trouble[k]
      BY <1>4, <2>3 DEF Good, Told
    <3>2. ~Serves(k, o.core)
      BY <2>3 DEF Sound, Serves, Memory, Down
    <3>. QED BY <2>2, <3>1, <3>2
  <2>9. k = "mieru" => o.core.started
    BY <1>3, <1>4, <2>3 DEF Good, Told
  <2>10. Serves(k, core[k])' <=> Serves(k, o.core)
    BY <2>1 DEF Serves
  <2>. QED BY <2>1, <2>6, <2>7, <2>8, <2>9, <2>10 DEF Told
<1>. QED BY <1>5, <1>6, <1>7

\* The answer to the panel concerns no adapter.
LEMMA AnswerTold ==
    ASSUME ToldInv, NEW s \in Slot, Answer(s)
    PROVE  Rested' /\ \A k \in Kind : Told(k)'
<1>1. core' = core /\ trouble' = trouble /\ install' = install /\ up' = up
  BY DEF Answer
<1>2. \A k \in Kind : Told(k)'
  BY <1>1, ToldStays DEF ToldInv
<1>3. \A t \in Slot : req'[t] = IF t = s THEN Idle ELSE req[t]
  BY DEF Answer, ToldInv, TypeInv, TypeOK
<1>4. Rested'
  BY <1>1, <1>3, IdleType DEF ToldInv, Rested
<1>. QED BY <1>2, <1>4

\* A server that dies does so unseen, and the ghost remembers it.
LEMMA CoreDiesTold ==
    ASSUME ToldInv, NEW k \in install, CoreDies(k)
    PROVE  Rested' /\ \A l \in Kind : Told(l)'
<1>1. /\ install' = install /\ up' = up /\ req' = req /\ k \in Spawned
      /\ core' = [core EXCEPT ![k].server = Down]
      /\ trouble' = [trouble EXCEPT ![k] = @ \cup {"died"}]
  BY DEF CoreDies, Spawned
<1>2. k \in Kind /\ core[k] \in Core
  BY InstallType DEF ToldInv, TypeInv, TypeOK
<1>3. ASSUME NEW l \in Kind, l # k PROVE core'[l] = core[l] /\ trouble'[l] = trouble[l]
  BY <1>1, <1>3 DEF ToldInv, TypeInv, TypeOK
<1>4. /\ core'[k].server = Down /\ core'[k].handle = core[k].handle /\ core'[k].conf = core[k].conf
      /\ core'[k].vision = core[k].vision /\ core'[k].started = core[k].started
      /\ core'[k].users = core[k].users
      /\ trouble'[k] = trouble[k] \cup {"died"}
  BY <1>1, <1>2 DEF ToldInv, TypeInv, TypeOK, Core
<1>5. Told(k)'
  BY <1>1, <1>2, <1>4 DEF ToldInv, Told, Sound, Spawned
<1>6. Rested'
  BY <1>1, <1>3, <1>4 DEF ToldInv, Rested, Blank
<1>. QED BY <1>1, <1>3, <1>5, <1>6, ToldStays DEF ToldInv

\* The process starts: mieru's daemon is told to stop serving.
LEMMA AgentStartTold ==
    ASSUME ToldInv, AgentStart
    PROVE  Rested' /\ \A l \in Kind : Told(l)'
<1>1. install' = install /\ up' /\ ~up /\ req' = req /\ trouble' = trouble
  BY DEF AgentStart
<1>2. Rested'
  BY <1>1 DEF ToldInv, Rested
<1>3. ASSUME NEW l \in Kind
      PROVE  /\ core'[l].conf = 0 /\ core'[l].users = {} /\ core'[l].vision = {}
             /\ ~core'[l].handle
             /\ IF l = "mieru" /\ l \in install THEN core'[l].server = Down /\ core'[l].started
                ELSE core'[l] = core[l]
  <2>1. Blank(core[l]) /\ core[l] \in Core
    BY <1>1 DEF ToldInv, Rested, TypeInv, TypeOK
  <2>2. CASE l = "mieru" /\ "mieru" \in install
    <3>1. core' = [core EXCEPT !["mieru"].started = TRUE, !["mieru"].server = Down]
      BY <2>2 DEF AgentStart
    <3>. QED BY <2>1, <2>2, <3>1 DEF ToldInv, TypeInv, TypeOK, Core, Blank
  <2>3. CASE ~(l = "mieru" /\ "mieru" \in install)
    <3>1. core'[l] = core[l]
      BY <2>3 DEF AgentStart, ToldInv, TypeInv, TypeOK
    <3>. QED BY <2>1, <2>3, <3>1 DEF Blank
  <2>. QED BY <2>2, <2>3
<1>4. ASSUME NEW l \in Kind PROVE Told(l)'
  <2>1. Sound(l, core[l]) /\ Sound(l, core[l])'
    BY <1>3 DEF ToldInv, Told, Sound, Spawned, Down
  <2>2. Configured(l)' => l = "mieru" /\ l \in install
    BY <1>1, <1>3 DEF Configured
  <2>3. l = "mieru" /\ l \in install => Serves(l, core[l])'
    BY <1>3 DEF Serves, Memory, Down, UsersInMemory
  <2>. QED BY <1>1, <1>3, <2>1, <2>2, <2>3 DEF Told
<1>. QED BY <1>2, <1>4

\* The process ends; what it had spawned ends with it.
LEMMA AgentEndsTold ==
    ASSUME ToldInv, NEW S \in SUBSET {"hysteria", "amneziawg", "mieru"}, AgentEnds(S)
    PROVE  Rested' /\ \A l \in Kind : Told(l)'
<1>1. ~up' /\ \A s \in Slot : req'[s] = Idle
  BY DEF AgentEnds
<1>2. ASSUME NEW l \in Kind
      PROVE  /\ Blank(core'[l])
             /\ core'[l].server = IF l \in S THEN core[l].server ELSE Down
  BY DEF AgentEnds, Fresh, Blank
<1>3. Rested'
  BY <1>1, <1>2, IdleType DEF Rested
<1>4. ASSUME NEW l \in Kind PROVE Told(l)'
  <2>1. l \in Spawned => core'[l].server = Down
    BY <1>2 DEF Spawned
  <2>2. l = "hysteria" => core'[l].server.users = {} /\ core'[l].server.vision = {}
    BY <1>2 DEF ToldInv, Told, Sound, Down
  <2>3. Sound(l, core[l])'
    BY <1>2, <2>1, <2>2 DEF Sound, Blank
  <2>. QED BY <1>1, <1>2, <2>3 DEF Told, Blank, Configured
<1>. QED BY <1>3, <1>4

\* The invariant is inductive.
LEMMA NextTold == ToldInv /\ [Next]_vars => ToldInv'
<1>. SUFFICES ASSUME ToldInv, [Next]_vars PROVE ToldInv'
  OBVIOUS
<1>1. TypeInv'
  BY NextType DEF ToldInv
<1>2. CASE UNCHANGED vars
  <2>1. Rested'
    BY <1>2 DEF vars, ToldInv, Rested, Blank
  <2>2. \A k \in Kind : Told(k)'
    BY <1>2, ToldStays DEF vars, ToldInv
  <2>. QED BY <1>1, <2>1, <2>2 DEF ToldInv
<1>3. CASE Next
  <2>1. Rested' /\ \A k \in Kind : Told(k)'
    BY <1>3, ReceiveTold, CallAdapterTold, AnswerTold, CoreDiesTold, AgentStartTold, AgentEndsTold
       DEF Next, AgentStop, AgentKilled
  <2>. QED BY <1>1, <2>1 DEF ToldInv
<1>. QED BY <1>2, <1>3

\* It implies both properties.
LEMMA ToldExplains == ToldInv => ServedExplained /\ HealthExplained
<1>. SUFFICES ASSUME ToldInv PROVE ServedExplained /\ HealthExplained
  OBVIOUS
<1>1. ServedExplained
  BY DEF ToldInv, Told, ServedExplained
<1>2. ASSUME up, NEW k \in install
      PROVE  /\ Healthy(k) /\ k \notin {"hysteria", "mieru"} =>
                    core[k].server # Down \/ "died" \in trouble[k]
             /\ Configured(k) /\ Serves(k, core[k]) /\ k \notin {"hysteria", "amneziawg"} =>
                    Healthy(k)
  <2>1. k \in Kind /\ Told(k) /\ core[k] \in Core
    BY InstallType DEF ToldInv, TypeInv, TypeOK
  <2>2. k \in Spawned \/ k = "mieru" \/ k = "amneziawg" \/ k = "hysteria"
    BY <2>1 DEF Kind, Spawned
  <2>3. k \in Spawned => (Healthy(k) <=> core[k].started /\ core[k].handle)
    BY DEF Healthy, Spawned
  <2>4. k = "amneziawg" => (Healthy(k) <=> core[k].started /\ core[k].server # Down)
    BY DEF Healthy
  <2>5. k = "mieru" => Healthy(k)
    BY <1>2, <2>1 DEF Healthy, Told
  <2>6. k \in Spawned /\ Configured(k) /\ Serves(k, core[k]) => core[k].started /\ core[k].handle
    <3>. SUFFICES ASSUME k \in Spawned, Configured(k), Serves(k, core[k])
                  PROVE  core[k].started /\ core[k].handle
      OBVIOUS
    <3>1. core[k].conf # 0
      BY DEF Configured, Spawned
    <3>2. core[k].server # Down
      BY <3>1 DEF Serves, Memory, Down
    <3>. QED BY <2>1, <3>2 DEF Told, Sound
  <2>. QED BY <2>1, <2>2, <2>3, <2>4, <2>5, <2>6 DEF Told
<1>. QED BY <1>1, <1>2 DEF HealthExplained

(* A server runs exactly what its adapter's memory says unless a call has
   answered an error, or it has died, since it last did: whatever the adapter,
   the order of the calls and the failures between them. *)
THEOREM ServedExplainedHolds == Spec => []ServedExplained
<1>1. Init => ToldInv
  BY InitType, InitTold DEF ToldInv
<1>. QED BY <1>1, NextTold, ToldExplains, PTL DEF Spec

(* What /healthz says of an adapter is true but for the exceptions named. *)
THEOREM HealthExplainedHolds == Spec => []HealthExplained
<1>1. Init => ToldInv
  BY InitType, InitTold DEF ToldInv
<1>. QED BY <1>1, NextTold, ToldExplains, PTL DEF Spec
=============================================================================

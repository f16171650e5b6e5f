------------------------------ MODULE Admission ------------------------------
(***************************************************************************)
(* The requests of the panel's API that first look and then act: the       *)
(* allocation of AmneziaWG peer addresses, the device limit of a           *)
(* subscription, the registration of the first administrator, the names of *)
(* API tokens, and the counter of failed logins.                           *)
(*                                                                         *)
(* The back end is one process, but every query of the database and every  *)
(* command to Redis is an await, and between two of them the other         *)
(* requests run: each action below is what a handler does between two      *)
(* awaits.  The five tables share nothing, so a behaviour is about one of  *)
(* them, the desk.                                                         *)
(***************************************************************************)
EXTENDS Integers, FiniteSets, FiniteSetsExt

CONSTANTS
  Reqs,           \* requests that may be under way side by side
  Keys,           \* the users, the devices of one user, the names
  Subnets,        \* the address ranges a profile may be given: sets of naturals
  Limits,         \* the numbers of devices a user may be held to
  NoLimit,        \* no number: hwidDeviceLimit is null
  Attempts,       \* maxAttempts of allocatePeer
  Threshold,      \* LOGIN_LOCKOUT_FAILURES
  MaxArrivals,    \* bound: requests that arrive
  MaxMeddling     \* bound: edits by an administrator meanwhile

ASSUME AdmissionAssumption ==
  /\ IsFiniteSet(Reqs) /\ Reqs # {} /\ IsFiniteSet(Keys)
  /\ Subnets # {} /\ \A s \in Subnets : s # {} /\ s \subseteq Nat \ {0}
  /\ Limits \subseteq Nat \ {0} /\ NoLimit \notin Nat
  /\ Attempts \in Nat \ {0} /\ Threshold \in Nat \ {0}
  /\ MaxArrivals \in Nat /\ MaxMeddling \in Nat

VARIABLES
  desk,        \* the table this behaviour is about
  req,         \* what each request is doing, for whom, and what it has seen
  peers,       \* the peer rows of one profile: the address of each user
  subnet,      \* the profile's range
  records,     \* the device, administrator or token rows: [id, key]
  limit,       \* hwidDeviceLimit of the user
  fails,       \* the failure counter of one user name and what its TTL is
  arrivals, meddling,  \* counters of the bounds
  excuses      \* history: what happened that excuses a broken promise

admissionVars ==
  <<desk, req, peers, subnet, records, limit, fails, arrivals, meddling, excuses>>

Desks == {"peer", "device", "admin", "token", "login"}
Unset == 0
Caps == Limits \cup {NoLimit}
Under(m, n) == m # NoLimit /\ (n = NoLimit \/ m < n)
Excuses == {"overlap", "lowered", "moved", "refused", "unarmed", "late"}
Ends == {"done", "denied", "failed"}
Steps == {"lookup", "scan", "count", "insert", "check", "verify", "arm", "lock"}

Ended(how) == [at |-> how, key |-> Unset, right |-> TRUE, seen |-> 0,
                  cap |-> NoLimit, tries |-> 0]
Stepped(r, step) == IF step \in Ends THEN Ended(step) ELSE [r EXCEPT !.at = step]
Seeing(r, n) == [r EXCEPT !.seen = n]
Go(q, step) == req' = [req EXCEPT ![q] = Stepped(@, step)]
See(q, step, n) == req' = [req EXCEPT ![q] = Stepped(Seeing(@, n), step)]
At(q, d, step) == desk = d /\ req[q].at = step
Excuse(S) == excuses' = excuses \cup S
Held == {peers[u] : u \in Keys} \ {Unset}
Has(key) == \E r \in records : r.key = key

(* Another request has decided and not yet inserted: a registration has   *)
(* decided once it has counted.                                           *)
Deciding(q) ==
  \E p \in Reqs \ {q} :
    \/ req[p].at = "insert"
    \/ desk = "admin" /\ req[p].at = "lookup"

FirstStep == CASE desk = "login" -> "check" [] desk = "admin" -> "count"
               [] OTHER -> "lookup"

(* The route reads the user's limit before it asks for a decision. *)
Arrive(q) ==
  /\ req[q].at \in Ends
  /\ arrivals < MaxArrivals /\ arrivals' = arrivals + 1
  /\ \E k \in Keys, right \in (IF desk = "login" THEN BOOLEAN ELSE {TRUE}) :
       req' = [req EXCEPT ![q] = [at |-> FirstStep, key |-> k, right |-> right,
                                  seen |-> arrivals', cap |-> limit, tries |-> 0]]
  /\ UNCHANGED <<desk, peers, subnet, records, limit, fails, meddling, excuses>>

------------------------------------------------------------------------------
(* AmneziaWG peers: one row per profile and user, one per profile and address. *)

(* The rows are keyed on the user: an existing one is the answer whatever  *)
(* range the profile has by now.                                           *)
LookForPeer(q) ==
  /\ At(q, "peer", "lookup")
  /\ Go(q, IF peers[req[q].key] # Unset THEN "done" ELSE "scan")
  /\ UNCHANGED <<desk, peers, subnet, records, limit, fails, arrivals, meddling, excuses>>

(* MUTANT: the scan does not look at what is taken. *)
FreeAddresses_Any == subnet
FreeAddresses == subnet \ Held

ScanSubnet(q) ==
  /\ At(q, "peer", "scan")
  /\ IF FreeAddresses = {} THEN Go(q, "denied")
                           ELSE See(q, "insert", Min(FreeAddresses))
  /\ UNCHANGED <<desk, peers, subnet, records, limit, fails, arrivals, meddling, excuses>>

Again(r) == [r EXCEPT !.at = "lookup", !.tries = @ + 1]
TryAgain(q) ==
  req' = [req EXCEPT ![q] = IF @.tries + 1 = Attempts THEN Ended("failed") ELSE Again(@)]

(* Both unique constraints end in the same empty catch as any other error  *)
(* of the database.                                                        *)
InsertPeer(q) ==
  /\ At(q, "peer", "insert")
  /\ \/ /\ peers[req[q].key] = Unset /\ req[q].seen \notin Held
        /\ peers' = [peers EXCEPT ![req[q].key] = req[q].seen]
        /\ Go(q, "done")
        /\ UNCHANGED excuses
     \/ /\ peers[req[q].key] # Unset \/ req[q].seen \in Held
        /\ TryAgain(q)
        /\ UNCHANGED <<peers, excuses>>
     \/ /\ TryAgain(q)
        /\ Excuse({"refused"})
        /\ UNCHANGED peers
  /\ UNCHANGED <<desk, subnet, records, limit, fails, arrivals, meddling>>

(* The profile is saved with another subnet; its peers keep their rows. *)
MoveSubnet ==
  /\ desk = "peer" /\ meddling < MaxMeddling /\ meddling' = meddling + 1
  /\ \E s \in Subnets \ {subnet} : subnet' = s
  /\ Excuse({"moved"})
  /\ UNCHANGED <<desk, req, peers, records, limit, fails, arrivals>>

------------------------------------------------------------------------------
(* Devices of a user (enforceHwid), under UNIQUE(user, hwid). *)

(* A known device is let in and only its last sight is written. *)
LookForDevice(q) ==
  /\ At(q, "device", "lookup")
  /\ Go(q, IF Has(req[q].key) THEN "done" ELSE "count")
  /\ UNCHANGED <<desk, peers, subnet, records, limit, fails, arrivals, meddling, excuses>>

(* MUTANT: one device more than the limit. *)
OverQuota_OffByOne(q) == req[q].cap # NoLimit /\ Cardinality(records) > req[q].cap
OverQuota(q) == req[q].cap # NoLimit /\ Cardinality(records) >= req[q].cap

CountDevices(q) ==
  /\ At(q, "device", "count")
  /\ Go(q, IF OverQuota(q) THEN "denied" ELSE "insert")
  /\ Excuse(IF ~OverQuota(q) /\ Deciding(q) THEN {"overlap"} ELSE {})
  /\ UNCHANGED <<desk, peers, subnet, records, limit, fails, arrivals, meddling>>

Row(q) == [id |-> req[q].seen, key |-> req[q].key]

(* The devices and the administrators have a unique key, the tokens have  *)
(* none: their records are told apart by id.                               *)
Insert(q) ==
  IF desk # "token" /\ Has(req[q].key)
  THEN Go(q, "failed") /\ UNCHANGED records
  ELSE Go(q, "done") /\ records' = records \cup {Row(q)}

InsertDevice(q) ==
  /\ At(q, "device", "insert")
  /\ Insert(q)
  /\ UNCHANGED <<desk, peers, subnet, limit, fails, arrivals, meddling, excuses>>

(* The administrator's side: a device or a token is deleted, ... *)
DeleteRow ==
  /\ desk \in {"device", "token"} /\ meddling < MaxMeddling /\ meddling' = meddling + 1
  /\ \E r \in records : records' = records \ {r}
  /\ UNCHANGED <<desk, req, peers, subnet, limit, fails, arrivals, excuses>>

(* ... or the user is given another limit, which looks at no device. *)
SetLimit ==
  /\ desk = "device" /\ meddling < MaxMeddling /\ meddling' = meddling + 1
  /\ \E n \in Caps \ {limit} :
       /\ limit' = n
       /\ Excuse(IF Under(n, limit) THEN {"lowered"} ELSE {})
  /\ UNCHANGED <<desk, req, peers, subnet, records, fails, arrivals>>

------------------------------------------------------------------------------
(* The first administrator: registration is open while there is none. *)

CountAdmins(q) ==
  /\ At(q, "admin", "count")
  /\ Go(q, IF records # {} THEN "denied" ELSE "lookup")
  /\ Excuse(IF records = {} /\ Deciding(q) THEN {"overlap"} ELSE {})
  /\ UNCHANGED <<desk, peers, subnet, records, limit, fails, arrivals, meddling>>

(* The password is hashed between this look and the insert. *)
LookForName(q) ==
  /\ desk \in {"admin", "token"} /\ req[q].at = "lookup"
  /\ Go(q, IF Has(req[q].key) THEN "denied" ELSE "insert")
  /\ Excuse(IF desk = "token" /\ ~Has(req[q].key) /\ Deciding(q) THEN {"overlap"} ELSE {})
  /\ UNCHANGED <<desk, peers, subnet, records, limit, fails, arrivals, meddling>>

InsertAdmin(q) ==
  /\ At(q, "admin", "insert")
  /\ Insert(q)
  /\ UNCHANGED <<desk, peers, subnet, limit, fails, arrivals, meddling, excuses>>

InsertToken(q) ==
  /\ At(q, "token", "insert")
  /\ Insert(q)
  /\ UNCHANGED <<desk, peers, subnet, limit, fails, arrivals, meddling, excuses>>

------------------------------------------------------------------------------
(* The failed logins of a user name: a Redis counter with a time to live. *)

CheckLocked(q) ==
  /\ At(q, "login", "check")
  /\ Go(q, IF fails.count >= Threshold THEN "denied" ELSE "verify")
  /\ UNCHANGED <<desk, peers, subnet, records, limit, fails, arrivals, meddling, excuses>>

NoFails == [count |-> 0, ttl |-> "none"]

(* DEL of the key, on a login with the right password. *)
ClearFailures(q) ==
  /\ At(q, "login", "verify") /\ req[q].right
  /\ fails' = NoFails
  /\ Go(q, "done")
  /\ UNCHANGED <<desk, peers, subnet, records, limit, arrivals, meddling, excuses>>

(* MUTANT: the long time to live is given past the threshold. *)
TripsLockout_Past(n) == n > Threshold
TripsLockout(n) == n >= Threshold

(* INCR: the first failure and every one from the threshold on go on to    *)
(* give the key a time to live, each with a command of its own.            *)
RecordFailure(q) ==
  /\ At(q, "login", "verify") /\ ~req[q].right
  /\ fails' = [fails EXCEPT !.count = @ + 1]
  /\ See(q, CASE fails.count = 0 -> "arm"
              [] fails.count # 0 /\ TripsLockout(fails.count + 1) -> "lock"
              [] OTHER -> "denied", fails.count + 1)
  /\ UNCHANGED <<desk, peers, subnet, records, limit, arrivals, meddling, excuses>>

(* EXPIRE of the key does nothing to a key that is gone. *)
Armed(ttl) == IF fails.count = 0 THEN fails ELSE [fails EXCEPT !.ttl = ttl]

(* The panel may also die, or Redis refuse, before either command. *)
Disarmed(q) == Go(q, "denied") /\ Excuse({"unarmed"}) /\ UNCHANGED fails

Arm(q) ==
  /\ At(q, "login", "arm")
  /\ \/ /\ fails' = Armed("window")
        /\ Go(q, IF TripsLockout(req[q].seen) THEN "lock" ELSE "denied")
        /\ Excuse(IF fails.ttl = "lockout" THEN {"late"} ELSE {})
     \/ Disarmed(q)
  /\ UNCHANGED <<desk, peers, subnet, records, limit, arrivals, meddling>>

Lock(q) ==
  /\ At(q, "login", "lock")
  /\ \/ fails' = Armed("lockout") /\ Go(q, "denied") /\ UNCHANGED excuses
     \/ Disarmed(q)
  /\ UNCHANGED <<desk, peers, subnet, records, limit, arrivals, meddling>>

Expire ==
  /\ fails.ttl # "none"
  /\ fails' = NoFails
  /\ UNCHANGED <<desk, req, peers, subnet, records, limit, arrivals, meddling, excuses>>

------------------------------------------------------------------------------
AdmissionInit ==
  /\ desk \in Desks
  /\ req = [q \in Reqs |-> Ended("done")]
  /\ peers = [u \in Keys |-> Unset]
  /\ subnet \in (IF desk = "peer" THEN Subnets ELSE {CHOOSE s \in Subnets : TRUE})
  /\ records = {}
  /\ limit \in (IF desk = "device" THEN Caps ELSE {NoLimit})
  /\ fails = NoFails
  /\ arrivals = 0 /\ meddling = 0
  /\ excuses = {}

AdmissionNext ==
  \/ \E q \in Reqs :
       \/ Arrive(q)
       \/ LookForPeer(q) \/ ScanSubnet(q) \/ InsertPeer(q)
       \/ LookForDevice(q) \/ CountDevices(q) \/ InsertDevice(q)
       \/ CountAdmins(q) \/ LookForName(q) \/ InsertAdmin(q) \/ InsertToken(q)
       \/ CheckLocked(q) \/ ClearFailures(q) \/ RecordFailure(q) \/ Arm(q) \/ Lock(q)
  \/ MoveSubnet \/ DeleteRow \/ SetLimit \/ Expire

AdmissionSpec == AdmissionInit /\ [][AdmissionNext]_admissionVars

------------------------------------------------------------------------------
AdmissionTypeOK ==
  /\ desk \in Desks
  /\ req \in [Reqs -> [at : Steps \cup Ends, key : Keys \cup {Unset}, right : BOOLEAN,
                       seen : Nat, cap : Caps, tries : 0..Attempts]]
  /\ peers \in [Keys -> {Unset} \cup UNION Subnets]
  /\ subnet \in Subnets
  /\ records \subseteq [id : 1..MaxArrivals, key : Keys]
  /\ limit \in Caps
  /\ fails \in [count : Nat, ttl : {"none", "window", "lockout"}]
  /\ arrivals \in 0..MaxArrivals /\ meddling \in 0..MaxMeddling
  /\ excuses \subseteq Excuses

(* Peer addresses (amneziawg.service.ts:53): two users of a profile never  *)
(* hold one address; an address outside the profile's range is there only  *)
(* because the range was edited after it was given; and an allocation      *)
(* gives up only after as many other users got an address meanwhile as it  *)
(* has attempts, or because the database refused one.                      *)
PeersExplained ==
  /\ \A u, v \in Keys : u # v /\ peers[u] = peers[v] => peers[u] = Unset
  /\ ~ Held \subseteq subnet => "moved" \in excuses
  /\ \A q \in Reqs : req[q].at = "failed" /\ desk = "peer" /\ "refused" \notin excuses =>
       Cardinality(Held) >= Attempts

Room == CASE desk = "device" -> limit [] desk = "admin" -> 1 [] OTHER -> NoLimit

(* Counted room (hwid.service.ts:66, auth.routes.ts:120, and the name of a *)
(* token, api-tokens.service.ts:57): there are more devices than the       *)
(* limit, a second first administrator, or two tokens of a name, only when *)
(* a request decided while another had decided and not yet inserted, or    *)
(* the limit was lowered; and never by more than the requests under way    *)
(* side by side.                                                           *)
RoomExplained ==
  /\ Room # NoLimit =>
       /\ Cardinality(records) > Room => excuses \cap {"overlap", "lowered"} # {}
       /\ "lowered" \notin excuses => Cardinality(records) < Room + Cardinality(Reqs)
  /\ \A r, s \in records : r.key = s.key /\ r # s => desk = "token" /\ "overlap" \in excuses

(* Failed logins (auth.service.ts:41, "set short TTL so honest typos don't *)
(* accumulate forever"): a counter without a time to live is about to be   *)
(* given one, or the command for it was lost; a counter at the threshold   *)
(* has the long time to live, is about to be given it, or the command of   *)
(* the first failure was lost or came last; and requests side by side      *)
(* raise it past the threshold by no more than their number.               *)
FailuresExplained ==
  /\ fails.count > 0 /\ fails.ttl = "none" =>
       "unarmed" \in excuses \/ \E q \in Reqs : req[q].at = "arm"
  /\ fails.count >= Threshold /\ fails.ttl = "window" =>
       \/ excuses \cap {"late", "unarmed"} # {}
       \/ \E q \in Reqs : req[q].at \in {"arm", "lock"} /\ req[q].seen >= Threshold
  /\ fails.count < Threshold + Cardinality(Reqs)
==============================================================================

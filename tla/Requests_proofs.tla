--------------------------- MODULE Requests_proofs ---------------------------
(***************************************************************************)
(* What holds of the requests the panel answers, for every number of       *)
(* requests, keys, subnets, limits, tabs and pages and every threshold: of *)
(* Admission, the types and the three promises about peer addresses,       *)
(* counted room and failed logins; of Session, when a tab gives up a token *)
(* that is good; of Overview, that no figure gives way to an older one; of *)
(* Probes, whose rows it shows.                                            *)
(***************************************************************************)
EXTENDS Admission, Session, Overview, Probes, FiniteSetTheorems, WellFoundedInduction, TLAPS

(* Any non-empty family of subsets of a finite set has a smallest member.  *)
(* Applied to the family of the subsets that lack a property, this is      *)
(* induction over a finite set.                                            *)
LEMMA SmallestSubset ==
  ASSUME NEW S, IsFiniteSet(S), NEW F, F \subseteq SUBSET S, F # {}
  PROVE  \E T \in F : \A U \in F : U \subseteq T => U = T
<1>1. F \subseteq FiniteSubsetsOf(S)
  BY FS_Subset DEF FiniteSubsetsOf
<1>2. \E T \in F : \A U \in F : ~ (<<U, T>> \in StrictSubsetOrdering(S))
  BY <1>1, FS_StrictSubsetOrderingWellFounded, WFMin
<1>3. QED
  BY <1>2 DEF StrictSubsetOrdering

(* A non-empty set of naturals has a least element. *)
LEMMA LeastNatural ==
  ASSUME NEW T, T \subseteq Nat, T # {}
  PROVE  \E x \in T : \A y \in T : x <= y
<1>1. PICK m \in T : m \in Nat
  OBVIOUS
<1> DEFINE R == 0..m
           F == {I \in SUBSET R : \E k \in T : k <= m /\ I = 0..k}
<1>2. IsFiniteSet(R)
  BY <1>1, FS_Interval
<1>3. 0..m \in F
  BY <1>1
<1>4. PICK I \in F : \A U \in F : U \subseteq I => U = I
  <2>1. F \subseteq SUBSET R
    OBVIOUS
  <2>2. F # {}
    BY <1>3
  <2>. HIDE DEF F, R
  <2>3. QED
    BY <1>2, <2>1, <2>2, SmallestSubset
<1>5. PICK n \in T : n <= m /\ I = 0..n
  OBVIOUS
<1>6. ASSUME NEW y \in T, y < n PROVE FALSE
  <2>1. 0..y \in F /\ 0..y \subseteq I
    BY <1>6, <1>5, <1>1
  <2>2. 0..y = 0..n
    BY <2>1, <1>4, <1>5
  <2>3. n \in 0..n /\ n \notin 0..y
    BY <1>6
  <2>. QED
    BY <2>2, <2>3
<1>. QED
  BY <1>5, <1>6

-----------------------------------------------------------------------------
Asking == [at : Steps \cup Ends, key : Keys \cup {Unset}, right : BOOLEAN,
            seen : Nat, cap : Caps, tries : 0..Attempts]

StepsOf(d) == CASE d = "peer" -> {"lookup", "scan", "insert"}
                [] d = "device" -> {"lookup", "count", "insert"}
                [] d = "admin" -> {"count", "lookup", "insert"}
                [] d = "token" -> {"lookup", "insert"}
                [] d = "login" -> {"check", "verify", "arm", "lock"}

Rationed == {"device", "admin", "token"}

(* What a request may look like at desk d. *)
Fits(d, r) ==
  /\ r \in Asking
  /\ r.at \notin Ends =>
       /\ r.at \in StepsOf(d) /\ r.key \in Keys /\ r.tries < Attempts
       /\ d \in Rationed => r.seen \in 1..MaxArrivals
       /\ d = "peer" /\ r.at = "insert" => r.seen \in UNION Subnets

Typed ==
  /\ AdmissionTypeOK
  /\ \A q \in Reqs : Fits(desk, req[q])

(* The rows of the other desks stay empty. *)
Alone ==
  /\ desk # "peer" => Held = {}
  /\ desk \in {"peer", "login"} => records = {}
  /\ desk # "login" => fails = NoFails

-----------------------------------------------------------------------------
\* The addresses that are held.
Taken(p) == {p[u] : u \in Keys} \ {Unset}

\* No two users of a profile hold one address.
Apart == \A u, v \in Keys : u # v /\ peers[u] = peers[v] => peers[u] = Unset

\* What is held, and what is about to be, was free in the range of then.
InRange ==
  "moved" \notin excuses =>
    /\ Held \subseteq subnet
    /\ desk = "peer" => \A q \in Reqs : req[q].at = "insert" => req[q].seen \in subnet

(* A request has tried no more often than addresses are held, and not even *)
(* so often when what it is about to insert will not be accepted.          *)
Patient(p, r) ==
  /\ r.at = "failed" => Cardinality(Taken(p)) >= Attempts
  /\ r.at \in {"lookup", "scan", "insert"} => Cardinality(Taken(p)) >= r.tries
  /\ \/ r.at \in {"scan", "insert"} /\ p[r.key] # Unset
     \/ r.at = "insert" /\ r.seen \in Taken(p)
     => Cardinality(Taken(p)) >= r.tries + 1

PeersInv ==
  /\ Apart /\ InRange
  /\ desk = "peer" /\ "refused" \notin excuses => \A q \in Reqs : Patient(peers, req[q])

-----------------------------------------------------------------------------
\* The requests that have decided and not yet inserted.
Deciders(d, rs) ==
  {q \in Reqs : rs[q].at = "insert" \/ (d = "admin" /\ rs[q].at = "lookup")}

\* The rows of this desk are counted against a number.
Limited == desk \in {"device", "admin"} /\ Room # NoLimit
\* No limit was lowered so far; no request has decided beside another.
Fresh == "lowered" \notin excuses
OneByOne == "overlap" \notin excuses

(* With none beside it a decision is for a free place; otherwise rows and    *)
(* decisions together exceed the room by fewer than there are requests.      *)
RoomInv ==
  /\ desk \in Rationed /\ OneByOne =>
       \A p, q \in Deciders(desk, req) : p = q
  /\ Fresh => \A q \in Reqs : req[q].at \notin Ends => ~ Under(limit, req[q].cap)
  /\ Limited /\ Fresh =>
       Cardinality(records) + Cardinality(Deciders(desk, req)) < Room + Cardinality(Reqs)
  /\ Limited /\ Fresh /\ OneByOne =>
       /\ Cardinality(records) <= Room
       /\ Deciders(desk, req) # {} => Cardinality(records) < Room
  /\ desk = "token" /\ OneByOne => \A q \in Deciders(desk, req) : ~ Has(req[q].key)
  /\ \A r, s \in records : r.key = s.key /\ r # s => desk = "token" /\ ~ OneByOne

-----------------------------------------------------------------------------
Verifying(rs) == {q \in Reqs : rs[q].at = "verify"}

(* Those that verify were let in under the threshold, and may all fail.      *)
FailsInv ==
  desk = "login" =>
    /\ fails.count > 0 /\ fails.ttl = "none" =>
         "unarmed" \in excuses \/ \E q \in Reqs : req[q].at = "arm"
    /\ fails.count >= Threshold /\ fails.ttl # "lockout" =>
         \/ excuses \cap {"late", "unarmed"} # {}
         \/ \E q \in Reqs : req[q].at \in {"arm", "lock"} /\ req[q].seen >= Threshold
    /\ fails.count + Cardinality(Verifying(req)) < Threshold + Cardinality(Reqs)

-----------------------------------------------------------------------------
(* The order of the limits: at least one that is at least another.           *)
LEMMA NotUnder ==
  ASSUME NEW m \in Caps, NEW n \in Caps, NEW c \in Caps,
         ~ Under(m, n), ~ Under(n, c)
  PROVE  ~ Under(m, c)
<1>1. CASE m = NoLimit
  BY <1>1 DEF Under
<1>2. CASE m \in Nat /\ n \in Nat /\ c \in Nat
  BY <1>2, AdmissionAssumption DEF Under
<1>3. CASE m \in Nat /\ (n = NoLimit \/ c = NoLimit)
  BY <1>3, AdmissionAssumption DEF Under
<1>. QED BY <1>1, <1>2, <1>3, AdmissionAssumption DEF Caps

(* The shapes of a request's record. *)
LEMMA EndedFits ==
  ASSUME NEW d, NEW how \in Ends
  PROVE  Fits(d, Ended(how)) /\ Ended(how).at = how
<1>1. Ended(how) \in Asking
  BY AdmissionAssumption DEF Ended, Asking, Unset, Caps
<1>. QED
  BY <1>1 DEF Fits, Ended

(* A request that steps on keeps its key, quota and tries, or has ended. *)
LEMMA SteppedFits ==
  ASSUME NEW d \in Desks, NEW r, Fits(d, r), r.at \notin Ends,
         NEW step \in Ends \cup StepsOf(d),
         d = "peer" /\ step = "insert" => r.seen \in UNION Subnets
  PROVE  /\ Fits(d, Stepped(r, step)) /\ Stepped(r, step).at = step
         /\ step \notin Ends =>
              Stepped(r, step) = [r EXCEPT !.at = step]
<1>1. CASE step \in Ends
  BY <1>1, EndedFits DEF Stepped
<1>2. CASE step \notin Ends
  <2>1. step \in Steps /\ step \in StepsOf(d)
    BY <1>2 DEF StepsOf, Steps, Desks
  <2>2. Stepped(r, step) = [r EXCEPT !.at = step]
    BY <1>2 DEF Stepped
  <2>3. [r EXCEPT !.at = step] \in Asking
    BY <2>1 DEF Fits, Asking
  <2>. QED
    BY <2>1, <2>2, <2>3 DEF Fits, Asking
<1>. QED
  BY <1>1, <1>2

(* A request may keep any number it has read, but for the address it is about to insert. *)
LEMMA SeeingFits ==
  ASSUME NEW d, NEW r, Fits(d, r), NEW n \in Nat, d \notin Rationed,
         ~ (d = "peer" /\ r.at = "insert")
  PROVE  Fits(d, Seeing(r, n)) /\ Seeing(r, n) = [r EXCEPT !.seen = n] /\ Seeing(r, n).seen = n
BY DEF Fits, Seeing, Asking

(* A request that starts over has tries left. *)
LEMMA AgainFits ==
  ASSUME NEW r, Fits("peer", r), r.at \notin Ends, r.tries + 1 # Attempts
  PROVE  Fits("peer", Again(r)) /\ Again(r) = [r EXCEPT !.at = "lookup", !.tries = r.tries + 1]
<1>1. r \in Asking /\ r.key \in Keys /\ r.tries < Attempts
  BY DEF Fits
<1>2. r.tries + 1 \in 0..Attempts /\ r.tries + 1 < Attempts
  BY <1>1, AdmissionAssumption DEF Asking
<1>3. [r EXCEPT !.at = "lookup", !.tries = r.tries + 1] \in Asking
  BY <1>1, <1>2 DEF Asking, Steps
<1>. QED
  BY <1>1, <1>2, <1>3 DEF Fits, Again, StepsOf, Asking, Rationed

-----------------------------------------------------------------------------
(* The least free address is one of the range that nobody holds. *)
LEMMA MinFree ==
  ASSUME Typed, FreeAddresses # {}
  PROVE  Min(FreeAddresses) \in subnet /\ Min(FreeAddresses) \notin Held /\ Min(FreeAddresses) \in Nat
<1>1. subnet \subseteq Nat
  BY AdmissionAssumption DEF Typed, AdmissionTypeOK
<1>2. FreeAddresses \subseteq Nat
  BY <1>1 DEF FreeAddresses
<1>3. \E x \in FreeAddresses : \A y \in FreeAddresses : x <= y
  BY <1>2, LeastNatural
<1>4. Min(FreeAddresses) \in FreeAddresses
  BY <1>3 DEF Min
<1>. QED
  BY <1>1, <1>4 DEF FreeAddresses

\* The requests after a step.
Served == req' \in [Reqs -> Asking] /\ \A p \in Reqs : Fits(desk', req'[p])

(* One request goes on, the others stay. *)
LEMMA PutServed ==
  ASSUME Typed, NEW q \in Reqs, NEW r, Fits(desk, r), req' = [req EXCEPT ![q] = r], desk' = desk
  PROVE  Served
<1>1. r \in Asking /\ req \in [Reqs -> Asking]
  BY DEF Fits, Typed, AdmissionTypeOK, Asking
<1>2. \A p \in Reqs : req'[p] = IF p = q THEN r ELSE req[p]
  BY <1>1
<1>. QED
  BY <1>1, <1>2 DEF Typed, Served

(* The same for a request that goes on, *)
LEMMA GoServed ==
  ASSUME Typed, NEW q \in Reqs, req[q].at \notin Ends, NEW step \in Ends \cup StepsOf(desk),
         desk = "peer" /\ step = "insert" => req[q].seen \in UNION Subnets,
         Go(q, step), desk' = desk
  PROVE  Served
<1>1. Fits(desk, req[q]) /\ desk \in Desks
  BY DEF Typed, AdmissionTypeOK
<1>2. Fits(desk, Stepped(req[q], step))
  BY <1>1, SteppedFits
<1>3. req' = [req EXCEPT ![q] = Stepped(req[q], step)]
  BY DEF Go
<1>. QED
  BY <1>2, <1>3, PutServed

(* for one that keeps what it has read, *)
LEMMA SeeServed ==
  ASSUME Typed, NEW q \in Reqs, req[q].at \notin Ends, NEW step \in Ends \cup StepsOf(desk),
         NEW n \in Nat, desk \notin Rationed, ~ (desk = "peer" /\ req[q].at = "insert"),
         desk = "peer" /\ step = "insert" => n \in UNION Subnets,
         See(q, step, n), desk' = desk
  PROVE  Served
<1>1. Fits(desk, req[q]) /\ desk \in Desks
  BY DEF Typed, AdmissionTypeOK
<1>2. /\ Fits(desk, Seeing(req[q], n)) /\ Seeing(req[q], n).seen = n
      /\ Seeing(req[q], n) = [req[q] EXCEPT !.seen = n]
  BY <1>1, SeeingFits
<1>3. Seeing(req[q], n).at = req[q].at
  BY <1>1, <1>2 DEF Fits, Asking
<1>4. Fits(desk, Stepped(Seeing(req[q], n), step))
  BY <1>1, <1>2, <1>3, SteppedFits
<1>5. req' = [req EXCEPT ![q] = Stepped(Seeing(req[q], n), step)]
  BY DEF See
<1>. QED
  BY <1>4, <1>5, PutServed

(* for one whose address was not accepted, *)
LEMMA TryAgainServed ==
  ASSUME Typed, NEW q \in Reqs, req[q].at \notin Ends, desk = "peer", TryAgain(q), desk' = desk
  PROVE  Served
<1>1. Fits("peer", req[q])
  BY DEF Typed
<1>2. CASE req[q].tries + 1 = Attempts
  <2>1. req' = [req EXCEPT ![q] = Ended("failed")]
    BY <1>2 DEF TryAgain
  <2>2. Fits(desk, Ended("failed"))
    BY EndedFits DEF Ends
  <2>. QED
    BY <2>1, <2>2, PutServed
<1>3. CASE req[q].tries + 1 # Attempts
  <2>1. req' = [req EXCEPT ![q] = Again(req[q])]
    BY <1>3 DEF TryAgain
  <2>2. Fits(desk, Again(req[q]))
    BY <1>1, <1>3, AgainFits
  <2>. QED
    BY <2>1, <2>2, PutServed
<1>. QED
  BY <1>2, <1>3

(* and for a new one. *)
LEMMA ArriveServed ==
  ASSUME Typed, NEW q \in Reqs, Arrive(q)
  PROVE  Served
<1>1. PICK k \in Keys, right \in BOOLEAN :
        req' = [req EXCEPT ![q] = [at |-> FirstStep, key |-> k, right |-> right,
                                   seen |-> arrivals + 1, cap |-> limit, tries |-> 0]]
  BY DEF Arrive
<1> DEFINE r == [at |-> FirstStep, key |-> k, right |-> right,
                 seen |-> arrivals + 1, cap |-> limit, tries |-> 0]
<1>2. arrivals + 1 \in 1..MaxArrivals /\ limit \in Caps /\ desk \in Desks /\ 0 < Attempts /\ 0 \in 0..Attempts
  BY AdmissionAssumption DEF Typed, AdmissionTypeOK, Arrive
<1>3. FirstStep \in Steps /\ FirstStep \in StepsOf(desk) /\ FirstStep # "insert"
  BY <1>2 DEF FirstStep, Steps, StepsOf, Desks
<1>4. r \in Asking
  BY <1>2, <1>3 DEF Asking
<1>5. Fits(desk, r)
  BY <1>2, <1>3, <1>4 DEF Fits
<1>. QED
  BY <1>1, <1>5, PutServed DEF Arrive

-----------------------------------------------------------------------------
\* The rows and counters after a step.
RowsFit ==
  /\ desk' = desk
  /\ peers' \in [Keys -> {Unset} \cup UNION Subnets]
  /\ subnet' \in Subnets
  /\ records' \subseteq [id : 1..MaxArrivals, key : Keys]
  /\ limit' \in Caps
  /\ fails' \in [count : Nat, ttl : {"none", "window", "lockout"}]
  /\ arrivals' \in 0..MaxArrivals /\ meddling' \in 0..MaxMeddling
  /\ excuses' \subseteq Excuses

(* Typed requests and typed rows are a typed state. *)
LEMMA TypedAgain ==
  ASSUME Typed, Served, RowsFit
  PROVE  Typed'
<1>1. req' \in [Reqs -> [at : Steps \cup Ends, key : Keys \cup {Unset}, right : BOOLEAN,
                         seen : Nat, cap : Caps, tries : 0..Attempts]]
  BY DEF Served, Asking
<1>2. \A p \in Reqs : Fits(desk', req'[p])
  BY DEF Served
<1>. QED
  BY <1>1, <1>2 DEF Typed, AdmissionTypeOK, RowsFit

(* The words an Excuse adds are words. *)
LEMMA ExcuseTyped ==
  ASSUME Typed, NEW S, Excuse(S), S \subseteq Excuses
  PROVE  excuses' \subseteq Excuses
BY DEF Typed, AdmissionTypeOK, Excuse

(* A counted row is made of a request's number and key. *)
LEMMA InsertTyped ==
  ASSUME Typed, NEW q \in Reqs, desk \in Rationed, req[q].at = "insert", Insert(q),
         UNCHANGED <<desk, peers, subnet, limit, fails, arrivals, meddling, excuses>>
  PROVE  Typed'
<1>1. "failed" \in Ends /\ "done" \in Ends /\ "insert" \notin Ends /\ desk # "peer"
  BY DEF Ends, Rationed
<1>2. Served
  <2>1. CASE Go(q, "failed")
    BY <1>1, <2>1, GoServed
  <2>2. CASE Go(q, "done")
    BY <1>1, <2>2, GoServed
  <2>. QED BY <2>1, <2>2 DEF Insert
<1>3. Row(q) \in [id : 1..MaxArrivals, key : Keys]
  BY <1>1 DEF Typed, Fits, Row
<1>4. RowsFit
  BY <1>3 DEF Typed, AdmissionTypeOK, RowsFit, Insert
<1>. QED
  BY <1>2, <1>4, TypedAgain

(* Every step of the panel keeps the types. *)
LEMMA TypedStep ==
  ASSUME Typed, [AdmissionNext]_admissionVars
  PROVE  Typed'
<1>1. CASE UNCHANGED admissionVars
  BY <1>1 DEF admissionVars, Typed, AdmissionTypeOK
<1>. USE DEF Ends, Rationed
<1>2. ASSUME NEW q \in Reqs, Arrive(q) PROVE Typed'
  <2>1. RowsFit
    BY <1>2, AdmissionAssumption DEF Typed, AdmissionTypeOK, RowsFit, Arrive
  <2>. QED BY <1>2, <2>1, ArriveServed, TypedAgain
<1>3. ASSUME NEW q \in Reqs, LookForPeer(q) PROVE Typed'
  <2>1. RowsFit
    BY <1>3 DEF Typed, AdmissionTypeOK, RowsFit, LookForPeer, At
  <2>2. Served
    <3>1. CASE Go(q, "done")
      BY <1>3, <3>1, GoServed DEF LookForPeer, At
    <3>2. CASE Go(q, "scan")
      BY <1>3, <3>2, GoServed DEF LookForPeer, At, StepsOf
    <3>. QED BY <1>3, <3>1, <3>2 DEF LookForPeer
  <2>. QED BY <2>1, <2>2, TypedAgain
<1>4. ASSUME NEW q \in Reqs, ScanSubnet(q) PROVE Typed'
  <2>1. RowsFit
    BY <1>4 DEF Typed, AdmissionTypeOK, RowsFit, ScanSubnet, At
  <2>2. Served
    <3>1. CASE FreeAddresses = {}
      <4>1. Go(q, "denied")
        BY <1>4, <3>1 DEF ScanSubnet
      <4>. QED BY <1>4, <4>1, GoServed DEF ScanSubnet, At
    <3>2. CASE FreeAddresses # {}
      <4>1. See(q, "insert", Min(FreeAddresses))
        BY <1>4, <3>2 DEF ScanSubnet
      <4>2. Min(FreeAddresses) \in Nat /\ Min(FreeAddresses) \in UNION Subnets
        BY <3>2, MinFree DEF Typed, AdmissionTypeOK
      <4>3. "insert" \in StepsOf(desk) /\ desk = "peer" /\ req[q].at = "scan"
        BY <1>4 DEF ScanSubnet, At, StepsOf
      <4>4. desk' = desk
        BY <1>4 DEF ScanSubnet
      <4>. QED BY <4>1, <4>2, <4>3, <4>4, SeeServed
    <3>. QED BY <3>1, <3>2
  <2>. QED BY <2>1, <2>2, TypedAgain
<1>5. ASSUME NEW q \in Reqs, InsertPeer(q) PROVE Typed'
  <2>1. /\ desk = "peer" /\ req[q].at = "insert" /\ desk' = desk
        /\ req[q].key \in Keys /\ req[q].seen \in UNION Subnets
    BY <1>5 DEF InsertPeer, At, Typed, Fits
  <2>2. RowsFit
    BY <1>5, <2>1 DEF Typed, AdmissionTypeOK, RowsFit, InsertPeer, Excuse, Excuses
  <2>3. CASE Go(q, "done")
    BY <2>1, <2>2, <2>3, GoServed, TypedAgain
  <2>4. CASE TryAgain(q)
    BY <2>1, <2>2, <2>4, TryAgainServed, TypedAgain
  <2>. QED BY <1>5, <2>3, <2>4 DEF InsertPeer
<1>6. ASSUME NEW q \in Reqs, LookForDevice(q) PROVE Typed'
  <2>1. RowsFit
    BY <1>6 DEF Typed, AdmissionTypeOK, RowsFit, LookForDevice, At
  <2>2. Served
    <3>1. CASE Go(q, "done")
      BY <1>6, <3>1, GoServed DEF LookForDevice, At
    <3>2. CASE Go(q, "count")
      BY <1>6, <3>2, GoServed DEF LookForDevice, At, StepsOf
    <3>. QED BY <1>6, <3>1, <3>2 DEF LookForDevice
  <2>. QED BY <2>1, <2>2, TypedAgain
<1>7. ASSUME NEW q \in Reqs, CountDevices(q) PROVE Typed'
  <2>1. RowsFit
    BY <1>7, ExcuseTyped DEF Typed, AdmissionTypeOK, RowsFit, CountDevices, At, Excuse, Excuses
  <2>2. Served
    <3>1. CASE Go(q, "denied")
      BY <1>7, <3>1, GoServed DEF CountDevices, At
    <3>2. CASE Go(q, "insert")
      BY <1>7, <3>2, GoServed DEF CountDevices, At, StepsOf
    <3>. QED BY <1>7, <3>1, <3>2 DEF CountDevices
  <2>. QED BY <2>1, <2>2, TypedAgain
<1>8. ASSUME NEW q \in Reqs, InsertDevice(q) \/ InsertAdmin(q) \/ InsertToken(q) PROVE Typed'
  BY <1>8, InsertTyped DEF InsertDevice, InsertAdmin, InsertToken, At
<1>9. ASSUME NEW q \in Reqs, CountAdmins(q) PROVE Typed'
  <2>1. RowsFit
    BY <1>9 DEF Typed, AdmissionTypeOK, RowsFit, CountAdmins, At, Excuse, Excuses
  <2>2. Served
    <3>1. CASE Go(q, "denied")
      BY <1>9, <3>1, GoServed DEF CountAdmins, At
    <3>2. CASE Go(q, "lookup")
      BY <1>9, <3>2, GoServed DEF CountAdmins, At, StepsOf
    <3>. QED BY <1>9, <3>1, <3>2 DEF CountAdmins
  <2>. QED BY <2>1, <2>2, TypedAgain
<1>10. ASSUME NEW q \in Reqs, LookForName(q) PROVE Typed'
  <2>1. RowsFit
    BY <1>10 DEF Typed, AdmissionTypeOK, RowsFit, LookForName, Excuse, Excuses
  <2>2. Served
    <3>1. CASE Go(q, "denied")
      BY <1>10, <3>1, GoServed DEF LookForName
    <3>2. CASE Go(q, "insert")
      BY <1>10, <3>2, GoServed DEF LookForName, StepsOf
    <3>. QED BY <1>10, <3>1, <3>2 DEF LookForName
  <2>. QED BY <2>1, <2>2, TypedAgain
<1>11. ASSUME NEW q \in Reqs, CheckLocked(q) PROVE Typed'
  <2>1. RowsFit
    BY <1>11 DEF Typed, AdmissionTypeOK, RowsFit, CheckLocked, At
  <2>2. Served
    <3>1. CASE Go(q, "denied")
      BY <1>11, <3>1, GoServed DEF CheckLocked, At
    <3>2. CASE Go(q, "verify")
      BY <1>11, <3>2, GoServed DEF CheckLocked, At, StepsOf
    <3>. QED BY <1>11, <3>1, <3>2 DEF CheckLocked
  <2>. QED BY <2>1, <2>2, TypedAgain
<1>12. ASSUME NEW q \in Reqs, ClearFailures(q) PROVE Typed'
  <2>1. RowsFit
    BY <1>12 DEF Typed, AdmissionTypeOK, RowsFit, ClearFailures, At, NoFails
  <2>2. Served
    BY <1>12, GoServed DEF ClearFailures, At
  <2>. QED BY <2>1, <2>2, TypedAgain
<1>13. ASSUME NEW q \in Reqs, RecordFailure(q) PROVE Typed'
  <2>1. RowsFit
    BY <1>13 DEF Typed, AdmissionTypeOK, RowsFit, RecordFailure, At
  <2>2. PICK step \in {"arm", "lock", "denied"} : See(q, step, fails.count + 1)
    BY <1>13 DEF RecordFailure
  <2>3. /\ fails.count + 1 \in Nat /\ desk = "login" /\ req[q].at = "verify"
        /\ step \in Ends \cup StepsOf(desk)
    BY <1>13 DEF RecordFailure, At, Typed, AdmissionTypeOK, StepsOf
  <2>4. Served
    BY <1>13, <2>2, <2>3, SeeServed DEF RecordFailure
  <2>. QED BY <2>1, <2>4, TypedAgain
<1>14. ASSUME NEW q \in Reqs, Arm(q) \/ Lock(q) PROVE Typed'
  <2>1. RowsFit
    BY <1>14 DEF Typed, AdmissionTypeOK, RowsFit, Arm, Lock, Disarmed, Armed, At, Excuse, Excuses
  <2>2. Served
    <3>1. desk = "login" /\ req[q].at \in {"arm", "lock"} /\ desk' = desk
      BY <1>14 DEF Arm, Lock, At
    <3>2. CASE Go(q, "denied")
      BY <3>1, <3>2, GoServed
    <3>3. CASE Go(q, "lock")
      BY <3>1, <3>3, GoServed DEF StepsOf
    <3>. QED BY <1>14, <3>2, <3>3 DEF Arm, Lock, Disarmed
  <2>. QED BY <2>1, <2>2, TypedAgain
<1>15. CASE MoveSubnet \/ DeleteRow \/ SetLimit \/ Expire
  <2>1. RowsFit
    <3>1. CASE MoveSubnet
      BY <3>1, AdmissionAssumption DEF Typed, AdmissionTypeOK, RowsFit, MoveSubnet, Excuse, Excuses
    <3>2. CASE DeleteRow
      BY <3>2, AdmissionAssumption DEF Typed, AdmissionTypeOK, RowsFit, DeleteRow
    <3>3. CASE SetLimit
      BY <3>3, AdmissionAssumption DEF Typed, AdmissionTypeOK, RowsFit, SetLimit, Excuse, Excuses
    <3>4. CASE Expire
      BY <3>4 DEF Typed, AdmissionTypeOK, RowsFit, Expire, NoFails
    <3>. QED BY <1>15, <3>1, <3>2, <3>3, <3>4
  <2>2. Served
    BY <1>15 DEF Served, Typed, AdmissionTypeOK, Asking, MoveSubnet, DeleteRow, SetLimit, Expire
  <2>. QED BY <2>1, <2>2, TypedAgain
<1>. QED
  BY <1>1, <1>2, <1>3, <1>4, <1>5, <1>6, <1>7, <1>8, <1>9, <1>10, <1>11, <1>12, <1>13, <1>14, <1>15
  DEF AdmissionNext

(* The types at the start. *)
LEMMA TypedInit ==
  ASSUME AdmissionInit
  PROVE  Typed
<1>1. \A d : Fits(d, Ended("done"))
  BY EndedFits DEF Ends
<1>2. Ended("done") \in Asking
  BY <1>1 DEF Fits
<1>3. subnet \in Subnets
  BY AdmissionAssumption DEF AdmissionInit
<1>. QED
  BY <1>1, <1>2, <1>3, AdmissionAssumption
  DEF AdmissionInit, Typed, AdmissionTypeOK, Asking, Caps, NoFails

(* The rows of a state are those of one table. *)
THEOREM TypeCorrect == AdmissionSpec => []AdmissionTypeOK
<1>1. AdmissionInit => Typed
  BY TypedInit
<1>2. Typed /\ [AdmissionNext]_admissionVars => Typed'
  BY TypedStep
<1>3. Typed => AdmissionTypeOK
  BY DEF Typed
<1>. QED
  BY <1>1, <1>2, <1>3, PTL DEF AdmissionSpec

-----------------------------------------------------------------------------
(* Each action writes the rows of its own desk. *)
LEMMA AloneStep ==
  ASSUME Typed, Alone, [AdmissionNext]_admissionVars
  PROVE  Alone'
<1>1. CASE UNCHANGED <<desk, peers, records, fails>>
  BY <1>1 DEF Alone, Held
<1>2. ASSUME NEW q \in Reqs, InsertPeer(q) PROVE Alone'
  BY <1>2 DEF Alone, InsertPeer, At, Held, NoFails
<1>3. CASE DeleteRow \/ \E q \in Reqs : InsertDevice(q) \/ InsertAdmin(q) \/ InsertToken(q)
  BY <1>3 DEF Alone, DeleteRow, InsertDevice, InsertAdmin, InsertToken, At, Held, NoFails
<1>4. CASE Expire \/ \E q \in Reqs : ClearFailures(q) \/ RecordFailure(q) \/ Arm(q) \/ Lock(q)
  <2>1. desk' = desk /\ UNCHANGED <<peers, records>> /\ (desk = "login" \/ fails' = NoFails)
    BY <1>4 DEF Expire, ClearFailures, RecordFailure, Arm, Lock, At
  <2>. QED
    BY <2>1 DEF Alone, Held
<1>5. CASE UNCHANGED admissionVars
  BY <1>1, <1>5 DEF admissionVars
<1>6. ASSUME NEW q \in Reqs,
        \/ Arrive(q) \/ LookForPeer(q) \/ ScanSubnet(q) \/ LookForDevice(q) \/ CountDevices(q)
        \/ CountAdmins(q) \/ LookForName(q) \/ CheckLocked(q)
      PROVE Alone'
  BY <1>1, <1>6 DEF Arrive, LookForPeer, ScanSubnet, LookForDevice, CountDevices,
     CountAdmins, LookForName, CheckLocked
<1>7. CASE MoveSubnet \/ SetLimit
  BY <1>1, <1>7 DEF MoveSubnet, SetLimit
<1>. QED
  BY <1>2, <1>3, <1>4, <1>5, <1>6, <1>7 DEF AdmissionNext

-----------------------------------------------------------------------------
(* There are no more addresses held than users. *)
LEMMA TakenFinite ==
  ASSUME NEW p, p \in [Keys -> {Unset} \cup UNION Subnets]
  PROVE  IsFiniteSet(Taken(p)) /\ Cardinality(Taken(p)) \in Nat
<1> DEFINE T == {p[u] : u \in Keys}
<1>1. p \in [Keys -> T] /\ \A t \in T : \E u \in Keys : p[u] = t
  OBVIOUS
<1>2. p \in Surjection(Keys, T)
  BY <1>1 DEF Surjection
<1>3. IsFiniteSet(T)
  BY <1>2, FS_Surjection, AdmissionAssumption
<1>4. Taken(p) \in SUBSET T
  BY DEF Taken
<1>. QED
  BY <1>3, <1>4, FS_Subset, FS_CardinalityType

(* Who is given a free address adds it to those held. *)
LEMMA TakenGrows ==
  ASSUME NEW p, p \in [Keys -> {Unset} \cup UNION Subnets], NEW k \in Keys, p[k] = Unset,
         NEW a, a # Unset, a \notin Taken(p), NEW r, r = [p EXCEPT ![k] = a]
  PROVE  Taken(r) = Taken(p) \cup {a} /\ Cardinality(Taken(r)) = Cardinality(Taken(p)) + 1
<1>1. \A u \in Keys : r[u] = IF u = k THEN a ELSE p[u]
  OBVIOUS
<1>2. Taken(r) = Taken(p) \cup {a}
  BY <1>1 DEF Taken
<1>. QED
  BY <1>2, TakenFinite, FS_AddElement

(* One address more held is one attempt more that was worth it. *)
LEMMA PatientLonger ==
  ASSUME NEW p, NEW s, NEW r \in Asking, Patient(p, r),
         Cardinality(Taken(p)) \in Nat, Cardinality(Taken(s)) = Cardinality(Taken(p)) + 1
  PROVE  Patient(s, r)
<1>1. r.tries \in Nat
  BY DEF Asking
<1>. QED
  BY <1>1, AdmissionAssumption DEF Patient

(* An answered request has nothing to explain. *)
LEMMA PatientEnded ==
  ASSUME NEW p, NEW how \in {"done", "denied"}
  PROVE  Patient(p, Ended(how))
BY DEF Patient, Ended

(* A request goes on to r; the rows stay. *)
LEMMA PeersGo ==
  ASSUME Typed, PeersInv, NEW q \in Reqs, NEW r, req' = [req EXCEPT ![q] = r],
         UNCHANGED <<desk, peers, subnet>>, excuses \subseteq excuses',
         desk = "peer" =>
           /\ "refused" \notin excuses' => Patient(peers, r)
           /\ "moved" \notin excuses' /\ r.at = "insert" => r.seen \in subnet
  PROVE  PeersInv'
<1>1. \A p \in Reqs : req'[p] = IF p = q THEN r ELSE req[p]
  BY DEF Typed, AdmissionTypeOK
<1>2. Apart'
  BY DEF PeersInv, Apart
<1>3. InRange'
  BY <1>1 DEF PeersInv, InRange, Held
<1>4. desk' = "peer" /\ "refused" \notin excuses' => \A p \in Reqs : Patient(peers', req'[p])
  BY <1>1 DEF PeersInv
<1>. QED
  BY <1>2, <1>3, <1>4 DEF PeersInv

(* The other desks. *)
LEMMA PeersElsewhere ==
  ASSUME PeersInv, desk # "peer", UNCHANGED <<desk, peers, subnet>>, excuses \subseteq excuses'
  PROVE  PeersInv'
BY DEF PeersInv, Apart, InRange, Held

(* Every step keeps what the peers' promise rests on: only InsertPeer writes an  *)
(* address, and its two constraints are what keeps it apart from the others.      *)
LEMMA PeersStep ==
  ASSUME Typed, PeersInv, [AdmissionNext]_admissionVars
  PROVE  PeersInv'
<1>1. CASE UNCHANGED admissionVars
  BY <1>1 DEF admissionVars, PeersInv, Apart, InRange, Held
<1>2. ASSUME NEW q \in Reqs, Arrive(q) PROVE PeersInv'
  <2>1. PICK k \in Keys, right \in BOOLEAN :
          req' = [req EXCEPT ![q] = [at |-> FirstStep, key |-> k, right |-> right,
                                     seen |-> arrivals + 1, cap |-> limit, tries |-> 0]]
    BY <1>2 DEF Arrive
  <2>2. Cardinality(Taken(peers)) \in Nat
    BY TakenFinite DEF Typed, AdmissionTypeOK
  <2>3. UNCHANGED <<desk, peers, subnet, excuses>>
    BY <1>2 DEF Arrive
  <2>4. desk = "peer" => FirstStep = "lookup"
    BY DEF FirstStep
  <2> DEFINE r == [at |-> FirstStep, key |-> k, right |-> right,
                   seen |-> arrivals + 1, cap |-> limit, tries |-> 0]
  <2>5. desk = "peer" => Patient(peers, r) /\ r.at # "insert"
    BY <2>2, <2>4 DEF Patient
  <2>. HIDE DEF r
  <2>6. req' = [req EXCEPT ![q] = r]
    BY <2>1 DEF r
  <2>. QED
    BY <2>3, <2>5, <2>6, PeersGo
<1>3. ASSUME NEW q \in Reqs, LookForPeer(q) PROVE PeersInv'
  <2>1. /\ desk = "peer" /\ req[q].at = "lookup" /\ UNCHANGED <<desk, peers, subnet, excuses>>
        /\ Fits(desk, req[q]) /\ desk \in Desks
    BY <1>3 DEF LookForPeer, At, Typed, AdmissionTypeOK
  <2>2. CASE peers[req[q].key] # Unset
    <3>1. req' = [req EXCEPT ![q] = Ended("done")]
      BY <1>3, <2>2 DEF LookForPeer, Go, Stepped, Ends
    <3>2. Patient(peers, Ended("done")) /\ Ended("done").at # "insert"
      BY PatientEnded DEF Ended
    <3>. QED
      BY <2>1, <3>1, <3>2, PeersGo
  <2>3. CASE peers[req[q].key] = Unset
    <3> DEFINE r == [req[q] EXCEPT !.at = "scan"]
    <3>1. req' = [req EXCEPT ![q] = r]
      BY <1>3, <2>3 DEF LookForPeer, Go, Stepped, Ends
    <3>2. r.at = "scan" /\ r.tries = req[q].tries /\ r.key = req[q].key
      BY <2>1 DEF Fits, Asking
    <3>. HIDE DEF r
    <3>3. "refused" \notin excuses' => Patient(peers, r)
      BY <2>1, <2>3, <3>2 DEF PeersInv, Patient
    <3>. QED
      BY <2>1, <3>1, <3>2, <3>3, PeersGo
  <2>. QED BY <2>2, <2>3
<1>4. ASSUME NEW q \in Reqs, ScanSubnet(q) PROVE PeersInv'
  <2>1. /\ desk = "peer" /\ req[q].at = "scan" /\ UNCHANGED <<desk, peers, subnet, excuses>>
        /\ Fits(desk, req[q]) /\ desk \in Desks
    BY <1>4 DEF ScanSubnet, At, Typed, AdmissionTypeOK
  <2>2. CASE FreeAddresses = {}
    <3>1. req' = [req EXCEPT ![q] = Ended("denied")]
      BY <1>4, <2>2 DEF ScanSubnet, Go, Stepped, Ends
    <3>2. Patient(peers, Ended("denied")) /\ Ended("denied").at # "insert"
      BY PatientEnded DEF Ended
    <3>. QED
      BY <2>1, <3>1, <3>2, PeersGo
  <2>3. CASE FreeAddresses # {}
    <3> DEFINE a == Min(FreeAddresses)
               s == [req[q] EXCEPT !.seen = a]
               r == [s EXCEPT !.at = "insert"]
    <3>1. a \in subnet /\ a \notin Held /\ a \in Nat
      BY <2>3, MinFree
    <3>2. req' = [req EXCEPT ![q] = r]
      BY <1>4, <2>3 DEF ScanSubnet, See, Stepped, Seeing, Ends
    <3>. HIDE DEF a
    <3>3. r.at = "insert" /\ r.tries = req[q].tries /\ r.key = req[q].key /\ r.seen = a
      BY <2>1, <3>1 DEF Fits, Asking
    <3>. HIDE DEF r
    <3>4. "refused" \notin excuses' => Patient(peers, r)
      BY <2>1, <3>1, <3>3 DEF PeersInv, Patient, Taken, Held
    <3>. QED
      BY <2>1, <3>1, <3>2, <3>3, <3>4, PeersGo
  <2>. QED BY <2>2, <2>3
<1>5. ASSUME NEW q \in Reqs, InsertPeer(q) PROVE PeersInv'
  <2>1. /\ desk = "peer" /\ req[q].at = "insert" /\ UNCHANGED <<desk, subnet>>
        /\ Fits("peer", req[q]) /\ excuses \subseteq excuses'
    BY <1>5 DEF InsertPeer, At, Typed, Excuse
  <2>2. CASE /\ peers[req[q].key] = Unset /\ req[q].seen \notin Held
             /\ peers' = [peers EXCEPT ![req[q].key] = req[q].seen]
             /\ Go(q, "done") /\ UNCHANGED excuses
    <3> DEFINE k == req[q].key
               a == req[q].seen
    <3>1. k \in Keys /\ a \in UNION Subnets /\ a # Unset
      BY <2>1, AdmissionAssumption DEF Fits, Unset, Ends
    <3>2. req' = [req EXCEPT ![q] = Ended("done")]
      BY <2>2 DEF Go, Stepped, Ends
    <3>3. \A p \in Reqs : req'[p] = IF p = q THEN Ended("done") ELSE req[p]
      BY <3>2 DEF Typed, AdmissionTypeOK
    <3>4. peers \in [Keys -> {Unset} \cup UNION Subnets]
      BY DEF Typed, AdmissionTypeOK
    <3>5. \A u \in Keys : peers'[u] = IF u = k THEN a ELSE peers[u]
      BY <2>2, <3>4
    <3>6. /\ Taken(peers') = Taken(peers) \cup {a}
          /\ Cardinality(Taken(peers')) = Cardinality(Taken(peers)) + 1
          /\ Cardinality(Taken(peers)) \in Nat
      <4>1. Taken(peers) = Held
        BY DEF Taken, Held
      <4>. HIDE DEF k, a
      <4>2. peers' = [peers EXCEPT ![k] = a] /\ peers[k] = Unset /\ a \notin Taken(peers)
        BY <2>2, <4>1 DEF k, a
      <4>. QED BY <3>1, <3>4, <4>2, TakenGrows, TakenFinite
    <3>7. Apart'
      BY <2>2, <3>5, <3>1 DEF PeersInv, Apart, Held
    <3>8. InRange'
      <4>1. Held = Taken(peers) /\ Held' = Taken(peers')
        BY DEF Held, Taken
      <4>2. "moved" \notin excuses' => Held' \subseteq subnet'
        BY <2>1, <2>2, <3>6, <4>1 DEF PeersInv, InRange
      <4>3. Ended("done").at # "insert"
        BY DEF Ended
      <4>4. "moved" \notin excuses' => \A p \in Reqs : req'[p].at = "insert" => req'[p].seen \in subnet'
        BY <2>1, <2>2, <3>3, <4>3 DEF PeersInv, InRange
      <4>. QED BY <4>2, <4>4 DEF InRange
    <3>9. ASSUME "refused" \notin excuses', NEW p \in Reqs PROVE Patient(peers', req'[p])
      <4>1. CASE p = q
        BY <3>3, <4>1, PatientEnded
      <4>2. CASE p # q
        <5>1. req[p] \in Asking /\ Patient(peers, req[p])
          BY <2>1, <2>2, <3>9 DEF Typed, Fits, PeersInv
        <5>2. Patient(peers', req[p])
          BY <3>6, <5>1, PatientLonger
        <5>. QED BY <3>3, <4>2, <5>2
      <4>. QED BY <4>1, <4>2
    <3>. QED
      BY <3>7, <3>8, <3>9 DEF PeersInv
  <2>3. CASE /\ "refused" \notin excuses' => peers[req[q].key] # Unset \/ req[q].seen \in Held
             /\ TryAgain(q) /\ UNCHANGED peers
    <3>1. "refused" \notin excuses' => Cardinality(Taken(peers)) >= req[q].tries + 1
      BY <2>1, <2>3 DEF PeersInv, Patient, Taken, Held
    <3>2. Cardinality(Taken(peers)) \in Nat /\ req[q].tries \in Nat
      BY <2>1, TakenFinite DEF Typed, AdmissionTypeOK, Fits, Asking
    <3>3. CASE req[q].tries + 1 = Attempts
      <4>1. req' = [req EXCEPT ![q] = Ended("failed")]
        BY <2>3, <3>3 DEF TryAgain
      <4>2. "refused" \notin excuses' => Patient(peers, Ended("failed"))
        BY <3>1, <3>3 DEF Patient, Ended
      <4>3. Ended("failed").at # "insert"
        BY DEF Ended
      <4>. QED BY <2>1, <2>3, <4>1, <4>2, <4>3, PeersGo
    <3>4. CASE req[q].tries + 1 # Attempts
      <4> DEFINE r == Again(req[q])
      <4>1. req' = [req EXCEPT ![q] = r]
        BY <2>3, <3>4 DEF TryAgain
      <4>2. r.at = "lookup" /\ r.tries = req[q].tries + 1
        BY <2>1 DEF Fits, Asking, Again
      <4>. HIDE DEF r
      <4>3. "refused" \notin excuses' => Patient(peers, r)
        BY <3>1, <4>2 DEF Patient
      <4>. QED BY <2>1, <2>3, <4>1, <4>2, <4>3, PeersGo
    <3>. QED BY <3>3, <3>4
  <2>. QED
    BY <1>5, <2>2, <2>3 DEF InsertPeer, Excuse
<1>6. CASE MoveSubnet
  <2>1. UNCHANGED <<desk, req, peers>> /\ excuses' = excuses \cup {"moved"}
    BY <1>6 DEF MoveSubnet, Excuse
  <2>. QED
    BY <2>1 DEF PeersInv, Apart, InRange
<1>7. ASSUME NEW q \in Reqs,
        \/ LookForDevice(q) \/ CountDevices(q) \/ InsertDevice(q) \/ CountAdmins(q)
        \/ LookForName(q) \/ InsertAdmin(q) \/ InsertToken(q) \/ CheckLocked(q)
        \/ ClearFailures(q) \/ RecordFailure(q) \/ Arm(q) \/ Lock(q)
      PROVE PeersInv'
  <2>1. desk # "peer" /\ UNCHANGED <<desk, peers, subnet>> /\ excuses \subseteq excuses'
    BY <1>7 DEF LookForDevice, CountDevices, InsertDevice, CountAdmins, LookForName, InsertAdmin,
       InsertToken, CheckLocked, ClearFailures, RecordFailure, Arm, Lock, Disarmed, At, Excuse
  <2>. QED
    BY <2>1, PeersElsewhere
<1>8. CASE DeleteRow \/ SetLimit
  <2>1. desk # "peer" /\ UNCHANGED <<desk, peers, subnet>> /\ excuses \subseteq excuses'
    BY <1>8 DEF DeleteRow, SetLimit, Excuse
  <2>. QED
    BY <2>1, PeersElsewhere
<1>9. CASE Expire
  BY <1>9 DEF Expire, PeersInv, Apart, InRange, Held
<1>. QED
  BY <1>1, <1>2, <1>3, <1>4, <1>5, <1>6, <1>7, <1>8, <1>9 DEF AdmissionNext

-----------------------------------------------------------------------------
(* What a step of a request does to the requests. *)
LEMMA GoEffect ==
  ASSUME Typed, NEW q \in Reqs, NEW step, Go(q, step)
  PROVE  /\ \A p \in Reqs : p # q => req'[p] = req[p]
         /\ req'[q].at = step
         /\ step \notin Ends => req'[q].key = req[q].key /\ req'[q].cap = req[q].cap
                                /\ req'[q].seen = req[q].seen
<1>1. req[q] \in Asking /\ req \in [Reqs -> Asking]
  BY DEF Typed, AdmissionTypeOK, Asking
<1>2. req' = [req EXCEPT ![q] = Stepped(req[q], step)]
  BY DEF Go
<1>3. req'[q] = Stepped(req[q], step)
  BY <1>1, <1>2
<1>4. CASE step \in Ends
  <2>1. req'[q] = Ended(step)
    BY <1>3, <1>4 DEF Stepped
  <2>. QED BY <1>1, <1>2, <1>4, <2>1 DEF Ended
<1>5. CASE step \notin Ends
  <2>1. req'[q] = [req[q] EXCEPT !.at = step]
    BY <1>3, <1>5 DEF Stepped
  <2>. QED BY <1>1, <1>2, <2>1 DEF Asking
<1>. QED
  BY <1>4, <1>5

(* The same when it keeps what it has read. *)
LEMMA SeeEffect ==
  ASSUME Typed, NEW q \in Reqs, NEW step, NEW n, See(q, step, n)
  PROVE  /\ \A p \in Reqs : p # q => req'[p] = req[p]
         /\ req'[q].at = step
         /\ step \notin Ends => req'[q].key = req[q].key /\ req'[q].cap = req[q].cap
                                /\ req'[q].seen = n
<1>1. req[q] \in Asking /\ req \in [Reqs -> Asking]
  BY DEF Typed, AdmissionTypeOK, Asking
<1>2. req' = [req EXCEPT ![q] = Stepped([req[q] EXCEPT !.seen = n], step)]
  BY DEF See, Seeing
<1>3. req'[q] = Stepped([req[q] EXCEPT !.seen = n], step)
  BY <1>1, <1>2
<1>4. CASE step \in Ends
  <2>1. req'[q] = Ended(step)
    BY <1>3, <1>4 DEF Stepped
  <2>. QED BY <1>1, <1>2, <1>4, <2>1 DEF Ended
<1>5. CASE step \notin Ends
  <2>1. req'[q] = [[req[q] EXCEPT !.seen = n] EXCEPT !.at = step]
    BY <1>3, <1>5 DEF Stepped
  <2>. QED BY <1>1, <1>2, <2>1 DEF Asking
<1>. QED
  BY <1>4, <1>5

(* Whoever is still busy was busy, with the same key and the same quota. *)
Kept == \A p \in Reqs : req'[p].at \notin Ends =>
          req[p].at \notin Ends /\ req'[p].key = req[p].key /\ req'[p].cap = req[p].cap

(* A request that goes on keeps them, *)
LEMMA GoKept ==
  ASSUME Typed, NEW q \in Reqs, req[q].at \notin Ends, NEW step, Go(q, step)
  PROVE  Kept
BY GoEffect DEF Kept

(* so does one that keeps what it has read, *)
LEMMA SeeKept ==
  ASSUME Typed, NEW q \in Reqs, req[q].at \notin Ends, NEW step, NEW n, See(q, step, n)
  PROVE  Kept
BY SeeEffect DEF Kept

(* and one that starts over. *)
LEMMA TryAgainKept ==
  ASSUME Typed, NEW q \in Reqs, req[q].at \notin Ends, TryAgain(q)
  PROVE  Kept
<1>1. req[q] \in Asking /\ req \in [Reqs -> Asking]
  BY DEF Typed, AdmissionTypeOK, Asking
<1>2. CASE req[q].tries + 1 = Attempts
  <2>1. req' = [req EXCEPT ![q] = Ended("failed")]
    BY <1>2 DEF TryAgain
  <2>. QED BY <1>1, <2>1 DEF Kept, Ended, Ends
<1>3. CASE req[q].tries + 1 # Attempts
  <2>1. req' = [req EXCEPT ![q] = Again(req[q])]
    BY <1>3 DEF TryAgain
  <2>2. Again(req[q]).key = req[q].key /\ Again(req[q]).cap = req[q].cap
    BY <1>1 DEF Again, Asking
  <2>. QED BY <1>1, <2>1, <2>2 DEF Kept
<1>. QED
  BY <1>2, <1>3

-----------------------------------------------------------------------------
(* No more decide than there are requests. *)
LEMMA DecidersFinite ==
  ASSUME NEW d, NEW rs
  PROVE  /\ IsFiniteSet(Deciders(d, rs)) /\ Cardinality(Deciders(d, rs)) \in Nat
         /\ Cardinality(Deciders(d, rs)) <= Cardinality(Reqs) /\ Cardinality(Reqs) \in Nat
<1>1. Deciders(d, rs) \in SUBSET Reqs
  BY DEF Deciders
<1>. QED
  BY <1>1, FS_Subset, FS_CardinalityType, AdmissionAssumption

(* Nobody decides anew, and no row comes. *)
LEMMA RoomStays ==
  ASSUME Typed, RoomInv, IsFiniteSet(records),
         UNCHANGED <<desk, limit>>, records' \subseteq records, excuses \subseteq excuses',
         \A p \in Reqs : req'[p].at \notin Ends =>
           /\ Fresh => ~ Under(limit, req'[p].cap)
           /\ p \in Deciders(desk, req) => req'[p].key = req[p].key,
         desk \in Rationed => Deciders(desk, req') \subseteq Deciders(desk, req)
  PROVE  RoomInv'
<1> DEFINE D == Deciders(desk, req)
           E == Deciders(desk, req')
<1>1. /\ Cardinality(records') \in Nat /\ Cardinality(records) \in Nat
      /\ Cardinality(records') <= Cardinality(records)
  BY FS_Subset, FS_CardinalityType
<1>2. /\ Cardinality(D) \in Nat /\ Cardinality(E) \in Nat /\ Cardinality(Reqs) \in Nat
      /\ desk \in Rationed => Cardinality(E) <= Cardinality(D)
  BY DecidersFinite, FS_Subset
<1>3. Room' = Room /\ (Room # NoLimit => Room \in Nat) /\ (Limited => desk \in Rationed)
  BY AdmissionAssumption DEF Room, Limited, Rationed, Typed, AdmissionTypeOK, Caps
<1>4. \A p \in E : p \in Reqs /\ req'[p].at \notin Ends
  BY DEF Deciders, Ends
<1>5. (desk \in Rationed /\ OneByOne => \A p, q \in Deciders(desk, req) : p = q)'
  BY DEF RoomInv, OneByOne
<1>6. (Fresh => \A q \in Reqs : req[q].at \notin Ends => ~ Under(limit, req[q].cap))'
  BY DEF Fresh
<1>7. (Limited /\ Fresh =>
         Cardinality(records) + Cardinality(Deciders(desk, req)) < Room + Cardinality(Reqs))'
  <2>1. SUFFICES ASSUME Limited', Fresh'
                 PROVE  Cardinality(records') + Cardinality(E) < Room + Cardinality(Reqs)
    BY <1>3
  <2>2. Limited /\ Fresh /\ Room \in Nat
    BY <2>1, <1>3 DEF Limited, Fresh
  <2>3. Cardinality(records) + Cardinality(D) < Room + Cardinality(Reqs)
    BY <2>2 DEF RoomInv
  <2>. HIDE DEF D, E
  <2>. QED BY <1>1, <1>2, <1>3, <2>2, <2>3
<1>8. (Limited /\ Fresh /\ OneByOne =>
         /\ Cardinality(records) <= Room
         /\ Deciders(desk, req) # {} => Cardinality(records) < Room)'
  <2>1. SUFFICES ASSUME Limited', Fresh', OneByOne'
                 PROVE  /\ Cardinality(records') <= Room
                        /\ E # {} => Cardinality(records') < Room
    BY <1>3
  <2>2. Limited /\ Fresh /\ OneByOne /\ Room \in Nat
    BY <2>1, <1>3 DEF Limited, Fresh, OneByOne
  <2>3. Cardinality(records) <= Room /\ (D # {} => Cardinality(records) < Room)
    BY <2>2 DEF RoomInv
  <2>4. E # {} => D # {}
    BY <2>2, <1>3
  <2>. HIDE DEF D, E
  <2>. QED BY <1>1, <2>2, <2>3, <2>4
<1>9. (desk = "token" /\ OneByOne => \A q \in Deciders(desk, req) : ~ Has(req[q].key))'
  <2>1. SUFFICES ASSUME desk = "token", OneByOne', NEW q \in E
                 PROVE  \A r \in records' : r.key # req'[q].key
    BY DEF Has
  <2>2. q \in D /\ OneByOne /\ req'[q].key = req[q].key
    BY <1>4, <2>1 DEF Rationed, OneByOne
  <2>. QED BY <2>1, <2>2 DEF RoomInv, Has
<1>10. (\A r, s \in records : r.key = s.key /\ r # s => desk = "token" /\ ~ OneByOne)'
  BY DEF RoomInv, OneByOne
<1>. QED
  BY <1>5, <1>6, <1>7, <1>8, <1>9, <1>10 DEF RoomInv

(* One request more has decided: it found room, and the excuse is noted. *)
LEMMA RoomDecides ==
  ASSUME Typed, RoomInv, IsFiniteSet(records), NEW q \in Reqs, desk \in Rationed,
         UNCHANGED <<desk, limit, records>>, excuses \subseteq excuses', Kept,
         Deciders(desk, req') = Deciders(desk, req) \cup {q}, q \notin Deciders(desk, req),
         req'[q].at \notin Ends,
         OneByOne' => Deciders(desk, req) = {},
         Limited /\ Fresh => Cardinality(records) < Room,
         desk = "token" => ~ Has(req[q].key)
  PROVE  RoomInv'
<1> DEFINE D == Deciders(desk, req)
           E == Deciders(desk, req')
<1>1. /\ Cardinality(D) \in Nat /\ Cardinality(E) = Cardinality(D) + 1
      /\ Cardinality(E) <= Cardinality(Reqs) /\ Cardinality(Reqs) \in Nat
      /\ Cardinality(records) \in Nat
  BY DecidersFinite, FS_AddElement, FS_CardinalityType
<1>2. Room' = Room /\ (Room # NoLimit => Room \in Nat)
  BY AdmissionAssumption DEF Room, Rationed, Typed, AdmissionTypeOK, Caps
<1>3. (desk \in Rationed /\ OneByOne => \A p, r \in Deciders(desk, req) : p = r)'
  OBVIOUS
<1>4. (Fresh => \A p \in Reqs : req[p].at \notin Ends => ~ Under(limit, req[p].cap))'
  BY DEF RoomInv, Fresh, Kept
<1>5. (Limited /\ Fresh =>
         Cardinality(records) + Cardinality(Deciders(desk, req)) < Room + Cardinality(Reqs))'
  <2>1. SUFFICES ASSUME Limited', Fresh'
                 PROVE  Cardinality(records) + Cardinality(E) < Room + Cardinality(Reqs)
    BY <1>2
  <2>2. Limited /\ Fresh /\ Room \in Nat
    BY <2>1, <1>2 DEF Limited, Fresh
  <2>. HIDE DEF E
  <2>. QED BY <1>1, <2>2
<1>6. (Limited /\ Fresh /\ OneByOne =>
         /\ Cardinality(records) <= Room
         /\ Deciders(desk, req) # {} => Cardinality(records) < Room)'
  <2>1. SUFFICES ASSUME Limited', Fresh', OneByOne' PROVE Cardinality(records) < Room
    BY <1>1, <1>2 DEF Limited
  <2>. QED BY <2>1, <1>2 DEF Limited, Fresh
<1>7. (desk = "token" /\ OneByOne => \A p \in Deciders(desk, req) : ~ Has(req[p].key))'
  <2>1. SUFFICES ASSUME desk = "token", OneByOne' PROVE \A r \in records : r.key # req'[q].key
    BY DEF Has
  <2>. QED BY <2>1 DEF Kept, Has
<1>8. (\A r, s \in records : r.key = s.key /\ r # s => desk = "token" /\ ~ OneByOne)'
  BY DEF RoomInv, OneByOne
<1>. QED
  BY <1>3, <1>4, <1>5, <1>6, <1>7, <1>8 DEF RoomInv

(* The row of one that had decided. *)
LEMMA RoomGrows ==
  ASSUME Typed, RoomInv, IsFiniteSet(records), NEW q \in Reqs, desk \in Rationed,
         UNCHANGED <<desk, limit, excuses>>, Kept,
         Deciders(desk, req') = Deciders(desk, req) \ {q}, q \in Deciders(desk, req),
         records' = records \cup {Row(q)},
         desk # "token" => ~ Has(req[q].key)
  PROVE  RoomInv'
<1> DEFINE D == Deciders(desk, req)
           E == Deciders(desk, req')
<1>1. /\ Cardinality(D) \in Nat /\ Cardinality(E) = Cardinality(D) - 1
      /\ Cardinality(E) \in Nat /\ Cardinality(Reqs) \in Nat
      /\ Cardinality(records) \in Nat /\ Cardinality(records') \in Nat
      /\ Cardinality(records') <= Cardinality(records) + 1
  BY DecidersFinite, FS_RemoveElement, FS_AddElement, FS_CardinalityType
<1>2. Room' = Room /\ (Room # NoLimit => Room \in Nat)
  BY AdmissionAssumption DEF Room, Rationed, Typed, AdmissionTypeOK, Caps
<1>3. Limited' = Limited /\ Fresh' = Fresh /\ OneByOne' = OneByOne
  BY <1>2 DEF Limited, Fresh, OneByOne
<1>4. OneByOne => D = {q} /\ E = {}
  BY DEF RoomInv
<1>5. Row(q).key = req[q].key
  BY DEF Row
<1>6. (desk \in Rationed /\ OneByOne => \A p, r \in Deciders(desk, req) : p = r)'
  BY <1>3, <1>4
<1>7. (Fresh => \A p \in Reqs : req[p].at \notin Ends => ~ Under(limit, req[p].cap))'
  BY DEF RoomInv, Fresh, Kept
<1>8. (Limited /\ Fresh =>
         Cardinality(records) + Cardinality(Deciders(desk, req)) < Room + Cardinality(Reqs))'
  <2>1. SUFFICES ASSUME Limited, Fresh
                 PROVE  Cardinality(records') + Cardinality(E) < Room + Cardinality(Reqs)
    BY <1>2, <1>3
  <2>2. Room \in Nat /\ Cardinality(records) + Cardinality(D) < Room + Cardinality(Reqs)
    BY <2>1, <1>2 DEF Limited, RoomInv
  <2>. HIDE DEF E, D
  <2>. QED BY <1>1, <2>2
<1>9. (Limited /\ Fresh /\ OneByOne =>
         /\ Cardinality(records) <= Room
         /\ Deciders(desk, req) # {} => Cardinality(records) < Room)'
  <2>1. SUFFICES ASSUME Limited, Fresh, OneByOne PROVE Cardinality(records') <= Room
    BY <1>2, <1>3, <1>4
  <2>2. Room \in Nat /\ Cardinality(records) < Room
    BY <2>1, <1>2, <1>4 DEF Limited, RoomInv
  <2>. QED BY <1>1, <2>2
<1>10. (desk = "token" /\ OneByOne => \A p \in Deciders(desk, req) : ~ Has(req[p].key))'
  BY <1>3, <1>4
<1>11. OneByOne => ~ Has(req[q].key)
  <2>1. SUFFICES ASSUME OneByOne, desk = "token" PROVE ~ Has(req[q].key)
    OBVIOUS
  <2>. QED BY <2>1 DEF RoomInv
<1>12. (\A r, s \in records : r.key = s.key /\ r # s => desk = "token" /\ ~ OneByOne)'
  <2>1. SUFFICES ASSUME NEW r \in records', NEW s \in records', r.key = s.key, r # s
                 PROVE  desk = "token" /\ ~ OneByOne
    BY <1>3
  <2>2. CASE r \in records /\ s \in records
    BY <2>1, <2>2 DEF RoomInv
  <2>3. CASE r = Row(q) \/ s = Row(q)
    <3>1. Has(req[q].key)
      BY <2>1, <2>3, <1>5 DEF Has
    <3>. QED BY <3>1, <1>11
  <2>. QED BY <2>1, <2>2, <2>3
<1>. QED
  BY <1>6, <1>7, <1>8, <1>9, <1>10, <1>12 DEF RoomInv

-----------------------------------------------------------------------------
(* Insert turns a decision into a row, or fails on the unique key. *)
LEMMA InsertRoom ==
  ASSUME Typed, RoomInv, IsFiniteSet(records), NEW q \in Reqs, desk \in Rationed,
         req[q].at = "insert", Insert(q), UNCHANGED <<desk, limit, excuses>>
  PROVE  RoomInv'
<1>1. q \in Deciders(desk, req) /\ req[q].at \notin Ends
  BY DEF Deciders, Ends
<1>2. CASE desk # "token" /\ Has(req[q].key)
  <2>1. Go(q, "failed") /\ records' = records
    BY <1>2 DEF Insert
  <2>2. Kept
    BY <1>1, <2>1, GoKept
  <2>3. Deciders(desk, req') \subseteq Deciders(desk, req)
    BY <2>1, GoEffect DEF Deciders
  <2>4. \A p \in Reqs : req'[p].at \notin Ends =>
          /\ Fresh => ~ Under(limit, req'[p].cap)
          /\ req'[p].key = req[p].key
    BY <2>2 DEF Kept, RoomInv
  <2>. QED BY <2>1, <2>3, <2>4, RoomStays
<1>3. CASE ~ (desk # "token" /\ Has(req[q].key))
  <2>1. Go(q, "done") /\ records' = records \cup {Row(q)}
    BY <1>3 DEF Insert
  <2>2. Kept
    BY <1>1, <2>1, GoKept
  <2>3. Deciders(desk, req') = Deciders(desk, req) \ {q}
    BY <2>1, GoEffect DEF Deciders
  <2>. QED BY <1>1, <1>3, <2>1, <2>2, <2>3, RoomGrows
<1>. QED
  BY <1>2, <1>3

(* A step of a request that decides nothing. *)
LEMMA RoomPassed ==
  ASSUME Typed, RoomInv, IsFiniteSet(records), NEW q \in Reqs, NEW step,
         req[q].at \notin Ends, Go(q, step),
         step = "insert" \/ (desk = "admin" /\ step = "lookup") => q \in Deciders(desk, req),
         UNCHANGED <<desk, limit, records>>, excuses \subseteq excuses'
  PROVE  RoomInv'
<1>1. Kept
  BY GoKept
<1>2. Deciders(desk, req') \subseteq Deciders(desk, req)
  BY GoEffect DEF Deciders
<1>3. \A p \in Reqs : req'[p].at \notin Ends =>
        /\ Fresh => ~ Under(limit, req'[p].cap)
        /\ req'[p].key = req[p].key
  BY <1>1 DEF Kept, RoomInv
<1>. QED
  BY <1>2, <1>3, RoomStays

(* A desk without counted rows. *)
LEMMA RoomElsewhere ==
  ASSUME Typed, RoomInv, IsFiniteSet(records), desk \notin Rationed, Kept,
         UNCHANGED <<desk, limit, records>>, excuses \subseteq excuses'
  PROVE  RoomInv'
<1>1. \A p \in Reqs : req'[p].at \notin Ends =>
        /\ Fresh => ~ Under(limit, req'[p].cap)
        /\ req'[p].key = req[p].key
  BY DEF Kept, RoomInv
<1>. QED
  BY <1>1, RoomStays

(* One that decides where nobody else was deciding, or notes it. *)
LEMMA DecidingGo ==
  ASSUME Typed, NEW q \in Reqs, NEW step, Go(q, step), desk' = desk, q \notin Deciders(desk, req),
         req[q].at \notin Ends,
         step = "insert" \/ (desk = "admin" /\ step = "lookup"),
         Excuse(IF Deciding(q) THEN {"overlap"} ELSE {})
  PROVE  /\ Kept /\ excuses \subseteq excuses'
         /\ Deciders(desk, req') = Deciders(desk, req) \cup {q}
         /\ req'[q].at \notin Ends
         /\ OneByOne' => Deciders(desk, req) = {}
<1>1. Kept
  BY GoKept
<1>2. req'[q].at = step /\ \A p \in Reqs : p # q => req'[p] = req[p]
  BY GoEffect
<1>3. Deciders(desk, req') = Deciders(desk, req) \cup {q}
  BY <1>2 DEF Deciders
<1>4. OneByOne' => Deciders(desk, req) = {}
  BY DEF OneByOne, Excuse, Deciding, Deciders
<1>. QED
  BY <1>1, <1>2, <1>3, <1>4 DEF Excuse, Ends

(* Every step keeps what the promise about room rests on: a request decides when   *)
(* it has found room, and rows with decisions never exceed the room and the others *)
(* that decided beside it.                                                          *)
LEMMA RoomStep ==
  ASSUME Typed, RoomInv, IsFiniteSet(records), [AdmissionNext]_admissionVars
  PROVE  RoomInv'
<1>1. CASE UNCHANGED <<desk, req, records, limit, excuses>>
  BY <1>1, RoomStays DEF RoomInv
<1>2. ASSUME NEW q \in Reqs, Arrive(q) PROVE RoomInv'
  <2>1. PICK k \in Keys, right \in BOOLEAN :
          req' = [req EXCEPT ![q] = [at |-> FirstStep, key |-> k, right |-> right,
                                     seen |-> arrivals + 1, cap |-> limit, tries |-> 0]]
    BY <1>2 DEF Arrive
  <2>2. UNCHANGED <<desk, limit, records, excuses>> /\ req[q].at \in Ends
    BY <1>2 DEF Arrive
  <2>3. req \in [Reqs -> Asking] /\ limit \in Caps
    BY DEF Typed, AdmissionTypeOK, Asking
  <2>4. /\ \A p \in Reqs : p # q => req'[p] = req[p]
        /\ req'[q].at = FirstStep /\ req'[q].cap = limit
    BY <2>1, <2>3
  <2>5. FirstStep # "insert" /\ (desk = "admin" => FirstStep # "lookup")
    BY DEF FirstStep
  <2>6. Deciders(desk, req') \subseteq Deciders(desk, req) /\ q \notin Deciders(desk, req)
    BY <2>2, <2>4, <2>5 DEF Deciders, Ends
  <2>7. ~ Under(limit, limit)
    BY <2>3, AdmissionAssumption DEF Under, Caps
  <2>8. \A p \in Reqs : req'[p].at \notin Ends =>
          /\ Fresh => ~ Under(limit, req'[p].cap)
          /\ p \in Deciders(desk, req) => req'[p].key = req[p].key
    BY <2>4, <2>6, <2>7 DEF RoomInv
  <2>. QED BY <2>2, <2>6, <2>8, RoomStays
<1>3. ASSUME NEW q \in Reqs, LookForPeer(q) \/ ScanSubnet(q) \/ InsertPeer(q) PROVE RoomInv'
  <2>1. /\ desk \notin Rationed /\ req[q].at \notin Ends
        /\ UNCHANGED <<desk, limit, records>> /\ excuses \subseteq excuses'
    BY <1>3 DEF LookForPeer, ScanSubnet, InsertPeer, At, Rationed, Ends, Excuse
  <2>2. Kept
    <3>1. \/ \E step : Go(q, step)
          \/ \E step, n : See(q, step, n)
          \/ TryAgain(q)
      BY <1>3 DEF LookForPeer, ScanSubnet, InsertPeer
    <3>. QED BY <2>1, <3>1, GoKept, SeeKept, TryAgainKept
  <2>. QED BY <2>1, <2>2, RoomElsewhere
<1>4. ASSUME NEW q \in Reqs,
        CheckLocked(q) \/ ClearFailures(q) \/ RecordFailure(q) \/ Arm(q) \/ Lock(q)
      PROVE RoomInv'
  <2>1. /\ desk \notin Rationed /\ req[q].at \notin Ends
        /\ UNCHANGED <<desk, limit, records>> /\ excuses \subseteq excuses'
    BY <1>4 DEF CheckLocked, ClearFailures, RecordFailure, Arm, Lock, Disarmed, At, Rationed, Ends, Excuse
  <2>2. Kept
    <3>1. \/ \E step : Go(q, step)
          \/ \E step, n : See(q, step, n)
      BY <1>4 DEF CheckLocked, ClearFailures, RecordFailure, Arm, Lock, Disarmed
    <3>. QED BY <2>1, <3>1, GoKept, SeeKept
  <2>. QED BY <2>1, <2>2, RoomElsewhere
<1>5. ASSUME NEW q \in Reqs, LookForDevice(q) PROVE RoomInv'
  <2>1. /\ desk = "device" /\ req[q].at \notin Ends
        /\ UNCHANGED <<desk, limit, records, excuses>>
    BY <1>5 DEF LookForDevice, At, Ends
  <2>2. PICK step \in {"done", "count"} : Go(q, step)
    BY <1>5 DEF LookForDevice
  <2>. QED BY <2>1, <2>2, RoomPassed
<1>6. ASSUME NEW q \in Reqs, CountDevices(q) PROVE RoomInv'
  <2>1. /\ desk = "device" /\ req[q].at = "count" /\ req[q].at \notin Ends
        /\ UNCHANGED <<desk, limit, records>> /\ excuses \subseteq excuses'
    BY <1>6 DEF CountDevices, At, Ends, Excuse
  <2>2. CASE OverQuota(q)
    <3>1. Go(q, "denied")
      BY <1>6, <2>2 DEF CountDevices
    <3>. QED BY <2>1, <3>1, RoomPassed
  <2>3. CASE ~ OverQuota(q)
    <3>1. Go(q, "insert") /\ Excuse(IF Deciding(q) THEN {"overlap"} ELSE {})
      BY <1>6, <2>3 DEF CountDevices
    <3>2. desk \in Rationed /\ q \notin Deciders(desk, req)
      BY <2>1 DEF Rationed, Deciders
    <3>3. Limited /\ Fresh => Cardinality(records) < Room
      <4>1. SUFFICES ASSUME Limited, Fresh PROVE Cardinality(records) < limit
        BY <2>1 DEF Room
      <4>2. limit # NoLimit /\ limit \in Limits /\ ~ Under(limit, req[q].cap)
        BY <2>1, <4>1 DEF Limited, Room, Typed, AdmissionTypeOK, Caps, RoomInv
      <4>3. req[q].cap \in Caps
        BY DEF Typed, Fits, Asking
      <4>4. req[q].cap # NoLimit /\ ~ (limit < req[q].cap)
        BY <4>2 DEF Under
      <4>5. req[q].cap \in Nat /\ limit \in Nat
        BY <4>2, <4>3, <4>4, AdmissionAssumption DEF Caps
      <4>6. ~ (Cardinality(records) >= req[q].cap)
        BY <2>3, <4>4 DEF OverQuota
      <4>7. Cardinality(records) \in Nat
        BY FS_CardinalityType
      <4>. QED BY <4>4, <4>5, <4>6, <4>7
    <3>4. /\ Kept /\ excuses \subseteq excuses'
          /\ Deciders(desk, req') = Deciders(desk, req) \cup {q}
          /\ req'[q].at \notin Ends
          /\ OneByOne' => Deciders(desk, req) = {}
      BY <2>1, <3>1, <3>2, DecidingGo
    <3>. QED BY <2>1, <3>2, <3>3, <3>4, RoomDecides
  <2>. QED BY <2>2, <2>3
<1>7. ASSUME NEW q \in Reqs, InsertDevice(q) \/ InsertAdmin(q) \/ InsertToken(q) PROVE RoomInv'
  <2>1. /\ desk \in Rationed /\ req[q].at = "insert" /\ Insert(q)
        /\ UNCHANGED <<desk, limit, excuses>>
    BY <1>7 DEF InsertDevice, InsertAdmin, InsertToken, At, Rationed
  <2>. QED BY <2>1, InsertRoom
<1>8. ASSUME NEW q \in Reqs, CountAdmins(q) PROVE RoomInv'
  <2>1. /\ desk = "admin" /\ req[q].at = "count" /\ req[q].at \notin Ends
        /\ UNCHANGED <<desk, limit, records>> /\ excuses \subseteq excuses'
    BY <1>8 DEF CountAdmins, At, Ends, Excuse
  <2>2. CASE records # {}
    <3>1. Go(q, "denied")
      BY <1>8, <2>2 DEF CountAdmins
    <3>. QED BY <2>1, <3>1, RoomPassed
  <2>3. CASE records = {}
    <3>1. Go(q, "lookup") /\ Excuse(IF Deciding(q) THEN {"overlap"} ELSE {})
      BY <1>8, <2>3 DEF CountAdmins
    <3>2. desk \in Rationed /\ q \notin Deciders(desk, req)
      BY <2>1 DEF Rationed, Deciders
    <3>3. Cardinality(records) < Room
      BY <2>1, <2>3, FS_EmptySet DEF Room
    <3>4. /\ Kept /\ excuses \subseteq excuses'
          /\ Deciders(desk, req') = Deciders(desk, req) \cup {q}
          /\ req'[q].at \notin Ends
          /\ OneByOne' => Deciders(desk, req) = {}
      BY <2>1, <3>1, <3>2, DecidingGo
    <3>. QED BY <2>1, <3>2, <3>3, <3>4, RoomDecides
  <2>. QED BY <2>2, <2>3
<1>9. ASSUME NEW q \in Reqs, LookForName(q) PROVE RoomInv'
  <2>1. /\ desk \in {"admin", "token"} /\ req[q].at = "lookup" /\ req[q].at \notin Ends
        /\ UNCHANGED <<desk, limit, records>> /\ excuses \subseteq excuses'
    BY <1>9 DEF LookForName, Ends, Excuse
  <2>2. CASE Has(req[q].key)
    <3>1. Go(q, "denied")
      BY <1>9, <2>2 DEF LookForName
    <3>. QED BY <2>1, <3>1, RoomPassed
  <2>3. CASE ~ Has(req[q].key) /\ desk = "admin"
    <3>1. Go(q, "insert") /\ q \in Deciders(desk, req)
      BY <1>9, <2>1, <2>3 DEF LookForName, Deciders
    <3>. QED BY <2>1, <3>1, RoomPassed
  <2>4. CASE ~ Has(req[q].key) /\ desk = "token"
    <3>1. Go(q, "insert") /\ Excuse(IF Deciding(q) THEN {"overlap"} ELSE {})
      BY <1>9, <2>4 DEF LookForName
    <3>2. desk \in Rationed /\ q \notin Deciders(desk, req) /\ ~ Limited
      BY <2>1, <2>4 DEF Rationed, Deciders, Limited
    <3>4. /\ Kept /\ excuses \subseteq excuses'
          /\ Deciders(desk, req') = Deciders(desk, req) \cup {q}
          /\ req'[q].at \notin Ends
          /\ OneByOne' => Deciders(desk, req) = {}
      BY <2>1, <3>1, <3>2, DecidingGo
    <3>. QED BY <2>1, <2>4, <3>2, <3>4, RoomDecides
  <2>. QED BY <2>1, <2>2, <2>3, <2>4
<1>10. CASE MoveSubnet \/ DeleteRow \/ Expire
  <2>1. UNCHANGED <<desk, req, limit>> /\ records' \subseteq records /\ excuses \subseteq excuses'
    BY <1>10 DEF MoveSubnet, DeleteRow, Expire, Excuse
  <2>2. \A p \in Reqs : req'[p].at \notin Ends =>
          /\ Fresh => ~ Under(limit, req'[p].cap)
          /\ p \in Deciders(desk, req) => req'[p].key = req[p].key
    BY <2>1 DEF RoomInv
  <2>3. Deciders(desk, req') \subseteq Deciders(desk, req)
    BY <2>1
  <2>. QED BY <2>1, <2>2, <2>3, RoomStays
<1>11. CASE SetLimit
  <2>1. PICK n \in Caps : limit' = n /\ Excuse(IF Under(n, limit) THEN {"lowered"} ELSE {})
    BY <1>11 DEF SetLimit
  <2>2. UNCHANGED <<desk, req, records>> /\ desk = "device"
    BY <1>11 DEF SetLimit
  <2>3. OneByOne' = OneByOne /\ (Fresh' => Fresh /\ ~ Under(n, limit))
    BY <2>1 DEF OneByOne, Fresh, Excuse
  <2>4. limit \in Caps /\ \A p \in Reqs : req[p].cap \in Caps
    BY DEF Typed, AdmissionTypeOK
  <2>5. (Fresh => \A q \in Reqs : req[q].at \notin Ends => ~ Under(limit, req[q].cap))'
    <3>1. \A c \in Caps : ~ Under(n, limit) /\ ~ Under(limit, c) => ~ Under(n, c)
      BY <2>4, NotUnder
    <3>2. req' = req /\ limit' = n
      BY <2>1, <2>2
    <3>3. ASSUME Fresh', NEW q \in Reqs, req'[q].at \notin Ends
          PROVE  ~ Under(limit', req'[q].cap)
      <4>1. Fresh /\ ~ Under(n, limit)
        BY <2>3, <3>3
      <4>2. ~ Under(limit, req[q].cap)
        BY <3>2, <3>3, <4>1 DEF RoomInv
      <4>3. ~ Under(n, req[q].cap)
        BY <2>4, <3>1, <4>1, <4>2
      <4>. QED BY <3>2, <4>3
    <3>. QED BY <3>3
  <2>6. Fresh' /\ Limited' => Fresh /\ Limited /\ limit \in Nat /\ n \in Nat /\ limit <= n
    BY <2>1, <2>2, <2>3, <2>4, AdmissionAssumption DEF Limited, Room, Under, Caps
  <2>7. /\ Cardinality(records) \in Nat /\ Cardinality(Reqs) \in Nat
        /\ Cardinality(Deciders(desk, req)) \in Nat
    BY DecidersFinite, FS_CardinalityType
  <2>8. Room = limit /\ Room' = n
    BY <2>1, <2>2 DEF Room
  <2>9. (Limited /\ Fresh =>
           Cardinality(records) + Cardinality(Deciders(desk, req)) < Room + Cardinality(Reqs))'
    <3>1. SUFFICES ASSUME Limited', Fresh'
                   PROVE  Cardinality(records) + Cardinality(Deciders(desk, req)) < n + Cardinality(Reqs)
      BY <2>2, <2>8
    <3>2. Cardinality(records) + Cardinality(Deciders(desk, req)) < limit + Cardinality(Reqs)
      BY <2>6, <2>8, <3>1 DEF RoomInv
    <3>. QED BY <2>6, <2>7, <3>1, <3>2
  <2>10. (Limited /\ Fresh /\ OneByOne =>
           /\ Cardinality(records) <= Room
           /\ Deciders(desk, req) # {} => Cardinality(records) < Room)'
    <3>1. SUFFICES ASSUME Limited', Fresh', OneByOne
                   PROVE  /\ Cardinality(records) <= n
                          /\ Deciders(desk, req) # {} => Cardinality(records) < n
      BY <2>2, <2>3, <2>8
    <3>2. /\ Cardinality(records) <= limit
          /\ Deciders(desk, req) # {} => Cardinality(records) < limit
      BY <2>6, <2>8, <3>1 DEF RoomInv
    <3>. QED BY <2>6, <2>7, <3>1, <3>2
  <2>11. (\A r, s \in records : r.key = s.key /\ r # s => desk = "token" /\ ~ OneByOne)'
    BY <2>2, <2>3 DEF RoomInv
  <2>12. (desk \in Rationed /\ OneByOne => \A p, q \in Deciders(desk, req) : p = q)'
    BY <2>2, <2>3 DEF RoomInv
  <2>. QED BY <2>2, <2>5, <2>9, <2>10, <2>11, <2>12 DEF RoomInv
<1>12. CASE UNCHANGED admissionVars
  BY <1>1, <1>12 DEF admissionVars
<1>. QED
  BY <1>2, <1>3, <1>4, <1>5, <1>6, <1>7, <1>8, <1>9, <1>10, <1>11, <1>12 DEF AdmissionNext

(* There are finitely many rows. *)
LEMMA FiniteStep ==
  ASSUME IsFiniteSet(records), [AdmissionNext]_admissionVars
  PROVE  IsFiniteSet(records')
<1>1. records' \subseteq records \/ \E q \in Reqs : records' = records \cup {Row(q)}
  BY DEF AdmissionNext, admissionVars, Arrive, LookForPeer, ScanSubnet, InsertPeer, LookForDevice,
     CountDevices, InsertDevice, CountAdmins, LookForName, InsertAdmin, InsertToken, CheckLocked,
     ClearFailures, RecordFailure, Arm, Lock, MoveSubnet, DeleteRow, SetLimit, Expire, Insert
<1>. QED
  BY <1>1, FS_Subset, FS_AddElement

-----------------------------------------------------------------------------
(* No more verify than there are requests. *)
LEMMA VerifyingFinite ==
  ASSUME NEW rs
  PROVE  /\ IsFiniteSet(Verifying(rs)) /\ Cardinality(Verifying(rs)) \in Nat
         /\ Cardinality(Verifying(rs)) <= Cardinality(Reqs) /\ Cardinality(Reqs) \in Nat
<1>1. Verifying(rs) \in SUBSET Reqs
  BY DEF Verifying
<1>. QED
  BY <1>1, FS_Subset, FS_CardinalityType, AdmissionAssumption

(* The counter stays, or is gone; nobody at the commands that arm it moves. *)
LEMMA FailsCalm ==
  ASSUME Typed, FailsInv, fails' = fails \/ fails' = NoFails,
         UNCHANGED desk, excuses \subseteq excuses',
         \A p \in Reqs : req[p].at \in {"arm", "lock"} => req'[p] = req[p],
         Verifying(req') \subseteq Verifying(req)
  PROVE  FailsInv'
<1>1. /\ Cardinality(Verifying(req)) \in Nat /\ Cardinality(Verifying(req')) \in Nat
      /\ Cardinality(Verifying(req')) <= Cardinality(Verifying(req))
      /\ Cardinality(Verifying(req')) <= Cardinality(Reqs) /\ Cardinality(Reqs) \in Nat
  BY VerifyingFinite, FS_Subset
<1>2. Threshold \in Nat /\ Threshold > 0 /\ fails.count \in Nat
  BY AdmissionAssumption DEF Typed, AdmissionTypeOK
<1>3. CASE fails' = NoFails
  <2>1. fails'.count = 0
    BY <1>3 DEF NoFails
  <2>2. fails'.count + Cardinality(Verifying(req')) < Threshold + Cardinality(Reqs)
    BY <1>1, <1>2, <2>1
  <2>. QED BY <1>2, <2>1, <2>2 DEF FailsInv
<1>4. CASE fails' = fails
  <2>1. SUFFICES ASSUME desk = "login" PROVE FailsInv'
    BY DEF FailsInv
  <2>2. fails'.count + Cardinality(Verifying(req')) < Threshold + Cardinality(Reqs)
    BY <1>1, <1>2, <1>4, <2>1 DEF FailsInv
  <2>3. fails'.count > 0 /\ fails'.ttl = "none" =>
          "unarmed" \in excuses' \/ \E q \in Reqs : req'[q].at = "arm"
    BY <1>4, <2>1 DEF FailsInv
  <2>4. fails'.count >= Threshold /\ fails'.ttl # "lockout" =>
          \/ excuses' \cap {"late", "unarmed"} # {}
          \/ \E q \in Reqs : req'[q].at \in {"arm", "lock"} /\ req'[q].seen >= Threshold
    BY <1>4, <2>1 DEF FailsInv
  <2>. QED BY <2>2, <2>3, <2>4 DEF FailsInv
<1>. QED
  BY <1>3, <1>4

(* A failure is counted, and the command that arms the key is next if it is due. *)
LEMMA RecordStep ==
  ASSUME Typed, FailsInv, NEW q \in Reqs, RecordFailure(q)
  PROVE  FailsInv'
<1> DEFINE n == fails.count + 1
<1>1. /\ desk = "login" /\ req[q].at = "verify" /\ UNCHANGED <<desk, excuses>>
      /\ fails.count \in Nat /\ fails \in [count : Nat, ttl : {"none", "window", "lockout"}]
      /\ Threshold \in Nat /\ Threshold > 0
  BY AdmissionAssumption DEF RecordFailure, At, Typed, AdmissionTypeOK
<1>2. fails'.count = n /\ fails'.ttl = fails.ttl
  BY <1>1 DEF RecordFailure
<1>3. PICK step \in {"arm", "lock", "denied"} :
        /\ See(q, step, n)
        /\ fails.count = 0 => step = "arm"
        /\ n >= Threshold => step \in {"arm", "lock"}
  BY <1>1 DEF RecordFailure, TripsLockout
<1>4. /\ \A p \in Reqs : p # q => req'[p] = req[p]
      /\ req'[q].at = step /\ (step \in {"arm", "lock"} => req'[q].seen = n)
  BY <1>3, SeeEffect DEF Ends
<1>5. n + Cardinality(Verifying(req')) < Threshold + Cardinality(Reqs)
  <2>1. q \in Verifying(req) /\ Verifying(req') = Verifying(req) \ {q}
    BY <1>1, <1>4 DEF Verifying
  <2>2. /\ Cardinality(Verifying(req')) = Cardinality(Verifying(req)) - 1
        /\ Cardinality(Verifying(req)) \in Nat /\ Cardinality(Reqs) \in Nat
    BY <2>1, VerifyingFinite, FS_RemoveElement
  <2>. QED BY <1>1, <2>2 DEF FailsInv
<1>6. n > 0 /\ fails'.ttl = "none" => "unarmed" \in excuses' \/ \E p \in Reqs : req'[p].at = "arm"
  <2>1. CASE fails.count = 0
    BY <1>3, <1>4, <2>1
  <2>2. CASE fails.count # 0
    BY <1>1, <1>2, <1>4, <2>2 DEF FailsInv
  <2>. QED BY <2>1, <2>2
<1>7. n >= Threshold => \E p \in Reqs : req'[p].at \in {"arm", "lock"} /\ req'[p].seen >= Threshold
  BY <1>3, <1>4
<1>. HIDE DEF n
<1>. QED
  BY <1>1, <1>2, <1>5, <1>6, <1>7 DEF FailsInv

(* The commands that arm the key: the first failure's may come late or be lost. *)
LEMMA ArmStep ==
  ASSUME Typed, FailsInv, NEW q \in Reqs, Arm(q) \/ Lock(q)
  PROVE  FailsInv'
<1>1. /\ desk = "login" /\ req[q].at \in {"arm", "lock"} /\ UNCHANGED desk /\ excuses \subseteq excuses'
      /\ fails.count \in Nat /\ fails \in [count : Nat, ttl : {"none", "window", "lockout"}]
      /\ Threshold \in Nat /\ Threshold > 0
  BY AdmissionAssumption DEF Arm, Lock, Disarmed, At, Excuse, Typed, AdmissionTypeOK
<1>2. PICK step \in {"lock", "denied"} : Go(q, step)
  BY DEF Arm, Lock, Disarmed
<1>3. /\ \A p \in Reqs : p # q => req'[p] = req[p]
      /\ req'[q].at = step /\ (step = "lock" => req'[q].seen = req[q].seen)
  BY <1>2, GoEffect DEF Ends
<1>4. fails'.count = fails.count
  BY <1>1 DEF Arm, Lock, Disarmed, Armed
<1>5. fails'.count + Cardinality(Verifying(req')) < Threshold + Cardinality(Reqs)
  <2>1. Verifying(req') = Verifying(req)
    BY <1>1, <1>3 DEF Verifying
  <2>. QED BY <1>1, <1>4, <2>1 DEF FailsInv
<1>6. CASE Disarmed(q)
  <2>1. "unarmed" \in excuses'
    BY <1>6 DEF Disarmed, Excuse
  <2>. QED BY <1>5, <2>1 DEF FailsInv
<1>7. CASE Arm(q) /\ ~ Disarmed(q)
  <2>1. /\ fails' = Armed("window") /\ (fails.ttl = "lockout" => "late" \in excuses')
        /\ Go(q, IF TripsLockout(req[q].seen) THEN "lock" ELSE "denied")
    BY <1>7 DEF Arm, Excuse
  <2>2. req'[q].at = IF req[q].seen >= Threshold THEN "lock" ELSE "denied"
    BY <2>1, GoEffect DEF TripsLockout
  <2>3. req'[q].at = "lock" => req'[q].seen = req[q].seen
    BY <1>3
  <2>4. fails.count > 0 => fails'.ttl = "window"
    BY <1>1, <2>1 DEF Armed
  <2>5. fails'.count >= Threshold =>
          \/ excuses' \cap {"late", "unarmed"} # {}
          \/ \E p \in Reqs : req'[p].at \in {"arm", "lock"} /\ req'[p].seen >= Threshold
    <3>1. SUFFICES ASSUME fails.count >= Threshold, fails.ttl # "lockout",
                          excuses \cap {"late", "unarmed"} = {}
                   PROVE  \E p \in Reqs : req'[p].at \in {"arm", "lock"} /\ req'[p].seen >= Threshold
      BY <1>1, <1>4, <2>1
    <3>2. PICK p \in Reqs : req[p].at \in {"arm", "lock"} /\ req[p].seen >= Threshold
      BY <1>1, <3>1 DEF FailsInv
    <3>3. CASE p = q
      BY <2>2, <2>3, <3>2, <3>3
    <3>4. CASE p # q
      BY <1>3, <3>2, <3>4
    <3>. QED BY <3>3, <3>4
  <2>. QED BY <1>1, <1>4, <1>5, <2>4, <2>5 DEF FailsInv
<1>8. CASE Lock(q) /\ ~ Disarmed(q)
  <2>1. fails' = Armed("lockout")
    BY <1>8 DEF Lock
  <2>2. fails.count > 0 => fails'.ttl = "lockout"
    BY <1>1, <2>1 DEF Armed
  <2>. QED BY <1>1, <1>4, <1>5, <2>2 DEF FailsInv
<1>. QED
  BY <1>6, <1>7, <1>8

(* Every step keeps what the promise about failed logins rests on. *)
LEMMA FailsStep ==
  ASSUME Typed, Alone, FailsInv, [AdmissionNext]_admissionVars
  PROVE  FailsInv'
<1>1. CASE desk # "login" /\ desk' = desk
  BY <1>1 DEF FailsInv
<1>2. ASSUME NEW q \in Reqs, CheckLocked(q) PROVE FailsInv'
  <2>1. /\ desk = "login" /\ req[q].at = "check" /\ UNCHANGED <<desk, fails, excuses>>
        /\ fails.count \in Nat /\ Threshold \in Nat
    BY <1>2, AdmissionAssumption DEF CheckLocked, At, Typed, AdmissionTypeOK
  <2>2. CASE fails.count >= Threshold
    <3>1. Go(q, "denied")
      BY <1>2, <2>2 DEF CheckLocked
    <3>2. /\ \A p \in Reqs : p # q => req'[p] = req[p]
          /\ req'[q].at = "denied"
      BY <3>1, GoEffect
    <3>3. Verifying(req') \subseteq Verifying(req)
      BY <3>2 DEF Verifying
    <3>4. \A p \in Reqs : req[p].at \in {"arm", "lock"} => req'[p] = req[p]
      BY <2>1, <3>2
    <3>. QED BY <2>1, <3>3, <3>4, FailsCalm
  <2>3. CASE ~ (fails.count >= Threshold)
    <3>1. Go(q, "verify")
      BY <1>2, <2>3 DEF CheckLocked
    <3>2. /\ \A p \in Reqs : p # q => req'[p] = req[p]
          /\ req'[q].at = "verify"
      BY <3>1, GoEffect
    <3>3. Cardinality(Verifying(req')) <= Cardinality(Reqs) /\ Cardinality(Verifying(req')) \in Nat
          /\ Cardinality(Reqs) \in Nat
      BY VerifyingFinite
    <3>4. fails'.count + Cardinality(Verifying(req')) < Threshold + Cardinality(Reqs)
      BY <2>1, <2>3, <3>3
    <3>5. fails'.count > 0 /\ fails'.ttl = "none" =>
            "unarmed" \in excuses' \/ \E p \in Reqs : req'[p].at = "arm"
      BY <2>1, <3>2 DEF FailsInv
    <3>. QED BY <2>1, <2>3, <3>4, <3>5 DEF FailsInv
  <2>. QED BY <2>2, <2>3
<1>3. ASSUME NEW q \in Reqs, ClearFailures(q) PROVE FailsInv'
  <2>1. /\ desk = "login" /\ req[q].at = "verify" /\ UNCHANGED <<desk, excuses>>
        /\ fails' = NoFails /\ Go(q, "done")
    BY <1>3 DEF ClearFailures, At
  <2>2. /\ \A p \in Reqs : p # q => req'[p] = req[p]
        /\ req'[q].at = "done"
    BY <2>1, GoEffect
  <2>3. Verifying(req') \subseteq Verifying(req)
    BY <2>2 DEF Verifying
  <2>4. \A p \in Reqs : req[p].at \in {"arm", "lock"} => req'[p] = req[p]
    BY <2>1, <2>2
  <2>. QED BY <2>1, <2>3, <2>4, FailsCalm
<1>4. ASSUME NEW q \in Reqs, Arrive(q) PROVE FailsInv'
  <2>1. UNCHANGED <<desk, fails, excuses>> /\ req[q].at \in Ends
    BY <1>4 DEF Arrive
  <2>2. req \in [Reqs -> Asking]
    BY DEF Typed, AdmissionTypeOK, Asking
  <2>3. \A p \in Reqs : p # q => req'[p] = req[p]
    BY <1>4, <2>2 DEF Arrive
  <2>4. req'[q].at = FirstStep /\ FirstStep # "verify"
    BY <1>4, <2>2 DEF Arrive, FirstStep
  <2>5. Verifying(req') \subseteq Verifying(req)
    BY <2>3, <2>4 DEF Verifying
  <2>6. \A p \in Reqs : req[p].at \in {"arm", "lock"} => req'[p] = req[p]
    BY <2>1, <2>3 DEF Ends
  <2>. QED BY <2>1, <2>5, <2>6, FailsCalm
<1>5. CASE Expire
  BY <1>5, FailsCalm DEF Expire
<1>6. CASE UNCHANGED admissionVars
  BY <1>6, FailsCalm DEF admissionVars
<1>7. ASSUME NEW q \in Reqs,
        \/ LookForPeer(q) \/ ScanSubnet(q) \/ InsertPeer(q)
        \/ LookForDevice(q) \/ CountDevices(q) \/ InsertDevice(q)
        \/ CountAdmins(q) \/ LookForName(q) \/ InsertAdmin(q) \/ InsertToken(q)
      PROVE FailsInv'
  BY <1>1, <1>7 DEF LookForPeer, ScanSubnet, InsertPeer, LookForDevice, CountDevices, InsertDevice,
     CountAdmins, LookForName, InsertAdmin, InsertToken, At
<1>8. CASE MoveSubnet \/ DeleteRow \/ SetLimit
  BY <1>1, <1>8 DEF MoveSubnet, DeleteRow, SetLimit
<1>. QED
  BY <1>2, <1>3, <1>4, <1>5, <1>6, <1>7, <1>8, RecordStep, ArmStep DEF AdmissionNext

-----------------------------------------------------------------------------
(* All of it at the start. *)
LEMMA StartsRight ==
  ASSUME AdmissionInit
  PROVE  Alone /\ PeersInv /\ RoomInv /\ IsFiniteSet(records) /\ FailsInv
<1>1. /\ \A q \in Reqs : req[q] = Ended("done")
      /\ \A u \in Keys : peers[u] = Unset
      /\ records = {} /\ fails = NoFails /\ excuses = {}
  BY DEF AdmissionInit
<1>2. Ended("done").at = "done"
  BY DEF Ended
<1>3. Held = {}
  BY <1>1 DEF Held
<1>4. PeersInv
  BY <1>1, <1>2, <1>3, PatientEnded DEF PeersInv, Apart, InRange
<1>5. Deciders(desk, req) = {} /\ Verifying(req) = {}
  BY <1>1, <1>2 DEF Deciders, Verifying
<1>6. Cardinality(Reqs) \in Nat /\ Cardinality(Reqs) > 0 /\ Threshold \in Nat
  BY AdmissionAssumption, FS_CardinalityType, FS_EmptySet
<1>7. Typed
  BY TypedInit
<1>8. Limited => Room \in Nat /\ Room > 0
  BY <1>7, AdmissionAssumption DEF Limited, Room, Typed, AdmissionTypeOK, Caps
<1>9. Cardinality(records) = 0 /\ Cardinality(Deciders(desk, req)) = 0 /\ Cardinality(Verifying(req)) = 0
  BY <1>1, <1>5, FS_EmptySet
<1>10. Limited => Cardinality(records) <= Room
         /\ Cardinality(records) + Cardinality(Deciders(desk, req)) < Room + Cardinality(Reqs)
  BY <1>6, <1>8, <1>9
<1>11. RoomInv
  BY <1>1, <1>2, <1>5, <1>10 DEF RoomInv, Ends
<1>12. FailsInv
  BY <1>1, <1>6, <1>9, AdmissionAssumption DEF FailsInv, NoFails
<1>. QED
  BY <1>1, <1>3, <1>4, <1>11, <1>12, FS_EmptySet DEF Alone

(* Addresses of an AmneziaWG profile are unique, in its range unless the    *)
(* range was moved, and refused only to who met enough competitors.         *)
THEOREM PeersExplainedHolds == AdmissionSpec => []PeersExplained
<1>1. AdmissionInit => Typed /\ PeersInv
  BY TypedInit, StartsRight
<1>2. Typed /\ PeersInv /\ [AdmissionNext]_admissionVars => (Typed /\ PeersInv)'
  BY TypedStep, PeersStep
<1>3. Typed /\ PeersInv => PeersExplained
  <2>1. Held = Taken(peers)
    BY DEF Held, Taken
  <2>. QED BY <2>1 DEF PeersInv, Apart, InRange, Patient, PeersExplained
<1>. QED
  BY <1>1, <1>2, <1>3, PTL DEF AdmissionSpec

(* Devices, administrators and token names exceed what is allowed only by   *)
(* requests side by side or a lowered limit, and by no more than those.     *)
THEOREM RoomExplainedHolds == AdmissionSpec => []RoomExplained
<1> DEFINE Inv == Typed /\ RoomInv /\ Alone /\ IsFiniteSet(records)
<1>1. AdmissionInit => Inv
  BY TypedInit, StartsRight
<1>2. Inv /\ [AdmissionNext]_admissionVars => Inv'
  BY TypedStep, RoomStep, AloneStep, FiniteStep
<1>3. Inv => RoomExplained
  <2>1. SUFFICES ASSUME Inv PROVE RoomExplained
    OBVIOUS
  <2>2. Room # NoLimit => Limited /\ Room \in Nat
    BY <2>1, AdmissionAssumption DEF Room, Limited, Typed, AdmissionTypeOK, Caps, Desks
  <2>3. /\ Cardinality(records) \in Nat /\ Cardinality(Deciders(desk, req)) \in Nat
        /\ Cardinality(Reqs) \in Nat
    BY <2>1, DecidersFinite, FS_CardinalityType
  <2>4. Room # NoLimit => (Cardinality(records) > Room => excuses \cap {"overlap", "lowered"} # {})
    BY <2>1, <2>2, <2>3 DEF RoomInv, Fresh, OneByOne
  <2>5. Room # NoLimit =>
          ("lowered" \notin excuses => Cardinality(records) < Room + Cardinality(Reqs))
    BY <2>1, <2>2, <2>3 DEF RoomInv, Fresh
  <2>. QED BY <2>1, <2>4, <2>5 DEF RoomInv, OneByOne, RoomExplained
<1>. QED
  <2>. HIDE DEF Inv
  <2>1. Inv => RoomExplained
    BY <1>3
  <2>. QED BY <1>1, <1>2, <2>1, PTL DEF AdmissionSpec

(* A counter of failed logins without its time to live is about to get it,  *)
(* or a command was lost or late; requests side by side raise it past the    *)
(* threshold by fewer than there are of them.                               *)
THEOREM FailuresExplainedHolds == AdmissionSpec => []FailuresExplained
<1> DEFINE Inv == Typed /\ Alone /\ FailsInv
<1>1. AdmissionInit => Inv
  BY TypedInit, StartsRight
<1>2. Inv /\ [AdmissionNext]_admissionVars => Inv'
  BY TypedStep, AloneStep, FailsStep
<1>3. Inv => FailuresExplained
  <2>1. SUFFICES ASSUME Inv PROVE FailuresExplained
    OBVIOUS
  <2>2. /\ Cardinality(Verifying(req)) \in Nat /\ Cardinality(Reqs) \in Nat
        /\ Threshold \in Nat /\ Threshold > 0 /\ fails.count \in Nat
    BY <2>1, VerifyingFinite, AdmissionAssumption DEF Typed, AdmissionTypeOK
  <2>3. CASE desk # "login"
    BY <2>1, <2>2, <2>3 DEF Alone, NoFails, FailuresExplained
  <2>4. CASE desk = "login"
    <3>1. fails.count < Threshold + Cardinality(Reqs)
      BY <2>1, <2>2, <2>4 DEF FailsInv
    <3>. QED BY <2>1, <2>4, <3>1 DEF FailsInv, FailuresExplained
  <2>. QED BY <2>3, <2>4
<1>. QED
  BY <1>1, <1>2, <1>3, PTL DEF AdmissionSpec

------------------------------------------------------------------------------
(* A query that was refused was sent with a token that is not good, and    *)
(* none becomes good again.                                                *)
RefusedDead ==
  \A t \in Tabs :
    line[t]["query"].code = "unauthorized" => line[t]["query"].token \notin Live

SessionInv == SessionTypeOK /\ RefusedDead

LEMMA SessionStarts == SessionInit => SessionInv
<1> SUFFICES ASSUME SessionInit PROVE SessionInv
  OBVIOUS
<1> USE SessionAssumption
<1>1. Quiet \in LineStates
  BY DEF SessionInit, Quiet, LineStates, Asks, Codes, NoToken
<1>2. SessionTypeOK
  BY <1>1 DEF SessionInit, SessionTypeOK, NoToken
<1>3. RefusedDead
  BY DEF SessionInit, RefusedDead, Quiet, Lines
<1> QED BY <1>2, <1>3 DEF SessionInv

(* What a tab may have on a line. *)
LEMMA QuietTyped ==
  ASSUME SessionTypeOK
  PROVE  Quiet \in LineStates /\ Quiet.code = "ok" /\ 0 \in 0..issued
BY SessionAssumption DEF SessionTypeOK, Quiet, LineStates, Asks, Codes, NoToken

LEMMA AskedTyped ==
  ASSUME SessionTypeOK, NEW a \in Asks, NEW n \in 0..issued, NEW r \in BOOLEAN
  PROVE  Asked(a, n, r) \in LineStates /\ Asked(a, n, r).code = "ok"
<1> DEFINE q0 == [Quiet EXCEPT !.at = "sent"]
           q1 == [q0 EXCEPT !.asks = a]
           q2 == [q1 EXCEPT !.token = n]
           q3 == [q2 EXCEPT !.right = r]
<1>1. q0 \in LineStates /\ q0.code = "ok"
  BY QuietTyped DEF LineStates
<1>2. Asked(a, n, r) = q3
  BY Zenon DEF Asked
<1> HIDE DEF q0
<1>3. q1 \in LineStates /\ q1.code = "ok"
  BY <1>1 DEF LineStates
<1> HIDE DEF q1
<1>4. q2 \in LineStates /\ q2.code = "ok"
  BY <1>3 DEF LineStates
<1> HIDE DEF q2
<1>5. q3 \in LineStates /\ q3.code = "ok"
  BY <1>4 DEF LineStates
<1> HIDE DEF q3
<1> QED BY <1>2, <1>5

(* Tokens are issued and lapse, and that is all. *)
TokensGrow == issued' \in Nat /\ issued <= issued' /\ lapsed \subseteq lapsed'

LEMMA DeadStays ==
  ASSUME SessionTypeOK, TokensGrow
  PROVE  /\ LineStates \subseteq LineStates'
         /\ \A n \in 0..issued : n \notin Live => n \notin Live'
<1>1. 0..issued \subseteq 0..issued'
  BY SessionAssumption DEF SessionTypeOK, TokensGrow
<1>2. LineStates \subseteq LineStates'
  BY <1>1 DEF LineStates
<1>3. \A n \in 0..issued : n \notin Live => n \notin Live'
  BY SessionAssumption DEF SessionTypeOK, TokensGrow, Live
<1> QED BY <1>2, <1>3

LEMMA LineTyped ==
  ASSUME SessionTypeOK, NEW t \in Tabs, NEW l \in Lines
  PROVE  line[t][l] \in LineStates
BY DEF SessionTypeOK

(* Every line is as it was or is one that keeps the rule. *)
LEMMA LinesKeep ==
  ASSUME SessionInv, TokensGrow,
         line' \in [Tabs -> [Lines -> LineStates']],
         \A u \in Tabs : \/ line'[u]["query"] = line[u]["query"]
                         \/ line'[u]["query"].code # "unauthorized"
                         \/ line'[u]["query"].token \notin Live'
  PROVE  RefusedDead'
<1> SUFFICES ASSUME NEW u \in Tabs, line'[u]["query"].code = "unauthorized"
             PROVE  line'[u]["query"].token \notin Live'
  BY DEF RefusedDead
<1>1. CASE line'[u]["query"] = line[u]["query"]
  <2>1. line[u]["query"] \in LineStates
    BY LineTyped DEF SessionInv, Lines
  <2>2. line[u]["query"].token \in 0..issued
    BY <2>1 DEF LineStates
  <2>3. line[u]["query"].token \notin Live
    BY <1>1 DEF SessionInv, RefusedDead
  <2> QED BY <1>1, <2>2, <2>3, DeadStays DEF SessionInv
<1> QED BY <1>1

(* One line of one tab changes. *)
LEMMA OneLine ==
  ASSUME SessionInv, TokensGrow, NEW t \in Tabs, NEW l \in Lines, NEW s \in LineStates',
         l = "query" => (s.code = "unauthorized" => s.token \notin Live'),
         line' = [line EXCEPT ![t][l] = s]
  PROVE  line' \in [Tabs -> [Lines -> LineStates']] /\ RefusedDead'
<1>1. line \in [Tabs -> [Lines -> LineStates']] /\ "query" \in Lines
  BY DeadStays DEF SessionInv, SessionTypeOK, Lines
<1>2. line' \in [Tabs -> [Lines -> LineStates']]
  BY <1>1
<1>3. \A u \in Tabs : line'[u]["query"] = IF u = t /\ l = "query" THEN s ELSE line[u]["query"]
  BY <1>1
<1> QED BY <1>2, <1>3, LinesKeep

LEMMA RespondLine ==
  ASSUME SessionTypeOK, NEW t \in Tabs, NEW l \in Lines, NEW code, NEW gift,
         Respond(t, l, code, gift)
  PROVE  line' = [line EXCEPT ![t][l] = [at |-> "answered", asks |-> line[t][l].asks,
                    token |-> line[t][l].token, right |-> line[t][l].right,
                    code |-> code, gift |-> gift]]
<1>1. line[t][l] \in LineStates
  BY LineTyped
<1> DEFINE r == line[t][l]
           r1 == [r EXCEPT !.at = "answered"]
           r2 == [r1 EXCEPT !.code = code]
           s == [r2 EXCEPT !.gift = gift]
<1>a. r = [at |-> r.at, asks |-> r.asks, token |-> r.token, right |-> r.right,
           code |-> r.code, gift |-> r.gift]
  BY <1>1 DEF LineStates
<1> HIDE DEF r
<1>b. r1 = [at |-> "answered", asks |-> r.asks, token |-> r.token, right |-> r.right,
           code |-> r.code, gift |-> r.gift]
  BY <1>a
<1> HIDE DEF r1
<1>c. r2 = [at |-> "answered", asks |-> r.asks, token |-> r.token, right |-> r.right,
           code |-> code, gift |-> r.gift]
  BY <1>b
<1> HIDE DEF r2
<1>2. s = [at |-> "answered", asks |-> line[t][l].asks, token |-> line[t][l].token,
           right |-> line[t][l].right, code |-> code, gift |-> gift]
  BY <1>c DEF r
<1>3. line \in [Tabs -> [Lines -> LineStates]]
  BY DEF SessionTypeOK
<1>4. line' = [line EXCEPT ![t] = [line[t] EXCEPT ![l] = s]]
  BY <1>3, Zenon DEF Respond, r2, r1, r
<1> QED BY <1>2, <1>3, <1>4

LEMMA RespondKeeps ==
  ASSUME SessionInv, TokensGrow, NEW t \in Tabs, NEW l \in Lines, NEW code \in Codes,
         NEW gift \in 0..issued', Respond(t, l, code, gift),
         l = "query" => (code = "unauthorized" => line[t][l].token \notin Live')
  PROVE  line' \in [Tabs -> [Lines -> LineStates']] /\ RefusedDead'
<1> DEFINE s == [at |-> "answered", asks |-> line[t][l].asks,
                 token |-> line[t][l].token, right |-> line[t][l].right,
                 code |-> code, gift |-> gift]
<1>1. line[t][l] \in LineStates'
  BY LineTyped, DeadStays DEF SessionInv
<1>2. s \in LineStates'
  BY <1>1 DEF LineStates
<1>3. line' = [line EXCEPT ![t][l] = s]
  BY RespondLine DEF SessionInv
<1>4. s.code = code /\ s.token = line[t][l].token
  OBVIOUS
<1> HIDE DEF s
<1> QED BY <1>2, <1>3, <1>4, OneLine

LEMMA TokensStay ==
  ASSUME SessionTypeOK, UNCHANGED <<issued, lapsed>>
  PROVE  TokensGrow /\ Live' = Live /\ LineStates' = LineStates
BY SessionAssumption DEF SessionTypeOK, TokensGrow, Live, LineStates

------------------------------------------------------------------------------
(* The panel answers. *)
LEMMA TurnAwayInv ==
  ASSUME SessionInv, NEW t \in Tabs, NEW l \in Lines, TurnAway(t, l)
  PROVE  SessionInv'
<1> USE SessionAssumption
<1>0. TokensGrow /\ 0 \in 0..issued'
  BY TokensStay DEF SessionInv, TurnAway, SessionTypeOK
<1>1. line' \in [Tabs -> [Lines -> LineStates']] /\ RefusedDead'
  BY <1>0, RespondKeeps DEF TurnAway, Codes, NoToken
<1> QED BY <1>1 DEF SessionInv, SessionTypeOK, TurnAway

LEMMA HandleQueryInv ==
  ASSUME SessionInv, NEW t \in Tabs, HandleQuery(t)
  PROVE  SessionInv'
<1> USE SessionAssumption
<1>0. TokensGrow /\ Live' = Live /\ 0 \in 0..issued' /\ "query" \in Lines
  BY TokensStay DEF SessionInv, HandleQuery, SessionTypeOK, Lines
<1> DEFINE code == IF line[t]["query"].token \in Live THEN "ok" ELSE "unauthorized"
<1>1. code \in Codes /\ (code = "unauthorized" => line[t]["query"].token \notin Live)
  BY DEF Codes
<1>2. Respond(t, "query", code, 0)
  BY DEF HandleQuery, NoToken
<1> HIDE DEF code
<1>3. line' \in [Tabs -> [Lines -> LineStates']] /\ RefusedDead'
  BY <1>0, <1>1, <1>2, RespondKeeps
<1> QED BY <1>3 DEF SessionInv, SessionTypeOK, HandleQuery

LEMMA HandleStatusInv ==
  ASSUME SessionInv, NEW t \in Tabs, HandleStatus(t)
  PROVE  SessionInv'
<1> USE SessionAssumption
<1>0. TokensGrow /\ 0 \in 0..issued' /\ "status" \in Lines
  BY TokensStay DEF SessionInv, HandleStatus, SessionTypeOK, Lines
<1> DEFINE code == IF admin THEN "closed" ELSE "open"
<1>1. code \in Codes /\ Respond(t, "status", code, 0)
  BY DEF Codes, HandleStatus, NoToken
<1> HIDE DEF code
<1>3. line' \in [Tabs -> [Lines -> LineStates']] /\ RefusedDead'
  BY <1>0, <1>1, RespondKeeps
<1> QED BY <1>3 DEF SessionInv, SessionTypeOK, HandleStatus

LEMMA HandleRegisterInv ==
  ASSUME SessionInv, NEW t \in Tabs, HandleRegister(t)
  PROVE  SessionInv'
<1> USE SessionAssumption
<1>0. TokensGrow /\ 0 \in 0..issued' /\ "sign" \in Lines
  BY TokensStay DEF SessionInv, HandleRegister, SessionTypeOK, Lines
<1> DEFINE code == IF admin THEN "forbidden" ELSE "created"
<1>1. code \in Codes /\ Respond(t, "sign", code, 0)
  BY DEF Codes, HandleRegister, NoToken
<1> HIDE DEF code
<1>3. line' \in [Tabs -> [Lines -> LineStates']] /\ RefusedDead'
  BY <1>0, <1>1, RespondKeeps
<1> QED BY <1>3 DEF SessionInv, SessionTypeOK, HandleRegister

LEMMA Wider ==
  ASSUME SessionTypeOK, TokensGrow, issued' \in 0..MaxTokens,
         UNCHANGED <<admin, stored, view, door, moves>>,
         lapsed' \subseteq 1..issued',
         line' \in [Tabs -> [Lines -> LineStates']]
  PROVE  SessionTypeOK'
<1>1. 0..issued \subseteq 0..issued'
  BY SessionAssumption DEF SessionTypeOK, TokensGrow
<1>2. stored' \in 0..issued' /\ view' \in [Tabs -> [page : {"login", "app"}, token : 0..issued',
                        status : {"loading", "unknown", "open", "closed"}]]
  BY <1>1 DEF SessionTypeOK
<1> QED BY <1>2 DEF SessionTypeOK

LEMMA HandleLoginInv ==
  ASSUME SessionInv, NEW t \in Tabs, HandleLogin(t)
  PROVE  SessionInv'
<1> USE SessionAssumption
<1>1. CASE admin /\ line[t]["sign"].right
  <2>1. issued' = issued + 1 /\ issued < MaxTokens /\ UNCHANGED lapsed
        /\ Respond(t, "sign", "ok", issued')
    BY <1>1 DEF HandleLogin
  <2>2. TokensGrow /\ issued' \in 0..issued' /\ issued' \in 0..MaxTokens
        /\ lapsed' \subseteq 1..issued' /\ "sign" \in Lines /\ "ok" \in Codes
    BY <2>1 DEF SessionInv, SessionTypeOK, TokensGrow, Lines, Codes
  <2>3. line' \in [Tabs -> [Lines -> LineStates']] /\ RefusedDead'
    BY <2>1, <2>2, RespondKeeps
  <2> QED BY <2>2, <2>3, Wider DEF SessionInv, HandleLogin
<1>2. CASE ~ (admin /\ line[t]["sign"].right)
  <2>1. TokensGrow /\ 0 \in 0..issued' /\ "sign" \in Lines /\ "unauthorized" \in Codes
    BY <1>2, TokensStay DEF SessionInv, HandleLogin, SessionTypeOK, Lines, Codes
  <2>2. Respond(t, "sign", "unauthorized", 0)
    BY <1>2 DEF HandleLogin, NoToken
  <2>3. line' \in [Tabs -> [Lines -> LineStates']] /\ RefusedDead'
    BY <2>1, <2>2, RespondKeeps
  <2> QED BY <1>2, <2>3 DEF SessionInv, SessionTypeOK, HandleLogin
<1> QED BY <1>1, <1>2

------------------------------------------------------------------------------
(* A tab takes an answer, asks or is loaded. *)
SessionPage == [page : {"login", "app"}, token : 0..issued,
                status : {"loading", "unknown", "open", "closed"}]

(* The lines of one tab change. *)
LEMMA TabLines ==
  ASSUME SessionInv, UNCHANGED <<issued, lapsed>>, NEW t \in Tabs,
         NEW ls \in [Lines -> LineStates],
         ls["query"] = line[t]["query"] \/ ls["query"].code # "unauthorized",
         line' = [line EXCEPT ![t] = ls]
  PROVE  line' \in [Tabs -> [Lines -> LineStates']] /\ RefusedDead'
<1>1. TokensGrow /\ LineStates' = LineStates
  BY TokensStay DEF SessionInv
<1>2. line \in [Tabs -> [Lines -> LineStates']]
  BY <1>1 DEF SessionInv, SessionTypeOK
<1>3. line' \in [Tabs -> [Lines -> LineStates']]
  BY <1>1, <1>2
<1>4. \A u \in Tabs : line'[u]["query"] = IF u = t THEN ls["query"] ELSE line[u]["query"]
  BY <1>2
<1> QED BY <1>1, <1>3, <1>4, LinesKeep

(* A step of the browser: the page and the lines of a tab, the shared copy. *)
LEMMA TabStep ==
  ASSUME SessionInv, NEW t \in Tabs, UNCHANGED <<admin, issued, lapsed, door>>,
         moves' \in 0..MaxMoves, stored' \in 0..issued,
         NEW v \in SessionPage, view' = [view EXCEPT ![t] = v],
         NEW ls \in [Lines -> LineStates],
         ls["query"] = line[t]["query"] \/ ls["query"].code # "unauthorized",
         line' = [line EXCEPT ![t] = ls]
  PROVE  SessionInv'
<1>1. line' \in [Tabs -> [Lines -> LineStates']] /\ RefusedDead'
  BY TabLines
<1>2. view' \in [Tabs -> SessionPage]
  BY DEF SessionInv, SessionTypeOK, SessionPage
<1> QED BY <1>1, <1>2 DEF SessionInv, SessionTypeOK, SessionPage

LEMMA TabTyped ==
  ASSUME SessionTypeOK, NEW t \in Tabs
  PROVE  /\ view = [view EXCEPT ![t] = view[t]] /\ view[t] \in SessionPage
         /\ line = [line EXCEPT ![t] = line[t]] /\ line[t] \in [Lines -> LineStates]
BY DEF SessionTypeOK, SessionPage

LEMMA MoveTyped ==
  ASSUME SessionTypeOK, Move PROVE moves' \in 0..MaxMoves
BY SessionAssumption DEF SessionTypeOK, Move

LEMMA LookingTyped ==
  ASSUME SessionTypeOK, NEW t \in Tabs
  PROVE  Looking(t) \in LineStates
<1>1. "status" \in Asks /\ NoToken \in 0..issued /\ "status" \in Lines
  BY SessionAssumption DEF SessionTypeOK, Asks, NoToken, Lines
<1> QED BY <1>1, AskedTyped, LineTyped DEF Looking

LEMMA ToLoginTyped ==
  ASSUME SessionTypeOK, NEW v \in SessionPage
  PROVE  ToLogin(v) \in SessionPage
<1> DEFINE v1 == [v EXCEPT !.token = 0]
           v2 == [v1 EXCEPT !.page = "login"]
           s == IF v.page = "app" THEN Expecting(v.status) ELSE v.status
<1>1. 0 \in 0..issued
  BY SessionAssumption DEF SessionTypeOK
<1>2. v1 \in SessionPage /\ v1.status = v.status
  BY <1>1 DEF SessionPage
<1>3. v2 \in SessionPage /\ v2.status = v.status
  BY <1>2 DEF SessionPage
<1>4. s \in {"loading", "unknown", "open", "closed"}
  BY DEF SessionPage, Expecting
<1>5. ToLogin(v) = [v2 EXCEPT !.status = s]
  BY DEF ToLogin, NoToken, SessionPage
<1> HIDE DEF v1, v2, s
<1> QED BY <1>3, <1>4, <1>5 DEF SessionPage

LEMMA ClearInv ==
  ASSUME SessionInv, NEW t \in Tabs, NEW l \in Lines, Clear(t, l),
         UNCHANGED <<admin, issued, lapsed, door, moves>>
  PROVE  SessionInv'
<1> DEFINE to == IF view[t].page = "app" THEN "status" ELSE l
           what == IF view[t].page = "app" THEN Looking(t) ELSE Quiet
           l1 == [line[t] EXCEPT ![l] = Quiet]
           ls == [l1 EXCEPT ![to] = what]
<1>1. Quiet \in LineStates /\ Quiet.code = "ok" /\ Looking(t) \in LineStates
      /\ view[t] \in SessionPage /\ line[t] \in [Lines -> LineStates]
  BY QuietTyped, LookingTyped, TabTyped DEF SessionInv
<1>2. l1 \in [Lines -> LineStates] /\ (l1["query"] = line[t]["query"] \/ l1["query"] = Quiet)
  BY <1>1 DEF Lines
<1>3. what \in LineStates /\ to \in Lines
      /\ (to = "query" => what = Quiet)
  BY <1>1 DEF Lines
<1>4. line' = [line EXCEPT ![t] = ls]
  BY Zenon DEF Clear, SessionInv, SessionTypeOK
<1>5. view' = [view EXCEPT ![t] = ToLogin(view[t])]
  BY DEF Clear
<1> HIDE DEF l1, to, what
<1>6. ls \in [Lines -> LineStates] /\ (ls["query"] = l1["query"] \/ ls["query"] = Quiet)
  BY <1>2, <1>3 DEF Lines
<1> HIDE DEF ls
<1>7. ls["query"] = line[t]["query"] \/ ls["query"].code # "unauthorized"
  BY <1>1, <1>2, <1>6
<1>8. ToLogin(view[t]) \in SessionPage
  BY <1>1, ToLoginTyped DEF SessionInv
<1>9. stored' \in 0..issued /\ moves' \in 0..MaxMoves
  BY SessionAssumption DEF Clear, SessionInv, SessionTypeOK, NoToken
<1> QED BY <1>4, <1>5, <1>6, <1>7, <1>8, <1>9, TabStep

(* One line of a tab becomes what is no refusal. *)
LEMMA LineStep ==
  ASSUME SessionInv, NEW t \in Tabs, UNCHANGED <<admin, issued, lapsed, door>>,
         moves' \in 0..MaxMoves, stored' \in 0..issued,
         NEW v \in SessionPage, view' = [view EXCEPT ![t] = v],
         NEW l \in Lines, NEW s \in LineStates,
         s.code # "unauthorized", line' = [line EXCEPT ![t][l] = s]
  PROVE  SessionInv'
<1> DEFINE ls == [line[t] EXCEPT ![l] = s]
<1>1. line[t] \in [Lines -> LineStates] /\ "query" \in Lines
  BY TabTyped DEF SessionInv, Lines
<1>2. line' = [line EXCEPT ![t] = ls]
  BY Zenon DEF SessionInv, SessionTypeOK
<1>3. /\ ls \in [Lines -> LineStates]
      /\ ls["query"] = line[t]["query"] \/ ls["query"].code # "unauthorized"
  BY <1>1
<1> HIDE DEF ls
<1> QED BY <1>2, <1>3, TabStep

LEMMA HangInv ==
  ASSUME SessionInv, NEW t \in Tabs, UNCHANGED <<admin, issued, lapsed, door, moves>>,
         stored' \in 0..issued, NEW v \in SessionPage, view' = [view EXCEPT ![t] = v],
         NEW l \in Lines, Hang(t, l)
  PROVE  SessionInv'
<1>1. Quiet \in LineStates /\ Quiet.code # "unauthorized" /\ moves' \in 0..MaxMoves
  BY QuietTyped DEF SessionInv, SessionTypeOK
<1> QED BY <1>1, LineStep DEF Hang

LEMMA StayStep ==
  ASSUME SessionTypeOK, NEW t \in Tabs
  PROVE  /\ UNCHANGED view => view' = [view EXCEPT ![t] = view[t]]
         /\ UNCHANGED stored => stored' \in 0..issued
         /\ view[t] \in SessionPage
BY TabTyped DEF SessionTypeOK

LEMMA ReceiveQueryInv ==
  ASSUME SessionInv, NEW t \in Tabs, ReceiveQuery(t)
  PROVE  SessionInv'
<1>0. "query" \in Lines
  BY DEF Lines
<1>1. CASE EndsSession(line[t]["query"].code)
  BY <1>0, <1>1, ClearInv DEF ReceiveQuery
<1>2. CASE ~ EndsSession(line[t]["query"].code)
  BY <1>0, <1>2, HangInv, StayStep DEF ReceiveQuery, SessionInv
<1> QED BY <1>1, <1>2

LEMMA SignInFailsInv ==
  ASSUME SessionInv, NEW t \in Tabs, SignInFails(t)
  PROVE  SessionInv'
<1>0. "sign" \in Lines
  BY DEF Lines
<1>1. CASE EndsSession(line[t]["sign"].code)
  BY <1>0, <1>1, ClearInv DEF SignInFails
<1>2. CASE ~ EndsSession(line[t]["sign"].code)
  BY <1>0, <1>2, HangInv, StayStep DEF SignInFails, SessionInv
<1> QED BY <1>1, <1>2

LEMMA StatusTyped ==
  ASSUME SessionTypeOK, NEW t \in Tabs,
         NEW s \in {"loading", "unknown", "open", "closed"}
  PROVE  [view[t] EXCEPT !.status = s] \in SessionPage
BY DEF SessionTypeOK, SessionPage

LEMMA ReceiveStatusInv ==
  ASSUME SessionInv, NEW t \in Tabs, ReceiveStatus(t)
  PROVE  SessionInv'
<1> DEFINE s == Learned(view[t].status, line[t]["status"].code)
<1>0. "status" \in Lines
  BY DEF Lines
<1>1. s \in {"loading", "unknown", "open", "closed"}
  BY TabTyped DEF Learned, SessionInv, SessionPage
<1>2. view' = [view EXCEPT ![t] = [view[t] EXCEPT !.status = s]]
  BY Zenon DEF ReceiveStatus, SessionInv, SessionTypeOK
<1> HIDE DEF s
<1> QED BY <1>0, <1>1, <1>2, HangInv, StayStep, StatusTyped DEF ReceiveStatus, SessionInv

LEMMA LoseRequestInv ==
  ASSUME SessionInv, NEW t \in Tabs, NEW l \in Lines, LoseRequest(t, l)
  PROVE  SessionInv'
<1> DEFINE s == IF l = "status" THEN Learned(view[t].status, "forbidden") ELSE view[t].status
<1>1. s \in {"loading", "unknown", "open", "closed"}
  BY TabTyped DEF Learned, SessionInv, SessionPage
<1>2. view' = [view EXCEPT ![t] = [view[t] EXCEPT !.status = s]]
  BY Zenon DEF LoseRequest, SessionInv, SessionTypeOK
<1> HIDE DEF s
<1> QED BY <1>1, <1>2, HangInv, StayStep, StatusTyped DEF LoseRequest, SessionInv

LEMMA GoOnInv ==
  ASSUME SessionInv, NEW t \in Tabs, GoOn(t)
  PROVE  SessionInv'
<1> DEFINE s == Asked("login", NoToken, TRUE)
<1>1. "sign" \in Lines /\ s \in LineStates /\ s.code # "unauthorized" /\ moves' \in 0..MaxMoves
  BY AskedTyped, QuietTyped DEF Lines, Asks, GoOn, SessionInv, SessionTypeOK, NoToken
<1>2. line' = [line EXCEPT ![t]["sign"] = s]
  BY DEF GoOn
<1>3. UNCHANGED <<admin, issued, lapsed, stored, view, door>>
  BY DEF GoOn
<1> HIDE DEF s
<1> QED BY <1>1, <1>2, <1>3, LineStep, StayStep DEF SessionInv

LEMMA SignInInv ==
  ASSUME SessionInv, NEW t \in Tabs, SignIn(t)
  PROVE  SessionInv'
<1> DEFINE n == line[t]["sign"].gift
           v1 == [view[t] EXCEPT !.token = n]
           v == [v1 EXCEPT !.page = "app"]
<1>1. "sign" \in Lines /\ n \in 0..issued /\ view[t] \in SessionPage
  BY LineTyped, TabTyped DEF Lines, LineStates, SessionInv
<1>2. view' = [view EXCEPT ![t] = v]
  BY Zenon DEF SignIn, SessionInv, SessionTypeOK
<1>3. stored' \in 0..issued
  BY <1>1 DEF SignIn
<1> HIDE DEF n
<1>4. v1 \in SessionPage
  BY <1>1 DEF SessionPage
<1> HIDE DEF v1
<1>5. v \in SessionPage
  BY <1>4 DEF SessionPage
<1> HIDE DEF v
<1> QED BY <1>1, <1>2, <1>3, <1>5, HangInv DEF SignIn

LEMMA QueryInv ==
  ASSUME SessionInv, NEW t \in Tabs, Query(t)
  PROVE  SessionInv'
<1> DEFINE s == Asked("query", view[t].token, FALSE)
<1>1. "query" \in Lines /\ s \in LineStates /\ s.code # "unauthorized" /\ moves' \in 0..MaxMoves
  BY AskedTyped, TabTyped, MoveTyped DEF Lines, Asks, Query, SessionInv, SessionPage
<1>2. line' = [line EXCEPT ![t]["query"] = s]
  BY DEF Query
<1>3. UNCHANGED <<admin, issued, lapsed, stored, view, door>>
  BY DEF Query
<1> HIDE DEF s
<1> QED BY <1>1, <1>2, <1>3, LineStep, StayStep DEF SessionInv

LEMMA LookAgainInv ==
  ASSUME SessionInv, NEW t \in Tabs, LookAgain(t)
  PROVE  SessionInv'
<1> DEFINE s == Asked("status", NoToken, FALSE)
           e == Expecting(view[t].status)
<1>1. "status" \in Lines /\ s \in LineStates /\ s.code # "unauthorized" /\ moves' \in 0..MaxMoves
  BY AskedTyped, QuietTyped, MoveTyped DEF Lines, Asks, LookAgain, SessionInv, NoToken
<1>2. e \in {"loading", "unknown", "open", "closed"}
  BY TabTyped DEF Expecting, SessionInv, SessionPage
<1>3. view' = [view EXCEPT ![t] = [view[t] EXCEPT !.status = e]]
  BY Zenon DEF LookAgain, SessionInv, SessionTypeOK
<1>4. line' = [line EXCEPT ![t]["status"] = s]
  BY DEF LookAgain
<1>5. UNCHANGED <<admin, issued, lapsed, stored, door>>
  BY DEF LookAgain
<1> HIDE DEF s, e
<1> QED BY <1>1, <1>2, <1>3, <1>4, <1>5, LineStep, StayStep, StatusTyped DEF SessionInv

LEMMA SubmitSignInInv ==
  ASSUME SessionInv, NEW t \in Tabs, SubmitSignIn(t)
  PROVE  SessionInv'
<1>1. PICK right \in BOOLEAN :
        line' = [line EXCEPT ![t]["sign"] =
                  Asked(IF view[t].status = "open" THEN "register" ELSE "login",
                        NoToken, right)]
  BY DEF SubmitSignIn
<1> DEFINE a == IF view[t].status = "open" THEN "register" ELSE "login"
           s == Asked(a, NoToken, right)
<1>2. a \in Asks
  BY DEF Asks
<1>3. line' = [line EXCEPT ![t]["sign"] = s]
  BY <1>1
<1> HIDE DEF a
<1>4. "sign" \in Lines /\ s \in LineStates /\ s.code # "unauthorized" /\ moves' \in 0..MaxMoves
  BY <1>2, AskedTyped, QuietTyped, MoveTyped DEF Lines, SubmitSignIn, SessionInv, NoToken
<1> HIDE DEF s
<1> QED BY <1>3, <1>4, LineStep, StayStep DEF SubmitSignIn, SessionInv

LEMMA LogoutInv ==
  ASSUME SessionInv, NEW t \in Tabs, Logout(t)
  PROVE  SessionInv'
<1>1. "status" \in Lines /\ Looking(t) \in LineStates
      /\ moves' \in 0..MaxMoves /\ stored' \in 0..issued /\ ToLogin(view[t]) \in SessionPage
      /\ line[t] \in [Lines -> LineStates]
  BY LookingTyped, QuietTyped, MoveTyped, TabTyped, ToLoginTyped
  DEF Lines, Logout, SessionInv, NoToken
<1> DEFINE ls == [line[t] EXCEPT !["status"] = Looking(t)]
<1>2. ls \in [Lines -> LineStates] /\ ls["query"] = line[t]["query"]
  BY <1>1 DEF Lines
<1>3. line' = [line EXCEPT ![t] = ls] /\ view' = [view EXCEPT ![t] = ToLogin(view[t])]
  BY Zenon DEF Logout, SessionInv, SessionTypeOK
<1> HIDE DEF ls
<1> QED BY <1>1, <1>2, <1>3, TabStep DEF Logout

LEMMA LoadInv ==
  ASSUME SessionInv, NEW t \in Tabs, Load(t)
  PROVE  SessionInv'
<1>1. PICK page \in {"login"} \cup (IF stored # NoToken THEN {"app"} ELSE {}) :
       /\ view' = [view EXCEPT ![t] = [page |-> page, token |-> stored, status |-> "loading"]]
       /\ line' = [line EXCEPT ![t] = [k \in Lines |->
                     IF k = "status" /\ page = "login" THEN Asked("status", NoToken, FALSE)
                     ELSE Quiet]]
  BY DEF Load
<1> DEFINE v == [page |-> page, token |-> stored, status |-> "loading"]
           ls == [k \in Lines |->
                     IF k = "status" /\ page = "login" THEN Asked("status", NoToken, FALSE)
                     ELSE Quiet]
<1>2. v \in SessionPage
  BY DEF SessionPage, SessionInv, SessionTypeOK
<1>3. Asked("status", NoToken, FALSE) \in LineStates /\ Quiet \in LineStates
      /\ Quiet.code # "unauthorized" /\ moves' \in 0..MaxMoves /\ stored' \in 0..issued
  BY AskedTyped, QuietTyped, MoveTyped DEF Asks, SessionInv, NoToken, Load, SessionTypeOK
<1>4. ls \in [Lines -> LineStates] /\ ls["query"].code # "unauthorized"
  BY <1>3 DEF Lines
<1>5. view' = [view EXCEPT ![t] = v] /\ line' = [line EXCEPT ![t] = ls]
  BY <1>1
<1> HIDE DEF v, ls
<1> QED BY <1>2, <1>3, <1>4, <1>5, TabStep DEF Load

LEMMA LapseInv ==
  ASSUME SessionInv, Lapse
  PROVE  SessionInv'
<1> USE SessionAssumption
<1>1. PICK n \in Live : lapsed' = lapsed \cup {n}
  BY DEF Lapse
<1>2. TokensGrow /\ lapsed' \subseteq 1..issued /\ issued' = issued
  BY <1>1 DEF Lapse, SessionInv, SessionTypeOK, TokensGrow, Live
<1>3. line' \in [Tabs -> [Lines -> LineStates']]
  BY <1>2, DeadStays DEF Lapse, SessionInv, SessionTypeOK
<1>4. RefusedDead'
  BY <1>2, <1>3, LinesKeep DEF Lapse
<1> QED BY <1>2, <1>3, <1>4, MoveTyped DEF Lapse, SessionInv, SessionTypeOK

LEMMA TurnInv ==
  ASSUME SessionInv, NEW from, NEW to \in SUBSET {"open", "abroad", "listed"}, Turn(from, to)
  PROVE  SessionInv'
<1>1. TokensGrow /\ LineStates' = LineStates
  BY TokensStay DEF Turn, SessionInv
<1>2. line' \in [Tabs -> [Lines -> LineStates']]
  BY <1>1 DEF Turn, SessionInv, SessionTypeOK
<1>3. RefusedDead'
  BY <1>1, <1>2, LinesKeep DEF Turn
<1> QED BY <1>2, <1>3, MoveTyped DEF Turn, SessionInv, SessionTypeOK

(* What a tab does, or is answered. *)
TabMoves(t) ==
  \/ \E l \in Lines : TurnAway(t, l) \/ LoseRequest(t, l)
  \/ HandleQuery(t) \/ HandleStatus(t) \/ HandleRegister(t) \/ HandleLogin(t)
  \/ ReceiveQuery(t) \/ ReceiveStatus(t) \/ GoOn(t) \/ SignIn(t) \/ SignInFails(t)
  \/ Query(t) \/ LookAgain(t) \/ SubmitSignIn(t) \/ Logout(t) \/ Load(t)

WorldMoves == Lapse \/ Trap \/ Pardon \/ Travel

LEMMA MovesOf == SessionNext => WorldMoves \/ \E t \in Tabs : TabMoves(t)
BY DEF SessionNext, TabMoves, WorldMoves

LEMMA SessionSteps == SessionInv /\ [SessionNext]_sessionVars => SessionInv'
<1> SUFFICES ASSUME SessionInv, [SessionNext]_sessionVars PROVE SessionInv'
  OBVIOUS
<1>1. ASSUME NEW t \in Tabs,
             TabMoves(t)
      PROVE  SessionInv'
  BY <1>1, TurnAwayInv, LoseRequestInv, HandleQueryInv, HandleStatusInv, HandleRegisterInv,
     HandleLoginInv, ReceiveQueryInv, ReceiveStatusInv, GoOnInv, SignInInv, SignInFailsInv,
     QueryInv, LookAgainInv, SubmitSignInInv, LogoutInv, LoadInv DEF TabMoves
<1>2. CASE Lapse
  BY <1>2, LapseInv
<1>3. CASE Trap \/ Pardon \/ Travel
  BY <1>3, TurnInv DEF Trap, Pardon, Travel
<1>4. CASE UNCHANGED sessionVars
  <2>1. LineStates' = LineStates /\ Live' = Live
    BY <1>4, TokensStay DEF sessionVars, SessionInv
  <2>2. RefusedDead'
    BY <1>4, <2>1 DEF sessionVars, SessionInv, RefusedDead
  <2> QED BY <1>4, <2>1, <2>2 DEF sessionVars, SessionInv, SessionTypeOK
<1> QED BY <1>1, <1>2, <1>3, <1>4, MovesOf DEF WorldMoves

LEMMA SessionInvHolds == SessionSpec => []SessionInv
BY SessionStarts, SessionSteps, PTL DEF SessionSpec

(* The tokens and pages of the tabs, the requests under way and the        *)
(* counters are always of their types.                                     *)
THEOREM SessionTypeCorrect == SessionSpec => []SessionTypeOK
<1>1. SessionInv => SessionTypeOK
  BY DEF SessionInv
<1> QED BY <1>1, SessionInvHolds, PTL

------------------------------------------------------------------------------
(* A tab gives up the token it has. *)

(* A page is left with its token but where it says so. *)
LEMMA PageStays ==
  ASSUME SessionTypeOK, NEW t \in Tabs, NEW u \in Tabs, NEW v,
         view' = [view EXCEPT ![t] = v], u # t \/ v.token = view[u].token
  PROVE  view'[u].token = view[u].token
BY DEF SessionTypeOK

(* A session ends with an answer only if the answer is a refusal, which    *)
(* the tab takes; one to a query with the token it has says the token is   *)
(* not good.                                                               *)
LEMMA ClearedLine ==
  ASSUME SessionInv, NEW t \in Tabs, NEW l \in {"query", "sign"}, Clear(t, l),
         Comes(t, l), EndsSession(line[t][l].code), view[t].token \in Live
  PROVE  Overtaken(t)
<1>1. line'[t][l] = Quiet
  <2>1. line'[t] = [line[t] EXCEPT ![l] = Quiet,
                ![IF view[t].page = "app" THEN "status" ELSE l] =
                  IF view[t].page = "app" THEN Looking(t) ELSE Quiet]
    BY DEF Clear, SessionInv, SessionTypeOK
  <2> QED BY <2>1, TabTyped DEF SessionInv, Lines
<1>2. l = "query" => line[t][l].token # view[t].token
  BY DEF EndsSession, SessionInv, RefusedDead
<1> QED BY <1>1, <1>2 DEF EndsSession, Overtaken

LEMMA ClearElsewhere ==
  ASSUME SessionInv, NEW t \in Tabs, NEW u \in Tabs, NEW l, Clear(t, l),
         view'[u].token # view[u].token
  PROVE  u = t
BY DEF Clear, SessionInv, SessionTypeOK

KeptBy(t) ==
  view[t].token \in Live /\ view'[t].token # view[t].token =>
    \/ Logout(t) \/ SignIn(t) \/ Overtaken(t)
    \/ Load(t) /\ stored # view[t].token

LEMMA TabKept ==
  ASSUME SessionInv, NEW t \in Tabs, NEW u \in Tabs,
         view[u].token \in Live, view'[u].token # view[u].token,
             TabMoves(t)
  PROVE  \/ Logout(u) \/ SignIn(u) \/ Overtaken(u)
         \/ Load(u) /\ stored # view[u].token
<1> USE DEF SessionInv
<1>0. view \in [Tabs -> SessionPage]
  BY DEF SessionTypeOK, SessionPage
<1>1. CASE \/ \E l \in Lines : TurnAway(t, l)
           \/ HandleQuery(t) \/ HandleStatus(t) \/ HandleRegister(t) \/ HandleLogin(t)
           \/ GoOn(t) \/ Query(t) \/ SubmitSignIn(t)
  <2>1. UNCHANGED view
    BY <1>1 DEF TurnAway, HandleQuery, HandleStatus, HandleRegister, HandleLogin,
                GoOn, Query, SubmitSignIn
  <2> QED BY <2>1
<1>2. CASE \/ \E l \in Lines : LoseRequest(t, l)
           \/ ReceiveStatus(t) \/ LookAgain(t)
  <2>1. PICK s : view' = [view EXCEPT ![t].status = s]
    BY <1>2 DEF LoseRequest, ReceiveStatus, LookAgain
  <2>2. view'[u].token = view[u].token
    BY <1>0, <2>1 DEF SessionPage
  <2> QED BY <2>2
<1>3. CASE ReceiveQuery(t)
  <2>1. EndsSession(line[t]["query"].code) /\ Clear(t, "query") /\ Comes(t, "query")
    BY <1>3 DEF ReceiveQuery
  <2>2. u = t
    BY <2>1, ClearElsewhere
  <2> QED BY <2>1, <2>2, ClearedLine
<1>4. CASE SignInFails(t)
  <2>1. EndsSession(line[t]["sign"].code) /\ Clear(t, "sign") /\ Comes(t, "sign")
    BY <1>4 DEF SignInFails
  <2>2. u = t
    BY <2>1, ClearElsewhere
  <2> QED BY <2>1, <2>2, ClearedLine
<1>5. CASE SignIn(t)
  <2>1. u = t
    BY <1>0, <1>5 DEF SignIn
  <2> QED BY <1>5, <2>1
<1>6. CASE Logout(t)
  <2>1. u = t
    BY <1>0, <1>6 DEF Logout
  <2> QED BY <1>6, <2>1
<1>7. CASE Load(t)
  <2>1. PICK page : view' = [view EXCEPT ![t] = [page |-> page, token |-> stored,
                                                 status |-> "loading"]]
    BY <1>7 DEF Load
  <2>2. u = t /\ view'[t].token = stored
    BY <1>0, <2>1
  <2> QED BY <1>7, <2>2
<1> QED BY <1>1, <1>2, <1>3, <1>4, <1>5, <1>6, <1>7 DEF TabMoves

(* A session ends only as its administrator wants, or is overtaken by an   *)
(* answer to an older one or to a sign-in, or by what another tab stored:  *)
(* the property the panel's run checks, for any number of tabs and tokens. *)
THEOREM SessionKeptHolds == SessionSpec => SessionKept
<1>1. ASSUME SessionInv, [SessionNext]_sessionVars
      PROVE  [\A t \in Tabs : KeptBy(t)]_sessionVars
  <2>1. CASE UNCHANGED sessionVars
    BY <2>1
  <2>2. CASE SessionNext
    <3> SUFFICES ASSUME NEW u \in Tabs, view[u].token \in Live,
                        view'[u].token # view[u].token
                 PROVE  \/ Logout(u) \/ SignIn(u) \/ Overtaken(u)
                        \/ Load(u) /\ stored # view[u].token
      BY DEF KeptBy
    <3>1. ~ WorldMoves
      BY DEF WorldMoves, Lapse, Trap, Pardon, Travel, Turn
    <3>2. PICK t \in Tabs : TabMoves(t)
      BY <2>2, <3>1, MovesOf
    <3> QED BY <1>1, <3>2, TabKept
  <2> QED BY <1>1, <2>1, <2>2
<1>2. SessionSpec => [][\A t \in Tabs : KeptBy(t)]_sessionVars
  BY <1>1, SessionInvHolds, PTL DEF SessionSpec
<1> QED BY <1>2 DEF SessionKept, KeptBy

------------------------------------------------------------------------------
(* The overview: no figure is newer than what it is about. *)

OverviewCall == [at : {"rest", "look", "read", "store", "reply"},
                 page : Watchers \cup {NoPage}, todo : SUBSET Parts, got : Overviews]

(* The figures f are not newer than those of g that are there. *)
Behind(f, g) == \A p \in Parts : g[p] # Unread => f[p] <= g[p]

Current(f) ==
  /\ \A p \in Parts : f[p] <= now
  /\ sample # Unread => f["sample"] <= sample
  /\ poll # Unread => f["sample"] <= poll

Aged ==
  /\ sample <= now /\ poll <= now /\ (poll # Unread => sample <= poll)
  /\ Current(kept)
  /\ \A c \in Calls : Current(call[c].got)
  /\ \A a \in Watchers : Current(shown[a])

LooksEmpty == \A c \in Calls : call[c].at = "look" => call[c].got = NoFigures

(* A page waits for one answer at most. *)
PagesApart ==
  \A c, d \in Calls : c # d /\ call[c].page = call[d].page => call[c].page = NoPage

(* While no two computations overlapped: what is computed is not older     *)
(* than anything there is, what is kept not older than what was answered,  *)
(* and an answer not older than what its page shows.                       *)
OneComputes == \A c, d \in Calls : Computing(c) /\ Computing(d) => c = d
KeptLeads ==
  /\ \A a \in Watchers : Behind(shown[a], kept)
  /\ \A c \in Calls : ~ Computing(c) => Behind(call[c].got, kept)
ComputedLeads ==
  \A c \in Calls : Computing(c) =>
    /\ Behind(kept, call[c].got)
    /\ \A a \in Watchers : Behind(shown[a], call[c].got)
    /\ \A d \in Calls \ {c} : Behind(call[d].got, call[c].got)
RepliesLead ==
  \A c \in Calls, a \in Watchers :
    call[c].at = "reply" /\ call[c].page = a => Behind(shown[a], call[c].got)
InOrder == OneComputes /\ KeptLeads /\ ComputedLeads /\ RepliesLead

OverviewInv ==
  /\ OverviewTypeOK /\ Aged /\ LooksEmpty /\ PagesApart
  /\ ~ crossed => InOrder

LEMMA FiguresTyped ==
  /\ NoFigures \in Overviews /\ Unread \in Ages
  /\ \A n \in 0..MaxChanges : n \in Ages /\ n # Unread
  /\ "rows" \in Parts /\ "sample" \in Parts
BY OverviewAssumption DEF NoFigures, Overviews, Ages, Unread, Parts

LEMMA RestingTyped == Resting \in OverviewCall /\ Resting.got = NoFigures /\ Resting.at = "rest"
                      /\ Resting.page = NoPage
BY FiguresTyped DEF Resting, OverviewCall

LEMMA BehindBasics ==
  /\ \A f \in Overviews : Behind(f, NoFigures) /\ Behind(NoFigures, f) /\ Behind(f, f)
BY OverviewAssumption DEF Behind, NoFigures, Overviews, Ages, Unread

LEMMA OverviewTyped ==
  ASSUME OverviewTypeOK
  PROVE  /\ call \in [Calls -> OverviewCall] /\ shown \in [Watchers -> Overviews]
         /\ kept \in Overviews /\ now \in 0..MaxChanges /\ now \in Nat
         /\ sample \in Ages /\ poll \in Ages /\ sample \in Int /\ poll \in Int
BY OverviewAssumption DEF OverviewTypeOK, OverviewCall, Ages, Unread

LEMMA OverviewStarts == OverviewInit => OverviewInv
<1> SUFFICES ASSUME OverviewInit PROVE OverviewInv
  OBVIOUS
<1> USE OverviewAssumption DEF OverviewInit
<1>k. kept \in Overviews /\ \A p \in Parts : kept[p] = 0
  BY FiguresTyped DEF Overviews
<1>1. OverviewTypeOK
  <2>1. call \in [Calls -> OverviewCall] /\ shown \in [Watchers -> Overviews]
    BY RestingTyped, FiguresTyped
  <2>2. 0 \in 0..MaxChanges /\ 0 \in Ages /\ 0 \in 0..MaxAsks /\ 0 \in 0..MaxMishaps
    BY FiguresTyped
  <2>3. call \in [Calls -> [at : {"rest", "look", "read", "store", "reply"},
                         page : Watchers \cup {NoPage}, todo : SUBSET Parts, got : Overviews]]
    BY <2>1 DEF OverviewCall
  <2> QED BY <1>k, <2>1, <2>2, <2>3, FiguresTyped DEF OverviewTypeOK
<1>2. Aged
  <2>1. Current(NoFigures) /\ Current(kept)
    BY <1>k, FiguresTyped DEF Current, NoFigures, Unread
  <2> QED BY <2>1, RestingTyped, FiguresTyped DEF Aged, Unread
<1>3. LooksEmpty /\ PagesApart
  BY RestingTyped DEF LooksEmpty, PagesApart
<1>4. InOrder
  <2>1. \A c \in Calls : ~ Computing(c) /\ call[c].got = NoFigures /\ call[c].at # "reply"
    BY RestingTyped DEF Computing
  <2>2. Behind(NoFigures, kept)
    BY <1>k, BehindBasics
  <2> QED BY <2>1, <2>2 DEF InOrder, OneComputes, KeptLeads, ComputedLeads, RepliesLead
<1> QED BY <1>1, <1>2, <1>3, <1>4 DEF OverviewInv

(* One request changes, and what is kept or shown may. *)
LEMMA CallChange ==
  ASSUME OverviewInv, NEW c \in Calls, NEW r \in OverviewCall, call' = [call EXCEPT ![c] = r],
         kept' \in Overviews, shown' \in [Watchers -> Overviews],
         asks' \in 0..MaxAsks, mishaps' \in 0..MaxMishaps, crossed' \in BOOLEAN,
         UNCHANGED <<now, sample, poll>>,
         r.at = "look" => r.got = NoFigures,
         \/ r.page = call[c].page \/ r.page = NoPage
         \/ \A d \in Calls : call[d].page # r.page,
         Current(r.got), Current(kept'), \A a \in Watchers : Current(shown'[a])
  PROVE  OverviewTypeOK' /\ Aged' /\ LooksEmpty' /\ PagesApart'
<1>1. call' \in [Calls -> OverviewCall] /\ call'[c] = r
      /\ \A d \in Calls : d # c => call'[d] = call[d]
  BY OverviewTyped DEF OverviewInv
<1>2. OverviewTypeOK'
  BY <1>1 DEF OverviewInv, OverviewTypeOK, OverviewCall
<1>3. Aged'
  <2>1. \A f : Current(f) => /\ \A p \in Parts : f[p] <= now'
                             /\ sample' # Unread => f["sample"] <= sample'
                             /\ poll' # Unread => f["sample"] <= poll'
    BY DEF Current
  <2>2. ASSUME NEW d \in Calls PROVE Current(call[d].got)'
    <3>1. Current(call'[d].got)
      BY <1>1 DEF OverviewInv, Aged
    <3> QED BY <2>1, <3>1 DEF Current
  <2>3. ASSUME NEW a \in Watchers PROVE Current(shown[a])'
    BY <2>1 DEF Current
  <2>4. Current(kept)'
    BY <2>1 DEF Current
  <2> QED BY <2>2, <2>3, <2>4 DEF OverviewInv, Aged
<1>4. LooksEmpty'
  BY <1>1 DEF OverviewInv, LooksEmpty
<1>5. PagesApart'
  BY <1>1 DEF OverviewInv, PagesApart
<1> QED BY <1>2, <1>3, <1>4, <1>5

(* One request changes and nothing that is kept or shown. *)
LEMMA OrderKept ==
  ASSUME OverviewInv, InOrder, NEW c \in Calls, NEW r \in OverviewCall,
         call' = [call EXCEPT ![c] = r], UNCHANGED <<kept, shown>>,
         r.at \in {"read", "store"} =>
           /\ \A d \in Calls \ {c} : ~ Computing(d) /\ Behind(call[d].got, r.got)
           /\ Behind(kept, r.got) /\ \A a \in Watchers : Behind(shown[a], r.got),
         r.at \notin {"read", "store"} => Behind(r.got, kept),
         \A d \in Calls \ {c} : Computing(d) => Behind(r.got, call[d].got),
         r.at = "reply" =>
           \A a \in Watchers : r.page = a => Behind(shown[a], r.got)
  PROVE  InOrder'
<1>1. call'[c] = r /\ \A d \in Calls : d # c => call'[d] = call[d]
  BY OverviewTyped DEF OverviewInv
<1>2. /\ (Computing(c)') <=> r.at \in {"read", "store"}
      /\ \A d \in Calls : d # c => ((Computing(d)') <=> Computing(d))
  BY <1>1 DEF Computing
<1>3. OneComputes'
  BY <1>2 DEF OneComputes, InOrder
<1>4. ASSUME NEW d \in Calls, ~ Computing(d)' PROVE Behind(call'[d].got, kept')
  BY <1>1, <1>2, <1>4 DEF InOrder, KeptLeads
<1>5. KeptLeads'
  BY <1>4 DEF InOrder, KeptLeads, Behind
<1>6. ASSUME NEW d \in Calls, Computing(d)'
      PROVE  /\ Behind(kept', call'[d].got)
             /\ \A a \in Watchers : Behind(shown'[a], call'[d].got)
             /\ \A e \in Calls \ {d} : Behind(call'[e].got, call'[d].got)
  <2>1. CASE d = c
    BY <1>1, <1>2, <1>6, <2>1
  <2>2. CASE d # c
    BY <1>1, <1>2, <1>6, <2>2 DEF InOrder, ComputedLeads
  <2> QED BY <2>1, <2>2
<1>7. ComputedLeads'
  BY <1>6 DEF ComputedLeads, Behind
<1>8. ASSUME NEW d \in Calls, NEW a \in Watchers, call'[d].at = "reply", call'[d].page = a
      PROVE  Behind(shown'[a], call'[d].got)
  BY <1>1, <1>8 DEF InOrder, RepliesLead
<1>9. RepliesLead'
  BY <1>8 DEF RepliesLead, Behind
<1> QED BY <1>3, <1>5, <1>7, <1>9 DEF InOrder

LEMMA CurrentBasics ==
  ASSUME OverviewInv
  PROVE  /\ Current(NoFigures) /\ Current(kept)
         /\ \A c \in Calls : Current(call[c].got)
         /\ \A a \in Watchers : Current(shown[a])
         /\ \A p \in Parts : Counted(p) \in Ages /\ Counted(p) <= now
<1>1. now \in 0..MaxChanges /\ sample \in Ages /\ poll \in Ages
  BY OverviewTyped DEF OverviewInv
<1>2. Current(NoFigures)
  BY <1>1, FiguresTyped, OverviewAssumption DEF Current, NoFigures, Unread, Ages
<1>3. \A p \in Parts : Counted(p) \in Ages /\ Counted(p) <= now
  BY <1>1, FiguresTyped, OverviewAssumption DEF Counted, OverviewInv, Aged
<1> QED BY <1>2, <1>3 DEF OverviewInv, Aged

LEMMA MishapTyped ==
  ASSUME OverviewTypeOK
  PROVE  (Mishap => mishaps' \in 0..MaxMishaps) /\ (UNCHANGED mishaps => mishaps' \in 0..MaxMishaps)
BY OverviewAssumption DEF OverviewTypeOK, Mishap

LEMMA CallOf ==
  ASSUME OverviewInv, NEW c \in Calls
  PROVE  call[c] \in OverviewCall /\ call[c].got \in Overviews
BY OverviewTyped DEF OverviewInv, OverviewCall

(* A call that computes leads the others already, if two never overlapped. *)
LEMMA ComputesAlone ==
  ASSUME InOrder, NEW c \in Calls, Computing(c)
  PROVE  /\ \A d \in Calls \ {c} : ~ Computing(d) /\ Behind(call[d].got, call[c].got)
         /\ Behind(kept, call[c].got) /\ \A a \in Watchers : Behind(shown[a], call[c].got)
BY DEF InOrder, OneComputes, ComputedLeads

LEMMA AskInv ==
  ASSUME OverviewInv, NEW a \in Watchers, Ask(a) PROVE OverviewInv'
<1>1. PICK c \in Calls : /\ call[c] = Resting
                        /\ call' = [call EXCEPT ![c] = [@ EXCEPT !.at = "look", !.page = a]]
  BY DEF Ask
<1> DEFINE r == [at |-> "look", page |-> a, todo |-> {}, got |-> NoFigures]
<1>2. [[Resting EXCEPT !.at = "look"] EXCEPT !.page = a] = r
  <2> DEFINE r1 == [Resting EXCEPT !.at = "look"]
  <2>1. r1 = [at |-> "look", page |-> NoPage, todo |-> {}, got |-> NoFigures]
    BY DEF Resting
  <2> HIDE DEF r1
  <2>2. [r1 EXCEPT !.page = a] = r
    BY <2>1
  <2> QED BY <2>2 DEF r1
<1>3. call' = [call EXCEPT ![c] = r]
  BY <1>1, <1>2, Zenon
<1>4. r \in OverviewCall /\ r.at = "look" /\ r.got = NoFigures /\ r.page = a
  BY FiguresTyped DEF OverviewCall
<1>5. UNCHANGED <<now, kept, shown, sample, poll, mishaps, crossed>> /\ asks' \in 0..MaxAsks
      /\ kept' \in Overviews /\ shown' \in [Watchers -> Overviews]
      /\ mishaps' \in 0..MaxMishaps /\ crossed' \in BOOLEAN
      /\ \A d \in Calls : call[d].page # a
  BY OverviewAssumption DEF Ask, OverviewInv, OverviewTypeOK, PageIdle
<1> HIDE DEF r
<1>6. OverviewTypeOK' /\ Aged' /\ LooksEmpty' /\ PagesApart'
  BY <1>3, <1>4, <1>5, CallChange, CurrentBasics
<1>7. ASSUME InOrder PROVE InOrder'
  <2>1. Behind(r.got, kept) /\ \A d \in Calls : Behind(r.got, call[d].got)
    BY <1>4, BehindBasics, CallOf, OverviewTyped DEF OverviewInv
  <2> QED BY <1>3, <1>4, <1>5, <1>7, <2>1, OrderKept
<1> QED BY <1>5, <1>6, <1>7 DEF OverviewInv

LEMMA HitInv ==
  ASSUME OverviewInv, NEW c \in Calls, Hit(c) PROVE OverviewInv'
<1> DEFINE r1 == [call[c] EXCEPT !.at = "reply"]
           r == [r1 EXCEPT !.got = kept]
<1>1. call' = [call EXCEPT ![c] = r]
  BY OverviewTyped, Zenon DEF Hit, OverviewInv
<1>2. r1 \in OverviewCall /\ r1.at = "reply" /\ r1.page = call[c].page
  BY CallOf DEF OverviewCall
<1> HIDE DEF r1
<1>3. r \in OverviewCall /\ r.at = "reply" /\ r.page = call[c].page /\ r.got = kept
  BY <1>2, OverviewTyped DEF OverviewCall, OverviewInv
<1> HIDE DEF r
<1>4. UNCHANGED <<now, kept, shown, sample, poll, mishaps, crossed>> /\ asks' \in 0..MaxAsks
      /\ kept' \in Overviews /\ shown' \in [Watchers -> Overviews]
      /\ mishaps' \in 0..MaxMishaps /\ crossed' \in BOOLEAN
  BY DEF Hit, OverviewInv, OverviewTypeOK
<1>5. OverviewTypeOK' /\ Aged' /\ LooksEmpty' /\ PagesApart'
  BY <1>1, <1>3, <1>4, CallChange, CurrentBasics
<1>6. ASSUME InOrder PROVE InOrder'
  <2>1. Behind(r.got, kept) /\ \A a \in Watchers : Behind(shown[a], r.got)
    BY <1>3, <1>6, BehindBasics, OverviewTyped DEF OverviewInv, InOrder, KeptLeads
  <2>2. \A d \in Calls : Computing(d) => Behind(r.got, call[d].got)
    BY <1>3, <1>6 DEF InOrder, ComputedLeads
  <2> QED BY <1>1, <1>3, <1>4, <1>6, <2>1, <2>2, OrderKept
<1> QED BY <1>4, <1>5, <1>6 DEF OverviewInv

LEMMA MissInv ==
  ASSUME OverviewInv, NEW c \in Calls, Miss(c) PROVE OverviewInv'
<1> DEFINE r1 == [call[c] EXCEPT !.at = "read"]
           r == [r1 EXCEPT !.todo = Parts]
<1>1. call' = [call EXCEPT ![c] = r]
  BY OverviewTyped, Zenon DEF Miss, OverviewInv
<1>2. r1 \in OverviewCall /\ r1.at = "read" /\ r1.page = call[c].page /\ r1.got = NoFigures
  BY CallOf DEF OverviewCall, Miss, OverviewInv, LooksEmpty
<1> HIDE DEF r1
<1>3. r \in OverviewCall /\ r.at = "read" /\ r.page = call[c].page /\ r.got = NoFigures
  BY <1>2 DEF OverviewCall
<1> HIDE DEF r
<1>4. UNCHANGED <<now, kept, shown, sample, poll>> /\ asks' \in 0..MaxAsks
      /\ kept' \in Overviews /\ shown' \in [Watchers -> Overviews]
      /\ mishaps' \in 0..MaxMishaps /\ crossed' \in BOOLEAN
  BY MishapTyped DEF Miss, OverviewInv, OverviewTypeOK
<1>5. OverviewTypeOK' /\ Aged' /\ LooksEmpty' /\ PagesApart'
  BY <1>1, <1>3, <1>4, CallChange, CurrentBasics
<1>6. ASSUME InOrder, ~ crossed' PROVE InOrder'
  <2>1. \A d \in Calls \ {c} : ~ Computing(d)
    BY <1>6 DEF Miss
  <2>2. /\ \A d \in Calls \ {c} : Behind(call[d].got, r.got)
        /\ Behind(kept, r.got) /\ \A a \in Watchers : Behind(shown[a], r.got)
    BY <1>3, BehindBasics, CallOf, OverviewTyped DEF OverviewInv
  <2> QED BY <1>1, <1>3, <1>4, <1>6, <2>1, <2>2, OrderKept
<1>7. crossed => crossed'
  BY DEF Miss
<1> QED BY <1>5, <1>6, <1>7 DEF OverviewInv

(* A part that is read is as new as there is. *)
LEMMA ReadLeads ==
  ASSUME OverviewInv, NEW p \in Parts, NEW f \in Overviews, Current(f), NEW g \in Overviews,
         Behind(f, g)
  PROVE  Behind(f, [g EXCEPT ![p] = Counted(p)])
BY OverviewTyped, FiguresTyped DEF Behind, Current, Counted, Overviews, OverviewInv, Parts

LEMMA ReadCurrent ==
  ASSUME OverviewInv, NEW p \in Parts, NEW g \in Overviews, Current(g)
  PROVE  Current([g EXCEPT ![p] = Counted(p)]) /\ [g EXCEPT ![p] = Counted(p)] \in Overviews
<1>1. now \in Nat /\ sample \in Int /\ poll \in Int /\ sample <= now
      /\ (poll # Unread => sample <= poll)
  BY OverviewTyped DEF OverviewInv, Aged
<1>2. Counted(p) \in Ages /\ Counted(p) <= now
  BY CurrentBasics
<1>3. [g EXCEPT ![p] = Counted(p)] \in Overviews
  BY <1>2 DEF Overviews
<1> DEFINE h == [g EXCEPT ![p] = Counted(p)]
<1>4. \A q \in Parts : h[q] <= now
  BY <1>2 DEF Overviews, Current
<1>5. h["sample"] = IF p = "sample" THEN sample ELSE g["sample"]
  BY FiguresTyped DEF Overviews, Counted
<1> HIDE DEF h
<1>6. Current(h)
  BY <1>1, <1>4, <1>5 DEF Current
<1> QED BY <1>3, <1>6 DEF h

LEMMA ReadInv ==
  ASSUME OverviewInv, NEW c \in Calls, Read(c) PROVE OverviewInv'
<1>1. PICK p \in Parts :
       call' = [call EXCEPT ![c].todo = @ \ {p}, ![c].got[p] = Counted(p),
                            ![c].at = IF call[c].todo = {p} THEN "store" ELSE "read"]
  <2>1. call[c].todo \subseteq Parts
    BY CallOf DEF OverviewCall
  <2> QED BY <2>1 DEF Read
<1> DEFINE at == IF call[c].todo = {p} THEN "store" ELSE "read"
           g == [call[c].got EXCEPT ![p] = Counted(p)]
           r1 == [call[c] EXCEPT !.todo = call[c].todo \ {p}]
           r2 == [r1 EXCEPT !.got = g]
           r == [r2 EXCEPT !.at = at]
<1>2. g \in Overviews /\ Current(g)
  BY CallOf, CurrentBasics, ReadCurrent
<1>3. at \in {"store", "read"} /\ Computing(c)
  BY DEF Read, Computing
<1>4. r1 \in OverviewCall /\ r1.page = call[c].page /\ r1.got = call[c].got
  BY CallOf DEF OverviewCall
<1>5. call' = [call EXCEPT ![c] = r]
  <2>1. call \in [Calls -> OverviewCall]
    BY OverviewTyped DEF OverviewInv
  <2>2. call' = [call EXCEPT ![c] = [[[call[c] EXCEPT !.todo = @ \ {p}] EXCEPT !.got[p] = Counted(p)]
                                        EXCEPT !.at = at]]
    BY <1>1, <2>1, Zenon
  <2> QED BY <1>4, <2>2
<1> HIDE DEF g, at, r1
<1>6. r2 \in OverviewCall /\ r2.page = call[c].page /\ r2.got = g
  BY <1>2, <1>4 DEF OverviewCall
<1> HIDE DEF r2
<1>7. r \in OverviewCall /\ r.page = call[c].page /\ r.got = g /\ r.at = at
  BY <1>3, <1>6 DEF OverviewCall
<1> HIDE DEF r
<1>8. UNCHANGED <<now, kept, shown, sample, poll, crossed>> /\ asks' \in 0..MaxAsks
      /\ kept' \in Overviews /\ shown' \in [Watchers -> Overviews]
      /\ mishaps' \in 0..MaxMishaps /\ crossed' \in BOOLEAN
  BY DEF Read, OverviewInv, OverviewTypeOK
<1>9. OverviewTypeOK' /\ Aged' /\ LooksEmpty' /\ PagesApart'
  BY <1>2, <1>3, <1>5, <1>7, <1>8, CallChange, CurrentBasics
<1>10. ASSUME InOrder PROVE InOrder'
  <2>1. \A f \in Overviews : Current(f) /\ Behind(f, call[c].got) => Behind(f, g)
    BY CallOf, ReadLeads DEF g
  <2>2. /\ \A d \in Calls \ {c} : ~ Computing(d) /\ Behind(call[d].got, r.got)
        /\ Behind(kept, r.got) /\ \A a \in Watchers : Behind(shown[a], r.got)
    BY <1>3, <1>7, <1>10, <2>1, ComputesAlone, CallOf, CurrentBasics, OverviewTyped
    DEF OverviewInv
  <2> QED BY <1>3, <1>5, <1>7, <1>8, <1>10, <2>2, OrderKept
<1> QED BY <1>8, <1>9, <1>10 DEF OverviewInv

LEMMA ReadFailsInv ==
  ASSUME OverviewInv, NEW c \in Calls, ReadFails(c) PROVE OverviewInv'
<1>1. call' = [call EXCEPT ![c] = Resting]
  BY DEF ReadFails
<1>2. UNCHANGED <<now, kept, shown, sample, poll, crossed>> /\ asks' \in 0..MaxAsks
      /\ kept' \in Overviews /\ shown' \in [Watchers -> Overviews]
      /\ mishaps' \in 0..MaxMishaps /\ crossed' \in BOOLEAN
  BY MishapTyped DEF ReadFails, OverviewInv, OverviewTypeOK
<1>3. OverviewTypeOK' /\ Aged' /\ LooksEmpty' /\ PagesApart'
  BY <1>1, <1>2, RestingTyped, CallChange, CurrentBasics
<1>4. ASSUME InOrder PROVE InOrder'
  <2>1. Behind(Resting.got, kept) /\ \A d \in Calls : Behind(Resting.got, call[d].got)
    BY RestingTyped, BehindBasics, CallOf, OverviewTyped DEF OverviewInv
  <2> QED BY <1>1, <1>2, <1>4, <2>1, RestingTyped, OrderKept
<1> QED BY <1>2, <1>3, <1>4 DEF OverviewInv

LEMMA StoreTyped ==
  ASSUME OverviewInv, NEW c \in Calls
  PROVE  /\ [call[c] EXCEPT !.at = "reply"] \in OverviewCall
         /\ [call[c] EXCEPT !.at = "reply"].page = call[c].page
         /\ [call[c] EXCEPT !.at = "reply"].got = call[c].got
         /\ [call[c] EXCEPT !.at = "reply"].at = "reply"
BY CallOf DEF OverviewCall

LEMMA KeepFailsInv ==
  ASSUME OverviewInv, NEW c \in Calls, KeepFails(c) PROVE OverviewInv'
<1> DEFINE r == [call[c] EXCEPT !.at = "reply"]
<1>1. call' = [call EXCEPT ![c] = r] /\ Computing(c)
  BY OverviewTyped DEF KeepFails, OverviewInv, Computing
<1>2. r \in OverviewCall /\ r.page = call[c].page /\ r.got = call[c].got /\ r.at = "reply"
  BY StoreTyped
<1> HIDE DEF r
<1>3. UNCHANGED <<now, kept, shown, sample, poll>> /\ asks' \in 0..MaxAsks
      /\ kept' \in Overviews /\ shown' \in [Watchers -> Overviews]
      /\ mishaps' \in 0..MaxMishaps /\ crossed' \in BOOLEAN
  BY MishapTyped DEF KeepFails, OverviewInv, OverviewTypeOK
<1>4. OverviewTypeOK' /\ Aged' /\ LooksEmpty' /\ PagesApart'
  BY <1>1, <1>2, <1>3, CallChange, CurrentBasics
<1>5. ASSUME InOrder, ~ crossed' PROVE InOrder'
  <2>1. kept = NoFigures
    BY <1>5 DEF KeepFails
  <2>2. Behind(r.got, kept)
    BY <1>2, <2>1, BehindBasics, CallOf
  <2>3. /\ \A d \in Calls \ {c} : ~ Computing(d)
        /\ \A a \in Watchers : Behind(shown[a], r.got)
    BY <1>1, <1>2, <1>5, ComputesAlone
  <2> QED BY <1>1, <1>2, <1>3, <1>5, <2>2, <2>3, OrderKept
<1>6. crossed => crossed'
  BY DEF KeepFails
<1> QED BY <1>4, <1>5, <1>6 DEF OverviewInv

LEMMA KeepInv ==
  ASSUME OverviewInv, NEW c \in Calls, Keep(c) PROVE OverviewInv'
<1> DEFINE r == [call[c] EXCEPT !.at = "reply"]
<1>1. call' = [call EXCEPT ![c] = r] /\ Computing(c) /\ kept' = call[c].got
  BY OverviewTyped DEF Keep, OverviewInv, Computing
<1>2. r \in OverviewCall /\ r.page = call[c].page /\ r.got = call[c].got /\ r.at = "reply"
  BY StoreTyped
<1> HIDE DEF r
<1>3. UNCHANGED <<now, shown, sample, poll, crossed>> /\ asks' \in 0..MaxAsks
      /\ kept' \in Overviews /\ shown' \in [Watchers -> Overviews]
      /\ mishaps' \in 0..MaxMishaps /\ crossed' \in BOOLEAN
  BY <1>1, CallOf DEF Keep, OverviewInv, OverviewTypeOK
<1>4. OverviewTypeOK' /\ Aged' /\ LooksEmpty' /\ PagesApart'
  BY <1>1, <1>2, <1>3, CallChange, CurrentBasics
<1>5. ASSUME InOrder PROVE InOrder'
  <2>1. call'[c] = r /\ \A d \in Calls : d # c => call'[d] = call[d]
    BY <1>1, OverviewTyped DEF OverviewInv
  <2>2. /\ \A d \in Calls \ {c} : ~ Computing(d) /\ Behind(call[d].got, kept')
        /\ \A a \in Watchers : Behind(shown[a], kept')
    BY <1>1, <1>5, ComputesAlone
  <2>3. Behind(r.got, kept')
    BY <1>1, <1>2, BehindBasics, CallOf
  <2>4. \A d \in Calls : ~ Computing(d)'
    BY <1>2, <2>1, <2>2 DEF Computing
  <2>5. ASSUME NEW d \in Calls PROVE Behind(call'[d].got, kept')
    BY <2>1, <2>2, <2>3
  <2>6. ASSUME NEW a \in Watchers PROVE Behind(shown'[a], kept')
    BY <1>3, <2>2
  <2>7. KeptLeads'
    BY <2>5, <2>6 DEF KeptLeads, Behind
  <2>8. ASSUME NEW d \in Calls, NEW a \in Watchers, call'[d].at = "reply", call'[d].page = a
        PROVE  Behind(shown'[a], call'[d].got)
    <3>1. CASE d = c
      BY <1>1, <1>2, <2>1, <2>6, <3>1
    <3>2. CASE d # c
      BY <1>3, <1>5, <2>1, <2>8, <3>2 DEF InOrder, RepliesLead
    <3> QED BY <3>1, <3>2
  <2>9. RepliesLead'
    BY <2>8 DEF RepliesLead, Behind
  <2> QED BY <2>4, <2>7, <2>9 DEF InOrder, OneComputes, ComputedLeads
<1> QED BY <1>3, <1>4, <1>5 DEF OverviewInv

(* The answer is all that changes what a page shows. *)
LEMMA AnswerShown ==
  ASSUME OverviewInv, NEW c \in Calls, AnswerPage(c)
  PROVE  /\ call'[c] = Resting /\ \A d \in Calls : d # c => call'[d] = call[d]
         /\ \A a \in Watchers : shown'[a] = IF a = call[c].page THEN call[c].got ELSE shown[a]
         /\ UNCHANGED <<now, kept, sample, poll, asks, mishaps, crossed>>
         /\ call' = [call EXCEPT ![c] = Resting]
BY OverviewTyped DEF AnswerPage, OverviewInv

LEMMA AnswerPageInv ==
  ASSUME OverviewInv, NEW c \in Calls, AnswerPage(c) PROVE OverviewInv'
<1>1. /\ call'[c] = Resting /\ \A d \in Calls : d # c => call'[d] = call[d]
      /\ \A a \in Watchers : shown'[a] = IF a = call[c].page THEN call[c].got ELSE shown[a]
      /\ UNCHANGED <<now, kept, sample, poll, asks, mishaps, crossed>>
      /\ call' = [call EXCEPT ![c] = Resting]
  BY AnswerShown
<1>2. asks' \in 0..MaxAsks /\ kept' \in Overviews
      /\ mishaps' \in 0..MaxMishaps /\ crossed' \in BOOLEAN
  BY <1>1 DEF OverviewInv, OverviewTypeOK
<1>3. shown' \in [Watchers -> Overviews]
  BY CallOf, OverviewTyped DEF AnswerPage, OverviewInv
<1>4. \A a \in Watchers : Current(shown'[a])
  BY <1>1, CurrentBasics
<1>5. OverviewTypeOK' /\ Aged' /\ LooksEmpty' /\ PagesApart'
  BY <1>1, <1>2, <1>3, <1>4, RestingTyped, CallChange, CurrentBasics
<1>6. ASSUME InOrder PROVE InOrder'
  <2>1. \A f \in Overviews : Behind(Resting.got, f)
    BY RestingTyped, BehindBasics
  <2>2. ~ Computing(c) /\ call[c].at = "reply"
    BY DEF AnswerPage, Computing
  <2>3. /\ ~ Computing(c)' /\ call'[c].at # "reply" /\ call'[c].got = NoFigures
        /\ \A d \in Calls : d # c => (Computing(d)' <=> Computing(d))
    BY <1>1, RestingTyped DEF Computing
  <2>4. OneComputes'
    BY <1>6, <2>3 DEF InOrder, OneComputes
  <2>5. ASSUME NEW a \in Watchers PROVE Behind(shown'[a], kept')
    BY <1>1, <1>6, <2>2 DEF InOrder, KeptLeads
  <2>6. ASSUME NEW d \in Calls, ~ Computing(d)' PROVE Behind(call'[d].got, kept')
    BY <1>1, <1>2, <1>6, <2>1, <2>3, <2>6 DEF InOrder, KeptLeads
  <2>7. KeptLeads'
    BY <2>5, <2>6 DEF KeptLeads, Behind
  <2>8. ASSUME NEW d \in Calls, Computing(d)'
        PROVE  /\ Behind(kept', call'[d].got)
               /\ \A a \in Watchers : Behind(shown'[a], call'[d].got)
               /\ \A e \in Calls \ {d} : Behind(call'[e].got, call'[d].got)
    <3>1. d # c /\ Computing(d) /\ call'[d] = call[d] /\ call[d].got \in Overviews
      BY <1>1, <2>3, <2>8, CallOf
    <3>2. /\ Behind(kept, call[d].got)
          /\ \A a \in Watchers : Behind(shown[a], call[d].got)
          /\ \A e \in Calls \ {d} : Behind(call[e].got, call[d].got)
      BY <1>6, <3>1 DEF InOrder, ComputedLeads
    <3>3. ASSUME NEW a \in Watchers PROVE Behind(shown'[a], call[d].got)
      BY <1>1, <3>1, <3>2
    <3>4. ASSUME NEW e \in Calls \ {d} PROVE Behind(call'[e].got, call[d].got)
      BY <1>1, <2>1, <3>1, <3>2
    <3> QED BY <1>1, <3>1, <3>2, <3>3, <3>4
  <2>9. ComputedLeads'
    BY <2>8 DEF ComputedLeads, Behind
  <2>10. ASSUME NEW d \in Calls, NEW a \in Watchers, call'[d].at = "reply", call'[d].page = a
         PROVE  Behind(shown'[a], call'[d].got)
    <3>1. d # c /\ call'[d] = call[d]
      BY <1>1, <2>3, <2>10
    <3>2. a # call[c].page
      BY <2>10, <3>1, NoPageAssumption DEF OverviewInv, PagesApart
    <3> QED BY <1>1, <1>6, <2>10, <3>1, <3>2 DEF InOrder, RepliesLead
  <2>11. RepliesLead'
    BY <2>10 DEF RepliesLead, Behind
  <2> QED BY <2>4, <2>7, <2>9, <2>11 DEF InOrder
<1> QED BY <1>1, <1>5, <1>6 DEF OverviewInv

LEMMA LoseAnswerInv ==
  ASSUME OverviewInv, NEW a \in Watchers, LoseAnswer(a) PROVE OverviewInv'
<1>1. PICK c \in Calls : call' = [call EXCEPT ![c].page = NoPage]
  BY DEF LoseAnswer
<1> DEFINE r == [call[c] EXCEPT !.page = NoPage]
<1>2. call' = [call EXCEPT ![c] = r]
  BY <1>1, OverviewTyped DEF OverviewInv
<1>3. r \in OverviewCall /\ r.page = NoPage /\ r.got = call[c].got /\ r.at = call[c].at
  BY CallOf DEF OverviewCall
<1> HIDE DEF r
<1>4. UNCHANGED <<now, kept, shown, sample, poll, crossed>> /\ asks' \in 0..MaxAsks
      /\ kept' \in Overviews /\ shown' \in [Watchers -> Overviews]
      /\ mishaps' \in 0..MaxMishaps /\ crossed' \in BOOLEAN
  BY MishapTyped DEF LoseAnswer, OverviewInv, OverviewTypeOK
<1>5. r.at = "look" => r.got = NoFigures
  BY <1>3 DEF OverviewInv, LooksEmpty
<1>6. OverviewTypeOK' /\ Aged' /\ LooksEmpty' /\ PagesApart'
  BY <1>2, <1>3, <1>4, <1>5, CallChange, CurrentBasics
<1>7. ASSUME InOrder PROVE InOrder'
  <2>1. Computing(c) <=> r.at \in {"read", "store"}
    BY <1>3 DEF Computing
  <2>2. r.at \in {"read", "store"} =>
          /\ \A d \in Calls \ {c} : ~ Computing(d) /\ Behind(call[d].got, r.got)
          /\ Behind(kept, r.got) /\ \A w \in Watchers : Behind(shown[w], r.got)
    BY <1>3, <1>7, <2>1, ComputesAlone
  <2>3. r.at \notin {"read", "store"} => Behind(r.got, kept)
    BY <1>3, <1>7, <2>1 DEF InOrder, KeptLeads
  <2>4. \A d \in Calls \ {c} : Computing(d) => Behind(r.got, call[d].got)
    BY <1>3, <1>7 DEF InOrder, ComputedLeads
  <2>5. \A w \in Watchers : r.page # w
    BY <1>3, NoPageAssumption
  <2> QED BY <1>2, <1>3, <1>4, <1>7, <2>2, <2>3, <2>4, <2>5, OrderKept
<1> QED BY <1>4, <1>6, <1>7 DEF OverviewInv

LEMMA CacheExpiresInv ==
  ASSUME OverviewInv, CacheExpires PROVE OverviewInv'
<1>1. kept' = NoFigures /\ UNCHANGED <<now, call, shown, sample, poll, asks, mishaps, crossed>>
  BY DEF CacheExpires
<1>2. OverviewTypeOK' /\ LooksEmpty' /\ PagesApart'
  BY <1>1, FiguresTyped DEF OverviewInv, OverviewTypeOK, LooksEmpty, PagesApart
<1>3. Aged'
  BY <1>1, CurrentBasics DEF OverviewInv, Aged, Current
<1>4. ASSUME InOrder PROVE InOrder'
  <2>1. \A f \in Overviews : Behind(f, kept') /\ Behind(kept', f)
    BY <1>1, BehindBasics
  <2>2. OneComputes' /\ RepliesLead'
    BY <1>1, <1>4 DEF InOrder, OneComputes, RepliesLead, Computing
  <2>3. KeptLeads'
    <3>1. ASSUME NEW a \in Watchers PROVE Behind(shown'[a], kept')
      BY <1>1, <2>1, OverviewTyped DEF OverviewInv
    <3>2. ASSUME NEW c \in Calls PROVE Behind(call'[c].got, kept')
      BY <1>1, <2>1, CallOf
    <3> QED BY <3>1, <3>2 DEF KeptLeads, Behind
  <2>4. ComputedLeads'
    <3>1. ASSUME NEW c \in Calls, Computing(c)
          PROVE  /\ Behind(kept', call[c].got)
                 /\ \A a \in Watchers : Behind(shown[a], call[c].got)
                 /\ \A d \in Calls \ {c} : Behind(call[d].got, call[c].got)
      BY <1>4, <2>1, <3>1, CallOf DEF InOrder, ComputedLeads
    <3> QED BY <1>1, <3>1 DEF ComputedLeads, Behind, Computing
  <2> QED BY <2>2, <2>3, <2>4 DEF InOrder
<1> QED BY <1>1, <1>2, <1>3, <1>4 DEF OverviewInv

(* What the requests have does not change. *)
LEMMA OrderStays ==
  ASSUME InOrder, UNCHANGED <<kept, call, shown>> PROVE InOrder'
<1>1. OneComputes' /\ RepliesLead'
  BY DEF InOrder, OneComputes, RepliesLead, Computing
<1>2. KeptLeads' /\ ComputedLeads'
  BY DEF InOrder, KeptLeads, ComputedLeads, Computing
<1> QED BY <1>1, <1>2 DEF InOrder

LEMMA PollInv ==
  ASSUME OverviewInv, NodeAnswers \/ KeepSample \/ PollFails \/ SampleExpires \/ Change
  PROVE  OverviewInv'
<1>1. UNCHANGED <<kept, call, shown, asks, crossed>>
  BY DEF NodeAnswers, KeepSample, PollFails, SampleExpires, Change
<1>2. now \in 0..MaxChanges /\ sample \in Ages /\ poll \in Ages
      /\ MaxChanges \in Nat /\ mishaps' \in 0..MaxMishaps
  BY OverviewTyped, MishapTyped, OverviewAssumption
  DEF OverviewInv, NodeAnswers, KeepSample, PollFails, SampleExpires, Change
<1>3. now' \in 0..MaxChanges /\ sample' \in Ages /\ poll' \in Ages
  BY <1>2, FiguresTyped DEF NodeAnswers, KeepSample, PollFails, SampleExpires, Change
<1>4. OverviewTypeOK' /\ LooksEmpty' /\ PagesApart'
  BY <1>1, <1>2, <1>3 DEF OverviewInv, OverviewTypeOK, LooksEmpty, PagesApart
<1>5. sample' <= now' /\ poll' <= now' /\ (poll' # Unread => sample' <= poll')
  BY <1>2 DEF OverviewInv, Aged, NodeAnswers, KeepSample, PollFails, SampleExpires, Change,
              Ages, Unread
<1>6. \A f \in Overviews : Current(f) =>
        /\ \A p \in Parts : f[p] <= now'
        /\ sample' # Unread => f["sample"] <= sample'
        /\ poll' # Unread => f["sample"] <= poll'
  BY <1>2, FiguresTyped DEF Current, Overviews, Ages, Unread,
     NodeAnswers, KeepSample, PollFails, SampleExpires, Change
<1>7. Aged'
  <2>1. ASSUME NEW f \in Overviews, Current(f)
        PROVE  /\ \A p \in Parts : f[p] <= now'
               /\ sample' # Unread => f["sample"] <= sample'
               /\ poll' # Unread => f["sample"] <= poll'
    BY <1>6, <2>1
  <2>2. Current(kept)'
    BY <1>1, <2>1, OverviewTyped DEF OverviewInv, Aged, Current
  <2>3. ASSUME NEW c \in Calls PROVE Current(call[c].got)'
    BY <1>1, <2>1, CallOf, CurrentBasics DEF Current
  <2>4. ASSUME NEW a \in Watchers PROVE Current(shown[a])'
    BY <1>1, <2>1, OverviewTyped, CurrentBasics DEF OverviewInv, Current
  <2> QED BY <1>5, <2>2, <2>3, <2>4 DEF Aged
<1> QED BY <1>1, <1>4, <1>7, OrderStays DEF OverviewInv

LEMMA OverviewSteps == OverviewInv /\ [OverviewNext]_overviewVars => OverviewInv'
<1> SUFFICES ASSUME OverviewInv, [OverviewNext]_overviewVars PROVE OverviewInv'
  OBVIOUS
<1>1. CASE \E a \in Watchers : Ask(a) \/ LoseAnswer(a)
  BY <1>1, AskInv, LoseAnswerInv
<1>2. CASE \E c \in Calls : Hit(c) \/ Miss(c) \/ Read(c) \/ ReadFails(c)
                          \/ Keep(c) \/ KeepFails(c) \/ AnswerPage(c)
  BY <1>2, HitInv, MissInv, ReadInv, ReadFailsInv, KeepInv, KeepFailsInv, AnswerPageInv
<1>3. CASE CacheExpires
  BY <1>3, CacheExpiresInv
<1>4. CASE NodeAnswers \/ KeepSample \/ PollFails \/ SampleExpires \/ Change
  BY <1>4, PollInv
<1>5. CASE UNCHANGED overviewVars
  <2>1. OverviewTypeOK' /\ LooksEmpty' /\ PagesApart'
    BY <1>5 DEF overviewVars, OverviewInv, OverviewTypeOK, LooksEmpty, PagesApart
  <2>2. Aged'
    BY <1>5 DEF overviewVars, OverviewInv, Aged, Current
  <2> QED BY <1>5, <2>1, <2>2, OrderStays DEF overviewVars, OverviewInv
<1> QED BY <1>1, <1>2, <1>3, <1>4, <1>5 DEF OverviewNext

LEMMA OverviewInvHolds == OverviewSpec => []OverviewInv
BY OverviewStarts, OverviewSteps, PTL DEF OverviewSpec

(* The cache, the requests, the pages and the sample are always of their   *)
(* types.                                                                  *)
THEOREM OverviewTypeCorrect == OverviewSpec => []OverviewTypeOK
<1>1. OverviewInv => OverviewTypeOK
  BY DEF OverviewInv
<1> QED BY <1>1, OverviewInvHolds, PTL

(* No figure a page shows gives way to an older one, unless computations   *)
(* overlapped or Redis failed one twice (dashboard.service.ts:9).          *)
THEOREM FiguresInOrderHolds == OverviewSpec => FiguresInOrder
<1>1. ASSUME OverviewInv, OverviewNext, ~ crossed, NEW a \in Watchers, NEW p \in Parts
      PROVE  ~ Older(shown'[a][p], shown[a][p])
  <2>0. shown[a][p] \in Int
    BY <1>1, OverviewTyped DEF OverviewInv, Overviews, Ages, Unread
  <2>1. CASE \E c \in Calls : AnswerPage(c)
    <3>1. PICK c \in Calls : AnswerPage(c)
      BY <2>1
    <3>2. shown'[a] = IF a = call[c].page THEN call[c].got ELSE shown[a]
      BY <1>1, <3>1, AnswerShown
    <3>3. CASE a = call[c].page
      <4>1. Behind(shown[a], call[c].got)
        BY <1>1, <3>1, <3>3 DEF AnswerPage, OverviewInv, InOrder, RepliesLead
      <4>2. call[c].got[p] \in Int
        BY <1>1, CallOf DEF Overviews, Ages, Unread
      <4> QED BY <2>0, <3>2, <3>3, <4>1, <4>2 DEF Behind, Older
    <3>4. CASE a # call[c].page
      BY <2>0, <3>2, <3>4 DEF Older
    <3> QED BY <3>3, <3>4
  <2>2. CASE ~ \E c \in Calls : AnswerPage(c)
    <3>1. UNCHANGED shown
      BY <1>1, <2>2 DEF OverviewNext, Ask, LoseAnswer, Hit, Miss, Read, ReadFails, Keep,
           KeepFails, CacheExpires, NodeAnswers, KeepSample, PollFails, SampleExpires, Change
    <3> QED BY <2>0, <3>1 DEF Older
  <2> QED BY <2>1, <2>2
<1>2. ASSUME OverviewInv, [OverviewNext]_overviewVars
      PROVE  [~ crossed =>
                \A a \in Watchers, p \in Parts : ~ Older(shown'[a][p], shown[a][p])
             ]_overviewVars
  BY <1>1, <1>2
<1> QED BY <1>2, OverviewInvHolds, PTL DEF OverviewSpec, FiguresInOrder

------------------------------------------------------------------------------
(* The tests of connections. *)

ProbeState == [of : Tested \cup {NoSubject}, trying : SUBSET Spots,
               at : {"sent", "trying", "answered", "over"}, rows : SUBSET TestRows]

(* A test has no row of a spot it still tries, and one of any other. *)
OneEach(x) ==
  /\ test[x].at \in {"sent", "over"} => test[x].rows = {}
  /\ \A r \in test[x].rows : r.spot \notin test[x].trying
  /\ \A r, q \in test[x].rows : r.spot = q.spot => r = q

(* A test that was begun since the dialog was opened is of its profile. *)
Ours(x) ==
  UnderWay(x) =>
    /\ x <= tests /\ test[x].of \in Tested
    /\ subject # NoSubject /\ x \notin late => test[x].of = subject

ProbesInv ==
  /\ ProbesTypeOK
  /\ \A x \in TestIds : OneEach(x)
  /\ \A x \in TestIds : Ours(x)
  /\ RowsExplained

LEMMA ProbesStart == ProbesInit => ProbesInv
<1> SUFFICES ASSUME ProbesInit PROVE ProbesInv
  OBVIOUS
<1> USE ProbesAssumption DEF ProbesInit
<1>1. ProbesTypeOK
  BY DEF ProbesTypeOK, NoTest, NoResults, Unasked
<1>2. ASSUME NEW x \in TestIds PROVE OneEach(x) /\ Ours(x)
  BY DEF OneEach, Ours, UnderWay, Unasked
<1>3. RowsExplained
  BY DEF RowsExplained, NoResults
<1> QED BY <1>1, <1>2, <1>3 DEF ProbesInv

LEMMA TestTyped ==
  ASSUME ProbesTypeOK
  PROVE  test \in [TestIds -> ProbeState] /\ tests \in Nat /\ MaxTests \in Nat
BY ProbesAssumption DEF ProbesTypeOK, ProbeState

(* A new test has no rows yet, and no test was begun after it. *)
LEMMA StartTyped ==
  ASSUME ProbesInv, NEW p \in Tested, Start(p)
  PROVE  /\ tests' \in 0..MaxTests /\ tests' = tests + 1 /\ tests' \in TestIds
         /\ test' \in [TestIds -> ProbeState]
         /\ test'[tests'] = [of |-> p, at |-> "sent", trying |-> {}, rows |-> {}]
         /\ \A x \in TestIds : x # tests' => test'[x] = test[x]
         /\ awaited' = tests' /\ results' = NoResults
         /\ test[tests'].at = "over"
<1> USE ProbesAssumption
<1>1. tests' \in 0..MaxTests /\ tests' = tests + 1 /\ tests' \in TestIds
  BY DEF Start, ProbesInv, ProbesTypeOK, TestIds
<1>2. [Unasked EXCEPT !.of = p, !.at = "sent"]
        = [of |-> p, at |-> "sent", trying |-> {}, rows |-> {}]
  <2> DEFINE u1 == [Unasked EXCEPT !.of = p]
  <2>1. u1 = [of |-> p, at |-> "over", trying |-> {}, rows |-> {}]
    BY DEF Unasked
  <2> HIDE DEF u1
  <2>2. [u1 EXCEPT !.at = "sent"] = [of |-> p, at |-> "sent", trying |-> {}, rows |-> {}]
    BY <2>1
  <2> QED BY <2>2 DEF u1
<1>3. [of |-> p, at |-> "sent", trying |-> {}, rows |-> {}] \in ProbeState
  BY DEF ProbeState
<1>4. test \in [TestIds -> ProbeState]
  BY TestTyped DEF ProbesInv
<1>5. test' = [test EXCEPT ![tests'] = [of |-> p, at |-> "sent", trying |-> {}, rows |-> {}]]
  BY <1>2 DEF Start
<1>6. /\ test' \in [TestIds -> ProbeState]
      /\ test'[tests'] = [of |-> p, at |-> "sent", trying |-> {}, rows |-> {}]
      /\ \A x \in TestIds : x # tests' => test'[x] = test[x]
  BY <1>1, <1>3, <1>4, <1>5
<1>7. test[tests'].at = "over"
  BY <1>1, TestTyped DEF ProbesInv, Ours, UnderWay
<1> QED BY <1>1, <1>6, <1>7 DEF Start, Emptied

LEMMA StartKeeps ==
  ASSUME ProbesInv, NEW p \in Tested, Start(p), subject' = p,
         late' \subseteq 1..tests,
         \/ late' = Outdated
         \/ late' = late /\ subject = p,
         UNCHANGED <<enabled, answering, shifts>>
  PROVE  ProbesInv'
<1> USE ProbesAssumption
<1>0. tests \in Nat /\ test \in [TestIds -> ProbeState]
  BY TestTyped DEF ProbesInv
<1>s. /\ tests' \in 0..MaxTests /\ tests' = tests + 1 /\ tests' \in TestIds
      /\ test' \in [TestIds -> ProbeState]
      /\ test'[tests'] = [of |-> p, at |-> "sent", trying |-> {}, rows |-> {}]
      /\ \A x \in TestIds : x # tests' => test'[x] = test[x]
      /\ awaited' = tests' /\ results' = NoResults
      /\ test[tests'].at = "over"
  BY StartTyped
<1>1. ProbesTypeOK'
  <2>1. late' \subseteq 1..tests' /\ awaited' \in 0..tests'
    BY <1>0, <1>s
  <2>2. results' \in [by : 0..tests', rows : SUBSET TestRows]
    BY <1>0, <1>s DEF NoResults, NoTest
  <2>3. test' \in [TestIds -> [of : Tested \cup {NoSubject}, trying : SUBSET Spots,
                           at : {"sent", "trying", "answered", "over"}, rows : SUBSET TestRows]]
    BY <1>s DEF ProbeState
  <2>4. tests' \in 0..MaxTests
    BY <1>s
  <2> QED BY <2>1, <2>2, <2>3, <2>4 DEF ProbesInv, ProbesTypeOK
<1>2. ASSUME NEW x \in TestIds PROVE OneEach(x)' /\ Ours(x)'
  <2>1. CASE x = tests'
    BY <1>0, <2>1, <1>s DEF OneEach, Ours
  <2>2. CASE x # tests'
    <3>1. test'[x] = test[x]
      BY <2>2, <1>s
    <3>2. OneEach(x)'
      BY <3>1 DEF ProbesInv, OneEach
    <3>3. ASSUME UnderWay(x)' PROVE x <= tests' /\ test'[x].of \in Tested
      BY <1>0, <3>1, <3>3, <1>s DEF ProbesInv, Ours, UnderWay
    <3>4. ASSUME UnderWay(x)', x \notin late' PROVE test'[x].of = subject'
      <4>1. UnderWay(x)
        BY <3>1, <3>4 DEF UnderWay
      <4>2. late' = late /\ subject = p
        BY <3>4, <4>1 DEF Outdated
      <4>3. p # NoSubject
        OBVIOUS
      <4> QED BY <3>1, <3>4, <4>1, <4>2, <4>3 DEF ProbesInv, Ours
    <3> QED BY <3>2, <3>3, <3>4 DEF Ours
  <2> QED BY <2>1, <2>2
<1>3. RowsExplained'
  <2>1. results'.by = NoTest /\ results'.rows = {}
    BY <1>s DEF NoResults
  <2>2. UnderWay(awaited)'
    BY <1>s DEF UnderWay
  <2> QED BY <2>1, <2>2, <1>s DEF RowsExplained
<1> QED BY <1>1, <1>2, <1>3 DEF ProbesInv

LEMMA OpenTestInv ==
  ASSUME ProbesInv, OpenTest PROVE ProbesInv'
<1>1. PICK p \in Tested : subject' = p /\ Start(p)
  BY DEF OpenTest
<1>2. Outdated \subseteq 1..tests
  BY ProbesAssumption, TestTyped DEF ProbesInv, Ours, Outdated, TestIds
<1> QED BY <1>1, <1>2, StartKeeps DEF OpenTest

LEMMA RerunInv ==
  ASSUME ProbesInv, Rerun PROVE ProbesInv'
<1>1. subject \in Tested /\ late \subseteq 1..tests
  BY DEF Rerun, ProbesInv, ProbesTypeOK
<1> QED BY <1>1, StartKeeps DEF Rerun

LEMMA CloseTestInv ==
  ASSUME ProbesInv, CloseTest PROVE ProbesInv'
<1>1. ProbesTypeOK'
  BY DEF CloseTest, ProbesInv, ProbesTypeOK
<1>2. ASSUME NEW x \in TestIds PROVE OneEach(x)' /\ Ours(x)'
  BY DEF CloseTest, ProbesInv, OneEach, Ours, UnderWay
<1>3. RowsExplained'
  BY DEF CloseTest, ProbesInv, RowsExplained, UnderWay
<1> QED BY <1>1, <1>2, <1>3 DEF ProbesInv

(* One test goes on or ends: what it is of stays. *)
LEMMA TestMoves ==
  ASSUME ProbesInv, NEW x \in TestIds, NEW s \in ProbeState, s.of = test[x].of,
         test' = [test EXCEPT ![x] = s], UnderWay(x),
         s.at \in {"sent", "over"} => s.rows = {},
         \A r \in s.rows : r.spot \notin s.trying,
         \A r, q \in s.rows : r.spot = q.spot => r = q,
         \/ UNCHANGED results
         \/ results' = [by |-> x, rows |-> test[x].rows],
         \/ UNCHANGED awaited /\ s.at # "over"
         \/ awaited' = Settled(x),
         UNCHANGED <<subject, enabled, answering, tests, shifts, late>>
  PROVE  ProbesInv'
<1> USE ProbesAssumption
<1>0. tests \in Nat /\ test \in [TestIds -> ProbeState] /\ x \in 1..tests
  BY TestTyped DEF ProbesInv, Ours, TestIds
<1>a. test' \in [TestIds -> ProbeState] /\ test'[x] = s
      /\ \A y \in TestIds : y # x => test'[y] = test[y]
  BY <1>0
<1>b. \A y \in TestIds : test'[y].of = test[y].of
  BY <1>a
<1>1. ProbesTypeOK'
  <2>1. results' \in [by : 0..tests, rows : SUBSET TestRows]
    BY <1>0 DEF ProbesInv, ProbesTypeOK, ProbeState
  <2>2. awaited' \in 0..tests
    BY <1>0 DEF ProbesInv, ProbesTypeOK, Settled, NoTest
  <2>3. test' \in [TestIds -> [of : Tested \cup {NoSubject}, trying : SUBSET Spots,
                           at : {"sent", "trying", "answered", "over"}, rows : SUBSET TestRows]]
    BY <1>a DEF ProbeState
  <2> QED BY <2>1, <2>2, <2>3 DEF ProbesInv, ProbesTypeOK
<1>2. ASSUME NEW y \in TestIds PROVE OneEach(y)'
  <2>1. CASE y = x
    BY <1>a, <2>1 DEF OneEach
  <2>2. CASE y # x
    BY <1>a, <2>2 DEF ProbesInv, OneEach
  <2> QED BY <2>1, <2>2
<1>3. ASSUME NEW y \in TestIds PROVE Ours(y)'
  <2>1. UnderWay(y)' => UnderWay(y)
    BY <1>a DEF UnderWay
  <2> QED BY <1>b, <2>1 DEF ProbesInv, Ours
<1>4. RowsExplained'
  <2>1. ASSUME subject' # NoSubject, results'.by \notin {NoTest} \cup late'
        PROVE  test'[results'.by].of = subject'
    <3>1. CASE results' = [by |-> x, rows |-> test[x].rows]
      BY <1>b, <2>1, <3>1 DEF ProbesInv, Ours
    <3>2. CASE UNCHANGED results
      <4>1. results.by \in TestIds
        BY <2>1, <3>2 DEF ProbesInv, ProbesTypeOK, TestIds, NoTest
      <4> QED BY <1>b, <2>1, <3>2, <4>1 DEF ProbesInv, RowsExplained
    <3> QED BY <3>1, <3>2
  <2>2. ASSUME NEW r \in results'.rows, NEW q \in results'.rows, r.spot = q.spot PROVE r = q
    <3>1. CASE results' = [by |-> x, rows |-> test[x].rows]
      BY <2>2, <3>1 DEF ProbesInv, OneEach
    <3>2. CASE UNCHANGED results
      BY <2>2, <3>2 DEF ProbesInv, RowsExplained
    <3> QED BY <3>1, <3>2
  <2>3. ASSUME awaited' # NoTest PROVE awaited' = tests' /\ UnderWay(awaited)'
    <3>1. awaited' = awaited /\ awaited = tests /\ UnderWay(awaited)
      BY <2>3 DEF ProbesInv, RowsExplained, Settled
    <3>2. awaited \in TestIds
      BY <2>3, <3>1 DEF ProbesInv, ProbesTypeOK, TestIds, NoTest
    <3>3. test'[awaited].at # "over"
      BY <1>a, <2>3, <3>1, <3>2 DEF UnderWay, Settled
    <3> QED BY <3>1, <3>3 DEF UnderWay
  <2> QED BY <2>1, <2>2, <2>3 DEF RowsExplained
<1> QED BY <1>1, <1>2, <1>3, <1>4 DEF ProbesInv

LEMMA ReadTargetsInv ==
  ASSUME ProbesInv, NEW x \in TestIds, ReadTargets(x) PROVE ProbesInv'
<1>1. test[x] \in ProbeState /\ UnderWay(x)
  BY TestTyped DEF ProbesInv, ReadTargets, UnderWay
<1> DEFINE e == enabled[test[x].of]
           at == IF e = {} THEN "answered" ELSE "trying"
           s1 == [test[x] EXCEPT !.trying = e]
           s == [s1 EXCEPT !.at = at]
<1>2. e \subseteq Spots
  BY <1>1 DEF ProbesInv, Ours, ProbesTypeOK
<1>3. test' = [test EXCEPT ![x] = s]
  BY TestTyped, Zenon DEF ReadTargets, ProbesInv
<1>4. test[x].rows = {}
  BY DEF ProbesInv, OneEach, ReadTargets
<1>5. at \in {"answered", "trying"}
  OBVIOUS
<1> HIDE DEF e, at
<1>6. s1 \in ProbeState /\ s1.of = test[x].of /\ s1.rows = {}
  BY <1>1, <1>2, <1>4 DEF ProbeState
<1> HIDE DEF s1
<1>7. s \in ProbeState /\ s.of = test[x].of /\ s.rows = {} /\ s.at = at
  BY <1>5, <1>6 DEF ProbeState
<1> HIDE DEF s
<1>8. UNCHANGED <<subject, awaited, results, enabled, answering, tests, shifts, late>>
  BY DEF ReadTargets
<1> QED BY <1>1, <1>3, <1>5, <1>7, <1>8, TestMoves

LEMMA TryInv ==
  ASSUME ProbesInv, NEW x \in TestIds, Try(x) PROVE ProbesInv'
<1>1. PICK z \in test[x].trying, v \in Verdicts :
       test' = [test EXCEPT ![x].trying = @ \ {z},
                     ![x].rows = @ \cup {[spot |-> z, verdict |-> v]},
                     ![x].at = IF test[x].trying = {z} THEN "answered" ELSE "trying"]
  BY DEF Try
<1> DEFINE row == [spot |-> z, verdict |-> v]
           at == IF test[x].trying = {z} THEN "answered" ELSE "trying"
           s1 == [test[x] EXCEPT !.trying = test[x].trying \ {z}]
           s2 == [s1 EXCEPT !.rows = test[x].rows \cup {row}]
           s == [s2 EXCEPT !.at = at]
<1>2. test[x] \in ProbeState /\ UnderWay(x)
  BY TestTyped DEF ProbesInv, Try, UnderWay
<1>3. test' = [test EXCEPT ![x] = s]
  <2>1. test \in [TestIds -> ProbeState]
    BY TestTyped DEF ProbesInv
  <2>2. s1.rows = test[x].rows
    BY <1>2 DEF ProbeState
  <2>3. test' = [test EXCEPT ![x] = [[[test[x] EXCEPT !.trying = test[x].trying \ {z}]
                     EXCEPT !.rows = @ \cup {row}] EXCEPT !.at = at]]
    BY <1>1, <2>1, Zenon
  <2> QED BY <2>2, <2>3
<1>4. row \in TestRows /\ row.spot = z
  BY <1>2 DEF ProbeState, TestRows
<1>5. at \in {"answered", "trying"}
  OBVIOUS
<1> HIDE DEF row, at
<1>6. s1 \in ProbeState /\ s1.of = test[x].of /\ s1.trying = test[x].trying \ {z}
  BY <1>2 DEF ProbeState
<1> HIDE DEF s1
<1>7. s2 \in ProbeState /\ s2.of = test[x].of /\ s2.trying = test[x].trying \ {z}
      /\ s2.rows = test[x].rows \cup {row}
  BY <1>2, <1>4, <1>6 DEF ProbeState
<1> HIDE DEF s2
<1>8. s \in ProbeState /\ s.of = test[x].of /\ s.trying = test[x].trying \ {z}
      /\ s.rows = test[x].rows \cup {row} /\ s.at = at
  BY <1>5, <1>7 DEF ProbeState
<1> HIDE DEF s
<1>9. \A r \in s.rows : r.spot \notin s.trying
  BY <1>4, <1>8 DEF ProbesInv, OneEach
<1>10. ASSUME NEW r \in s.rows, NEW q \in s.rows, r.spot = q.spot PROVE r = q
  <2>1. \A o \in test[x].rows : o.spot # z
    BY DEF ProbesInv, OneEach
  <2> QED BY <1>4, <1>8, <1>10, <2>1 DEF ProbesInv, OneEach
<1>11. UNCHANGED <<subject, awaited, results, enabled, answering, tests, shifts, late>>
  BY DEF Try
<1> QED BY <1>2, <1>3, <1>5, <1>8, <1>9, <1>10, <1>11, TestMoves

LEMMA FinishedTyped ==
  ASSUME NEW s \in ProbeState
  PROVE  /\ Finished(s) \in ProbeState /\ Finished(s).of = s.of
         /\ Finished(s).rows = {} /\ Finished(s).at = "over"
BY DEF ProbeState, Finished, Unasked

LEMMA EndTestInv ==
  ASSUME ProbesInv, NEW x \in TestIds, TakeRows(x) \/ TestFails(x) PROVE ProbesInv'
<1> DEFINE s == Finished(test[x])
<1>1. test[x] \in ProbeState /\ UnderWay(x)
  BY TestTyped DEF ProbesInv, TakeRows, TestFails, UnderWay
<1>2. test' = [test EXCEPT ![x] = s] /\ awaited' = Settled(x)
      /\ (UNCHANGED results \/ results' = [by |-> x, rows |-> test[x].rows])
      /\ UNCHANGED <<subject, enabled, answering, tests, shifts, late>>
  BY DEF TakeRows, TestFails
<1>3. s \in ProbeState /\ s.of = test[x].of /\ s.rows = {} /\ s.at = "over"
  BY <1>1, FinishedTyped
<1> HIDE DEF s
<1> QED BY <1>1, <1>2, <1>3, TestMoves

LEMMA ShiftInv ==
  ASSUME ProbesInv, Shift PROVE ProbesInv'
<1>0. enabled' \in [Tested -> SUBSET Spots] /\ answering' \subseteq Spots
      /\ shifts' \in 0..MaxShifts
  BY ProbesAssumption DEF Shift, ProbesInv, ProbesTypeOK
<1>1. ProbesTypeOK'
  BY <1>0 DEF Shift, ProbesInv, ProbesTypeOK
<1>2. ASSUME NEW x \in TestIds PROVE OneEach(x)' /\ Ours(x)'
  BY DEF Shift, ProbesInv, OneEach, Ours, UnderWay
<1>3. RowsExplained'
  BY DEF Shift, ProbesInv, RowsExplained, UnderWay
<1> QED BY <1>1, <1>2, <1>3 DEF ProbesInv

LEMMA ProbesSteps == ProbesInv /\ [ProbesNext]_probesVars => ProbesInv'
<1> SUFFICES ASSUME ProbesInv, [ProbesNext]_probesVars PROVE ProbesInv'
  OBVIOUS
<1>1. CASE OpenTest \/ Rerun \/ CloseTest \/ Shift
  BY <1>1, OpenTestInv, RerunInv, CloseTestInv, ShiftInv
<1>2. CASE \E x \in TestIds : ReadTargets(x) \/ Try(x) \/ TakeRows(x) \/ TestFails(x)
  BY <1>2, ReadTargetsInv, TryInv, EndTestInv
<1>3. CASE UNCHANGED probesVars
  <2>1. ProbesTypeOK'
    BY <1>3 DEF probesVars, ProbesInv, ProbesTypeOK
  <2>2. ASSUME NEW x \in TestIds PROVE OneEach(x)' /\ Ours(x)'
    BY <1>3 DEF probesVars, ProbesInv, OneEach, Ours, UnderWay
  <2>3. RowsExplained'
    BY <1>3 DEF probesVars, ProbesInv, RowsExplained, UnderWay
  <2> QED BY <2>1, <2>2, <2>3 DEF ProbesInv
<1> QED BY <1>1, <1>2, <1>3 DEF ProbesNext

LEMMA ProbesInvHolds == ProbesSpec => []ProbesInv
BY ProbesStart, ProbesSteps, PTL DEF ProbesSpec

(* The dialog, its tests and what is reachable are always of their types. *)
THEOREM ProbesTypeCorrect == ProbesSpec => []ProbesTypeOK
<1>1. ProbesInv => ProbesTypeOK
  BY DEF ProbesInv
<1> QED BY <1>1, ProbesInvHolds, PTL

(* The dialog shows the rows of its profile, one for a spot, but for those *)
(* of a test that was under way when it was opened; and the button waits   *)
(* for the newest test (TestConnectModal.tsx:27).                          *)
THEOREM RowsExplainedHolds == ProbesSpec => []RowsExplained
<1>1. ProbesInv => RowsExplained
  BY DEF ProbesInv
<1> QED BY <1>1, ProbesInvHolds, PTL
=============================================================================

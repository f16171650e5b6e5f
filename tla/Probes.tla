------------------------------- MODULE Probes --------------------------------
(***************************************************************************)
(* "Test connect": the dialog of a profile asks the panel to try every     *)
(* enabled binding and host of it, and the panel answers with a row for    *)
(* each once the last of them has connected, failed or timed out.          *)
(*                                                                         *)
(* The dialog starts a test when it is opened and at "Re-run"; a test it   *)
(* no longer waits for goes on, and its answer is shown all the same.      *)
(***************************************************************************)
EXTENDS Integers

CONSTANTS
  Tested,      \* profiles
  Spots,       \* the bindings and hosts of a profile
  NoSubject,   \* no profile: the dialog is closed
  MaxTests,    \* bound: tests
  MaxShifts    \* bound: changes of what is enabled and of what answers

ASSUME ProbesAssumption ==
  NoSubject \notin Tested /\ MaxTests \in Nat /\ MaxShifts \in Nat

VARIABLES
  subject,     \* the profile whose dialog is open
  awaited,     \* the test its button waits for
  results,     \* the rows it shows, and the test they are of
  test,        \* each test: whose, how far, what is still tried, the rows
  enabled,     \* the enabled spots of each profile
  answering,   \* the spots that accept a connection
  tests, shifts,  \* counters of the bounds
  late         \* history: the tests under way when the dialog was opened

probesVars == <<subject, awaited, results, test, enabled, answering, tests, shifts, late>>

NoTest == 0
TestIds == 1..MaxTests
NoResults == [by |-> NoTest, rows |-> {}]
Verdicts == {"ok", "error", "timeout"}
TestRows == [spot : Spots, verdict : Verdicts]
Unasked == [of |-> NoSubject, at |-> "over", trying |-> {}, rows |-> {}]
UnderWay(x) == test[x].at # "over"
Outdated == {x \in TestIds : UnderWay(x)}

------------------------------------------------------------------------------
(* MUTANT: the rows of the test before stay in the dialog. *)
Emptied_Not == results
Emptied == NoResults

(* mutate: the button waits for the new test, whatever the others do. *)
Start(p) ==
  /\ tests < MaxTests /\ tests' = tests + 1
  /\ test' = [test EXCEPT ![tests'] = [Unasked EXCEPT !.of = p, !.at = "sent"]]
  /\ awaited' = tests' /\ results' = Emptied

OpenTest ==
  /\ subject = NoSubject
  /\ \E p \in Tested : subject' = p /\ Start(p)
  /\ late' = Outdated
  /\ UNCHANGED <<enabled, answering, shifts>>

(* The button cannot be pressed while it waits. *)
Rerun ==
  /\ subject # NoSubject /\ awaited = NoTest
  /\ Start(subject)
  /\ UNCHANGED <<subject, enabled, answering, shifts, late>>

CloseTest ==
  /\ subject # NoSubject /\ subject' = NoSubject
  /\ UNCHANGED <<awaited, results, test, enabled, answering, tests, shifts, late>>

(* The profile's bindings and their hosts, read once. *)
ReadTargets(x) ==
  /\ test[x].at = "sent"
  /\ test' = [test EXCEPT ![x].trying = enabled[test[x].of],
                          ![x].at = IF enabled[test[x].of] = {} THEN "answered" ELSE "trying"]
  /\ UNCHANGED <<subject, awaited, results, enabled, answering, tests, shifts, late>>

(* PROBE_TIMEOUT_MS may be over before a spot that answers has done so. *)
Verdict(s) == {"timeout"} \cup (IF s \in answering THEN {"ok"} ELSE {"error"})

(* All spots are tried side by side; the last one makes the answer. *)
Try(x) ==
  /\ test[x].at = "trying"
  /\ \E s \in test[x].trying, v \in Verdicts :
       /\ v \in Verdict(s)
       /\ test' = [test EXCEPT ![x].trying = @ \ {s},
                     ![x].rows = @ \cup {[spot |-> s, verdict |-> v]},
                     ![x].at = IF test[x].trying = {s} THEN "answered" ELSE "trying"]
  /\ UNCHANGED <<subject, awaited, results, enabled, answering, tests, shifts, late>>

Finished(t) == [Unasked EXCEPT !.of = t.of]
Settled(x) == IF awaited = x THEN NoTest ELSE awaited

(* onSuccess is that of every test, not of the awaited one only. *)
TakeRows(x) ==
  /\ test[x].at = "answered"
  /\ results' = [by |-> x, rows |-> test[x].rows]
  /\ awaited' = Settled(x)
  /\ test' = [test EXCEPT ![x] = Finished(@)]
  /\ UNCHANGED <<subject, enabled, answering, tests, shifts, late>>

(* The profile is gone, the panel fails, or the answer is lost. *)
TestFails(x) ==
  /\ UnderWay(x)
  /\ awaited' = Settled(x)
  /\ test' = [test EXCEPT ![x] = Finished(@)]
  /\ UNCHANGED <<subject, results, enabled, answering, tests, shifts, late>>

Shift ==
  /\ shifts < MaxShifts /\ shifts' = shifts + 1
  /\ \E s \in Spots :
       \/ /\ answering' = IF s \in answering THEN answering \ {s} ELSE answering \cup {s}
          /\ UNCHANGED enabled
       \/ /\ \E p \in Tested :
               enabled' = [enabled EXCEPT ![p] = IF s \in @ THEN @ \ {s} ELSE @ \cup {s}]
          /\ UNCHANGED answering
  /\ UNCHANGED <<subject, awaited, results, test, tests, late>>

ProbesInit ==
  /\ subject = NoSubject /\ awaited = NoTest /\ results = NoResults
  /\ test = [x \in TestIds |-> Unasked]
  /\ enabled = [p \in Tested |-> Spots] /\ answering = Spots
  /\ tests = 0 /\ shifts = 0 /\ late = {}

ProbesNext ==
  \/ OpenTest \/ Rerun \/ CloseTest \/ Shift
  \/ \E x \in TestIds : ReadTargets(x) \/ Try(x) \/ TakeRows(x) \/ TestFails(x)

ProbesSpec == ProbesInit /\ [][ProbesNext]_probesVars

------------------------------------------------------------------------------
ProbesTypeOK ==
  /\ subject \in Tested \cup {NoSubject} /\ awaited \in 0..tests
  /\ results \in [by : 0..tests, rows : SUBSET TestRows]
  /\ test \in [TestIds -> [of : Tested \cup {NoSubject}, trying : SUBSET Spots,
                           at : {"sent", "trying", "answered", "over"}, rows : SUBSET TestRows]]
  /\ enabled \in [Tested -> SUBSET Spots] /\ answering \subseteq Spots
  /\ tests \in 0..MaxTests /\ shifts \in 0..MaxShifts /\ late \subseteq 1..tests

(* "The panel fires outbound probes against every binding x host"          *)
(* (TestConnectModal.tsx:27): the rows in the dialog of a profile are of a  *)
(* test of that profile, with one row for a spot, unless a test that was   *)
(* under way when the dialog was opened answered late; and the button      *)
(* waits for the newest test, as long as that is under way.                *)
RowsExplained ==
  /\ subject # NoSubject /\ results.by \notin {NoTest} \cup late =>
       test[results.by].of = subject
  /\ \A r, q \in results.rows : r.spot = q.spot => r = q
  /\ awaited # NoTest => awaited = tests /\ UnderWay(awaited)
==============================================================================

------------------------------ MODULE UserMaps ------------------------------
(***************************************************************************)
(* What the panel's models take an agent for: sets of users, one per       *)
(* adapter, and calls that add a user or remove one.  Between the moment a *)
(* call is received and the moment it is answered it takes effect on every *)
(* map it is about, exactly once and at one instant each, whether the      *)
(* answer is a success or an error; when the agent's process ends, the     *)
(* maps and the calls are gone.                                            *)
(***************************************************************************)
CONSTANTS User, Slot, Adapter

VARIABLES
    holds, \* the users in each map
    call   \* the calls being handled, one per slot; due: where not yet effective

vars == <<holds, call>>

NoCall == [op |-> "none", who |-> {}, due |-> {}]

Init ==
    /\ holds = [k \in Adapter |-> {}]
    /\ call = [s \in Slot |-> NoCall]

Call == [op : {"add", "remove"}, who : {{u} : u \in User}, due : SUBSET Adapter]

Receive(s) ==
    /\ call[s] = NoCall
    /\ call'[s] \in Call
    /\ call' = [call EXCEPT ![s] = call'[s]]
    /\ UNCHANGED holds

TakeEffect(s, k) ==
    /\ k \in call[s].due
    /\ holds' = [holds EXCEPT ![k] = IF call[s].op = "add" THEN @ \cup call[s].who
                                     ELSE @ \ call[s].who]
    /\ call' = [call EXCEPT ![s].due = @ \ {k}]

Answer(s) ==
    /\ call[s].due = {}
    /\ call' = [call EXCEPT ![s] = NoCall]
    /\ UNCHANGED holds

ProcessEnds ==
    /\ holds' = [k \in Adapter |-> {}]
    /\ call' = [s \in Slot |-> NoCall]

Next ==
    \/ \E s \in Slot : Receive(s) \/ Answer(s) \/ \E k \in Adapter : TakeEffect(s, k)
    \/ ProcessEnds

Spec == Init /\ [][Next]_vars

=============================================================================

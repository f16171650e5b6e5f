-------------------------------- MODULE Deploy --------------------------------
(***************************************************************************)
(* The bindings of profiles to nodes: the handlers of the API that create, *)
(* move and delete them, and the screens that call these several times for *)
(* one click - the deploy dialog of a profile, which turns a selection of  *)
(* nodes into the calls that are missing, and the wizard that registers a  *)
(* node and binds the profiles picked for it one after the other.          *)
(*                                                                         *)
(* Calls run side by side, each a row of the database at a time; other     *)
(* admins bind, move, unbind and delete meanwhile.                         *)
(***************************************************************************)
EXTENDS Naturals, FiniteSets

CONSTANTS
  Profiles, Sites,  \* profiles; nodes that are registered or may be
  NoProfile,        \* no dialog, no save
  MaxClicks,        \* bound: clicks of the admin
  MaxTrouble        \* bound: acts of other admins, and faults

ASSUME DeployAssumption ==
  /\ IsFiniteSet(Profiles) /\ IsFiniteSet(Sites) /\ NoProfile \notin Profiles \cup Sites
  /\ MaxClicks \in Nat /\ MaxTrouble \in Nat

VARIABLES
  screen,      \* what this admin uses: the dialog or the wizard
  bindings,    \* the table: [profile, site, port, id]
  minted,      \* binding ids given so far
  site,        \* each node: absent, up, clearing (being deleted) or deleted
  profile,     \* each profile: [at, affected], affected being read by its deletion
  heard,       \* the bindings of each node when an event last told of it
  calls,       \* the API calls under way
  lists,       \* what the dialog's query holds for each profile: [known, rows]
  reads,       \* the fetch of each: [at, rows]
  dialog,      \* the deploy dialog: [profile, selected]
  saving,      \* its save: [profile, wanted, pending, stale]
  wizard,      \* the wizard: [site, todo, ok, fail, moved]
  clicks, trouble,  \* counters of the bounds
  excused      \* history: <<why, node>> a binding went unannounced

deployVars == <<screen, bindings, minted, site, profile, heard, calls, lists, reads, dialog,
                saving, wizard, clicks, trouble, excused>>

Ports == {443, 8443}
On(s, table) == {b \in table : b.site = s}
Of(p, table) == {b \in table : b.profile = p}
Bound(p, s) == On(s, Of(p, bindings)) # {}
PortTaken(s, port) == \E b \in On(s, bindings) : b.port = port

Click == clicks < MaxClicks /\ clicks' = clicks + 1 /\ UNCHANGED trouble
Trouble == trouble < MaxTrouble /\ trouble' = trouble + 1 /\ UNCHANGED clicks

NoSave == [profile |-> NoProfile, wanted |-> {}, pending |-> {}, stale |-> {}]
NoWizard == [site |-> NoProfile, todo |-> {}, ok |-> {}, fail |-> {}, moved |-> FALSE]
NoDialog == [profile |-> NoProfile, selected |-> {}]
NoRead == [at |-> "none", rows |-> {}]

Call(by, what, p, s, port, id) ==
  [by |-> by, what |-> what, profile |-> p, site |-> s, port |-> port, id |-> id, at |-> "sent"]

------------------------------------------------------------------------------
(* The answer of a call, to the dialog, the wizard or nobody we watch.      *)

(* The first call that fails fails the save; the others run on unattended. *)
AnswerDialog(c, ok) ==
  IF ok
  THEN /\ saving' = [saving EXCEPT !.pending = @ \ {c.site}]
       /\ calls' = calls \ {c}
  ELSE /\ saving' = NoSave
       /\ calls' = {IF d.by = "dialog" THEN [d EXCEPT !.by = "other"] ELSE d :
                      d \in calls \ {c}}

AnswerWizard(c, ok) ==
  /\ wizard' = IF ok THEN [wizard EXCEPT !.ok = @ \cup {c.profile}]
                     ELSE [wizard EXCEPT !.fail = @ \cup {c.profile}]
  /\ calls' = calls \ {c}

(* Somebody else was at work on the nodes S of the profile p: history of    *)
(* the save and of the wizard.                                              *)
Touched(p, S) ==
  saving' = IF saving # NoSave /\ p = saving.profile THEN [saving EXCEPT !.stale = @ \cup S] ELSE saving
Moved(S) == wizard' = IF wizard.site \in S THEN [wizard EXCEPT !.moved = TRUE] ELSE wizard

Answer(c, ok) ==
  CASE c.by = "dialog" -> AnswerDialog(c, ok) /\ Moved({c.site})
    [] c.by = "wizard" -> AnswerWizard(c, ok) /\ Touched(c.profile, {c.site})
    [] OTHER -> /\ calls' = calls \ {c}
                /\ Touched(c.profile, {c.site}) /\ Moved({c.site})

(* The answer of a call that did its work may still be lost. *)
Reply(c) ==
  \/ Answer(c, TRUE) /\ UNCHANGED <<clicks, trouble>>
  \/ Trouble /\ Answer(c, FALSE)

Announce(S) == heard' = [s \in Sites |-> IF s \in S THEN On(s, bindings') ELSE heard[s]]

LoseCall(c) ==
  /\ c.at = "sent" /\ Trouble /\ Answer(c, FALSE)
  /\ UNCHANGED <<screen, bindings, minted, site, profile, heard, lists, reads, dialog, excused>>

------------------------------------------------------------------------------
(* createBinding: look, insert, give the binding its default host, tell. *)

(* MUTANT: only the port is looked at. *)
Conflict_PortOnly(c) == PortTaken(c.site, c.port)
Conflict(c) == PortTaken(c.site, c.port) \/ Bound(c.profile, c.site)

CheckBinding(c) ==
  /\ c.what = "create" /\ c.at = "sent"
  /\ IF profile[c.profile].at = "gone" \/ site[c.site] \notin {"up", "clearing"} \/ Conflict(c)
     THEN Answer(c, FALSE)
     ELSE /\ calls' = (calls \ {c}) \cup {[c EXCEPT !.at = "insert"]}
          /\ UNCHANGED <<saving, wizard>>
  /\ UNCHANGED <<screen, bindings, minted, site, profile, heard, lists, reads, dialog, clicks, trouble, excused>>

(* The unique constraints and the foreign key; a deleted node keeps its row. *)
InsertBinding(c) ==
  /\ c.at = "insert"
  /\ IF profile[c.profile].at = "gone" \/ Conflict(c)
     THEN Answer(c, FALSE) /\ UNCHANGED <<bindings, minted, excused>>
     ELSE /\ minted' = minted + 1
          /\ bindings' = bindings \cup {[profile |-> c.profile, site |-> c.site,
                                         port |-> c.port, id |-> minted']}
          /\ calls' = (calls \ {c}) \cup {[c EXCEPT !.at = "host", !.id = minted']}
          /\ excused' = IF site[c.site] = "up" THEN excused
                        ELSE excused \cup {<<"phantom", c.site>>}
          /\ UNCHANGED <<saving, wizard>>
  /\ UNCHANGED <<screen, site, profile, heard, lists, reads, dialog, clicks, trouble>>

(* Without its host the caller is told of an error, and the node nothing,   *)
(* of a binding that is there.                                              *)
HostBinding(c) ==
  /\ c.at = "host"
  /\ \/ /\ \E b \in bindings : b.id = c.id
        /\ bindings' = bindings /\ Announce({c.site})
        /\ Reply(c)
        /\ UNCHANGED excused
     \/ /\ \E b \in bindings : b.id = c.id
        /\ Trouble /\ Answer(c, FALSE)
        /\ excused' = excused \cup {<<"hostless", c.site>>}
        /\ UNCHANGED <<bindings, heard>>
     \/ /\ \A b \in bindings : b.id # c.id
        /\ Answer(c, FALSE)
        /\ UNCHANGED <<bindings, heard, clicks, trouble, excused>>
  /\ UNCHANGED <<screen, minted, site, profile, lists, reads, dialog>>

------------------------------------------------------------------------------
(* deleteBinding and updateBinding, by the id the caller read in a list. *)

(* MUTANT: the node is not told. *)
DeleteBinding_Silent(c) ==
  /\ c.what = "delete"
  /\ IF \E b \in bindings : b.id = c.id
     THEN /\ bindings' = {b \in bindings : b.id # c.id}
          /\ Reply(c)
     ELSE Answer(c, FALSE) /\ UNCHANGED <<bindings, clicks, trouble>>
  /\ UNCHANGED <<screen, minted, site, profile, heard, lists, reads, dialog, excused>>

DeleteBinding(c) ==
  /\ c.what = "delete"
  /\ IF \E b \in bindings : b.id = c.id
     THEN /\ bindings' = {b \in bindings : b.id # c.id}
          /\ Announce({c.site})
          /\ Reply(c)
     ELSE Answer(c, FALSE) /\ UNCHANGED <<bindings, heard, clicks, trouble>>
  /\ UNCHANGED <<screen, minted, site, profile, lists, reads, dialog, excused>>

UpdatePort(c) ==
  /\ c.what = "port"
  /\ IF \E b \in bindings : b.id = c.id /\ ~PortTaken(c.site, c.port)
     THEN /\ bindings' = {IF b.id = c.id THEN [b EXCEPT !.port = c.port] ELSE b : b \in bindings}
          /\ Announce({c.site})
          /\ Reply(c)
     ELSE Answer(c, FALSE) /\ UNCHANGED <<bindings, heard, clicks, trouble>>
  /\ UNCHANGED <<screen, minted, site, profile, lists, reads, dialog, excused>>

(* Another admin's node dialog or script: one call at a time. *)
OtherCall ==
  /\ \A c \in calls : c.by # "other"
  /\ Trouble
  /\ \/ \E p \in Profiles, s \in Sites, port \in Ports :
          site[s] # "absent" /\ calls' = calls \cup {Call("other", "create", p, s, port, 0)}
     \/ \E b \in bindings :
          calls' = calls \cup {Call("other", "delete", b.profile, b.site, b.port, b.id)}
     \/ \E b \in bindings, port \in Ports :
          /\ port # b.port
          /\ calls' = calls \cup {Call("other", "port", b.profile, b.site, port, b.id)}
  /\ UNCHANGED <<screen, bindings, minted, site, profile, heard, lists, reads, dialog, saving, wizard, excused>>

(* deleteNode: its bindings go first, and no event tells of them. *)
ClearNode(s) ==
  /\ site[s] = "up" /\ Trouble
  /\ site' = [site EXCEPT ![s] = "clearing"]
  /\ bindings' = bindings \ On(s, bindings)
  /\ Touched(saving.profile, {s}) /\ Moved({s})
  /\ UNCHANGED <<screen, minted, profile, heard, calls, lists, reads, dialog, excused>>

SoftDelete(s) ==
  /\ site[s] = "clearing"
  /\ site' = [site EXCEPT ![s] = "deleted"]
  /\ UNCHANGED <<screen, bindings, minted, profile, heard, calls, lists, reads, dialog, saving, wizard,
                 clicks, trouble, excused>>

(* deleteProfile: the nodes are read, and told after the cascade. *)
ReadAffected(p) ==
  /\ profile[p].at = "kept" /\ Trouble
  /\ profile' = [profile EXCEPT ![p] = [at |-> "leaving",
                                        affected |-> {b.site : b \in Of(p, bindings)}]]
  /\ UNCHANGED <<screen, bindings, minted, site, heard, calls, lists, reads, dialog, saving, wizard, excused>>

DeleteProfile(p) ==
  /\ profile[p].at = "leaving"
  /\ profile' = [profile EXCEPT ![p] = [at |-> "gone", affected |-> {}]]
  /\ bindings' = bindings \ Of(p, bindings)
  /\ Announce(profile[p].affected)
  /\ Touched(p, Sites) /\ Moved(Sites)
  /\ excused' = excused \cup {<<"cascade", b.site>> :
                                b \in {x \in Of(p, bindings) : x.site \notin profile[p].affected}}
  /\ UNCHANGED <<screen, minted, site, calls, lists, reads, dialog, clicks, trouble>>

------------------------------------------------------------------------------
(* The deploy dialog. *)

Listed(p) == {b.site : b \in lists[p].rows}

OpenDeploy(p) ==
  /\ screen = "dialog" /\ dialog = NoDialog /\ Click
  /\ dialog' = [profile |-> p, selected |-> Listed(p)]
  /\ reads' = IF lists[p].known \/ reads[p].at # "none" THEN reads
              ELSE [reads EXCEPT ![p].at = "asked"]
  /\ UNCHANGED <<screen, bindings, minted, site, profile, heard, calls, lists, saving, wizard, excused>>

CloseDeploy ==
  /\ dialog # NoDialog /\ dialog' = NoDialog
  /\ UNCHANGED <<screen, bindings, minted, site, profile, heard, calls, lists, reads, saving, wizard,
                 clicks, trouble, excused>>

(* The window is looked at again and the list has grown stale. *)
Refetch(p) ==
  /\ dialog.profile = p /\ lists[p].known /\ reads[p].at = "none"
  /\ reads' = [reads EXCEPT ![p].at = "asked"]
  /\ UNCHANGED <<screen, bindings, minted, site, profile, heard, calls, lists, dialog, saving, wizard,
                 clicks, trouble, excused>>

(* listBindings leaves out the nodes that are deleted. *)
ReadBindings(p) ==
  /\ reads[p].at = "asked"
  /\ reads' = [reads EXCEPT ![p] =
       [at |-> "read", rows |-> {[site |-> b.site, id |-> b.id] :
                                   b \in {x \in Of(p, bindings) : site[x.site] # "deleted"}}]]
  /\ UNCHANGED <<screen, bindings, minted, site, profile, heard, calls, lists, dialog, saving, wizard,
                 clicks, trouble, excused>>

(* A list that differs from the one before draws the selection anew. *)
BindingsArrive(p) ==
  /\ reads[p].at = "read"
  /\ reads' = [reads EXCEPT ![p] = NoRead]
  /\ lists' = [lists EXCEPT ![p] = [known |-> TRUE, rows |-> reads[p].rows]]
  /\ dialog' = IF dialog.profile = p /\ lists'[p] # lists[p]
               THEN [dialog EXCEPT !.selected = {b.site : b \in reads[p].rows}] ELSE dialog
  /\ UNCHANGED <<screen, bindings, minted, site, profile, heard, calls, saving, wizard, clicks, trouble, excused>>

ReadLost(p) ==
  /\ reads[p].at # "none" /\ Trouble
  /\ reads' = [reads EXCEPT ![p] = NoRead]
  /\ UNCHANGED <<screen, bindings, minted, site, profile, heard, calls, lists, dialog, saving, wizard, excused>>

Toggle(s) ==
  /\ dialog # NoDialog /\ lists[dialog.profile].known
  /\ site[s] # "absent" /\ Click
  /\ dialog' = [dialog EXCEPT !.selected = (@ \ {s}) \cup ({s} \ @)]
  /\ UNCHANGED <<screen, bindings, minted, site, profile, heard, calls, lists, reads, saving, wizard, excused>>

(* MUTANT: nodes that are no longer selected are left bound. *)
MissingCalls_CreateOnly(p, selected, port) ==
  {Call("dialog", "create", p, s, port, 0) : s \in selected \ Listed(p)}

(* The calls a selection lacks, by the list the dialog has. *)
MissingCalls(p, selected, port) ==
  {Call("dialog", "create", p, s, port, 0) : s \in selected \ Listed(p)}
  \cup {Call("dialog", "delete", p, b.site, port, b.id) :
          b \in {x \in lists[p].rows : x.site \notin selected}}

(* The sites the list has wrong. *)
Stale(p) ==
  {s \in Sites : {b.id : b \in On(s, Of(p, bindings))} # {b.id : b \in On(s, lists[p].rows)}}

SaveDeploy(port) ==
  /\ dialog # NoDialog /\ lists[dialog.profile].known
  /\ dialog.selected # Listed(dialog.profile)
  /\ saving = NoSave /\ Click
  /\ LET p == dialog.profile
         missing == MissingCalls(p, dialog.selected, port)
     IN /\ calls' = calls \cup missing
        /\ saving' = [profile |-> p, wanted |-> dialog.selected,
                      pending |-> {c.site : c \in missing},
                      stale |-> Stale(p) \cup {c.site : c \in Of(p, calls)}]
  /\ UNCHANGED <<screen, bindings, minted, site, profile, heard, lists, reads, dialog, wizard, excused>>

(* Every call was answered: the query of the open dialog is fetched again   *)
(* and whatever dialog is open is closed.                                   *)
FinishDeploy ==
  /\ saving # NoSave /\ saving.pending = {}
  /\ saving' = NoSave
  /\ dialog' = NoDialog
  /\ reads' = IF dialog = NoDialog THEN reads
              ELSE [reads EXCEPT ![dialog.profile] = [at |-> "asked", rows |-> {}]]
  /\ UNCHANGED <<screen, bindings, minted, site, profile, heard, calls, lists, wizard, clicks, trouble, excused>>

------------------------------------------------------------------------------
(* The wizard: the node is registered, then each profile is bound in turn,  *)
(* all on the same port, and a failure does not stop the others.            *)

RegisterNode(s) ==
  /\ screen = "wizard" /\ site[s] = "absent" /\ wizard = NoWizard /\ Click
  /\ site' = [site EXCEPT ![s] = "up"]
  /\ \E picked \in (SUBSET Profiles) \ {{}} :
       wizard' = [NoWizard EXCEPT !.site = s, !.todo = picked]
  /\ UNCHANGED <<screen, bindings, minted, profile, heard, calls, lists, reads, dialog, saving, excused>>

BindNext(p) ==
  /\ p \in wizard.todo /\ \A c \in calls : c.by # "wizard"
  /\ wizard' = [wizard EXCEPT !.todo = @ \ {p}]
  /\ calls' = calls \cup {Call("wizard", "create", p, wizard.site, 443, 0)}
  /\ UNCHANGED <<screen, bindings, minted, site, profile, heard, lists, reads, dialog, saving, clicks, trouble, excused>>

FinishWizard ==
  /\ wizard # NoWizard /\ wizard.todo = {} /\ \A c \in calls : c.by # "wizard"
  /\ wizard' = NoWizard
  /\ UNCHANGED <<screen, bindings, minted, site, profile, heard, calls, lists, reads, dialog, saving, clicks, trouble, excused>>

------------------------------------------------------------------------------
DeployInit ==
  /\ screen \in {"dialog", "wizard"}
  /\ site \in [Sites -> {"up", "absent"}] /\ \E s \in Sites : site[s] = "up"
  /\ screen = "wizard" <=> \E s \in Sites : site[s] = "absent"
  /\ bindings \in {{}} \cup {{[profile |-> p, site |-> s, port |-> 443, id |-> 1]} :
                               p \in Profiles, s \in {x \in Sites : site[x] = "up"}}
  /\ minted = 1
  /\ profile = [p \in Profiles |-> [at |-> "kept", affected |-> {}]]
  /\ heard = [s \in Sites |-> On(s, bindings)]
  /\ calls = {}
  /\ lists = [p \in Profiles |-> [known |-> FALSE, rows |-> {}]]
  /\ reads = [p \in Profiles |-> NoRead]
  /\ dialog = NoDialog /\ saving = NoSave /\ wizard = NoWizard
  /\ clicks = 0 /\ trouble = 0 /\ excused = {}

DeployNext ==
  \/ \E c \in calls :
       \/ LoseCall(c) \/ CheckBinding(c) \/ InsertBinding(c) \/ HostBinding(c)
       \/ DeleteBinding(c) \/ UpdatePort(c)
  \/ \E p \in Profiles :
       \/ ReadAffected(p) \/ DeleteProfile(p) \/ BindNext(p)
       \/ OpenDeploy(p) \/ Refetch(p) \/ ReadBindings(p) \/ BindingsArrive(p) \/ ReadLost(p)
  \/ \E s \in Sites : ClearNode(s) \/ SoftDelete(s) \/ Toggle(s) \/ RegisterNode(s)
  \/ \E port \in Ports : SaveDeploy(port)
  \/ OtherCall \/ CloseDeploy \/ FinishDeploy \/ FinishWizard

DeploySpec == DeployInit /\ [][DeployNext]_deployVars

------------------------------------------------------------------------------
(* The table keeps its unique constraints, a save waits for calls that run, *)
(* and the wizard's profiles are each in one of its three states.           *)
DeployTypeOK ==
  /\ bindings \subseteq [profile : Profiles, site : Sites, port : Ports, id : 1..minted]
  /\ \A b, c \in bindings : b # c =>
       /\ b.id # c.id
       /\ b.site = c.site => b.port # c.port /\ b.profile # c.profile
  /\ saving.pending = {c.site : c \in {d \in calls : d.by = "dialog"}}
  /\ wizard.todo \cap (wizard.ok \cup wizard.fail) = {} /\ wizard.ok \cap wizard.fail = {}
  /\ dialog.profile \in Profiles \cup {NoProfile} /\ dialog.selected \subseteq Sites
  /\ clicks \in 0..MaxClicks /\ trouble \in 0..MaxTrouble

(* What the screens report (DeployProfileModal.tsx:79, NodesPage.tsx:539).  *)
(* A save that ends well leaves the profile bound to exactly the nodes that *)
(* were selected, but for those where the dialog's list was out of date or  *)
(* somebody else was at work.  The wizard binds what it reports as bound,   *)
(* and of the profiles picked no more than one, all being given one port,   *)
(* unless somebody was at work on the new node.                             *)
DeployExplained ==
  [][/\ FinishDeploy =>
          \A s \in Sites :
            \/ Bound(saving.profile, s) <=> s \in saving.wanted
            \/ s \in saving.stale \/ On(s, Of(saving.profile, calls)) # {}
     /\ FinishWizard /\ ~wizard.moved =>
          /\ \A p \in wizard.ok : Bound(p, wizard.site)
          /\ Cardinality(wizard.ok) <= 1]_deployVars

(* What the nodes hear (profiles.service.ts:157, createBinding's events): a *)
(* node that is not deleted was told of its bindings as they are, unless a  *)
(* call is between its row and its event; a default host could not be       *)
(* stored after its binding; or a profile was deleted while it was being    *)
(* bound.  And a deleted node has bindings only when one was being made     *)
(* while it was deleted.                                                    *)
EventsExplained ==
  \A s \in Sites :
    IF site[s] \in {"up", "absent"}
    THEN \/ heard[s] = On(s, bindings)
         \/ \E c \in calls : c.site = s /\ c.at = "host"
         \/ <<"hostless", s>> \in excused \/ <<"cascade", s>> \in excused
    ELSE On(s, bindings) # {} => <<"phantom", s>> \in excused
==============================================================================

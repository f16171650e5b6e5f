----------------------------- MODULE Panel_proofs -----------------------------
(***************************************************************************)
(* For every set of profiles, nodes and rows and every number of clicks,   *)
(* calls and faults: the types of Deploy, what its screens report and what *)
(* the nodes have heard of their bindings; the types of Console, that its  *)
(* list is the table, that nothing typed is lost and that a save writes    *)
(* what was typed, but for the named exceptions.  Last, that the parts of  *)
(* the panel compose.                                                      *)
(***************************************************************************)
EXTENDS MCPanel, Requests_proofs

------------------------------------------------------------------------------
(* What is always true of the table, the calls and the screens. *)

Binding == [profile : Profiles, site : Sites, port : Ports, id : 1..minted]
ApiCall == [by : {"dialog", "wizard", "other"}, what : {"create", "delete", "port"},
            profile : Profiles, site : Sites, port : Ports, id : 0..minted,
            at : {"sent", "insert", "host"}]
ListRow == [site : Sites, id : 1..minted]

(* The constraints of the table. *)
Table ==
  /\ minted \in Nat
  /\ bindings \subseteq Binding
  /\ \A b, c \in bindings : b # c =>
       /\ b.id # c.id
       /\ b.site = c.site => b.port # c.port /\ b.profile # c.profile

(* An id that a call or a list holds is of no other node or profile. *)
CallsNamed ==
  /\ calls \subseteq ApiCall
  /\ \A c \in calls : c.at # "sent" => c.what = "create"
  /\ \A c \in calls, b \in bindings : b.id = c.id => b.site = c.site /\ b.profile = c.profile

RowsNamed(p, R) ==
  /\ R \subseteq ListRow
  /\ \A r, q \in R : r.site = q.site => r = q
  /\ \A r \in R, b \in bindings : b.id = r.id => b.site = r.site /\ b.profile = p

Listing ==
  /\ lists \in [Profiles -> [known : BOOLEAN, rows : SUBSET ListRow]]
  /\ reads \in [Profiles -> [at : {"none", "asked", "read"}, rows : SUBSET ListRow]]
  /\ \A p \in Profiles : RowsNamed(p, lists[p].rows) /\ RowsNamed(p, reads[p].rows)

(* The calls of the dialog are those of its save, at most one for a node. *)
Saves ==
  /\ saving \in [profile : Profiles \cup {NoProfile}, wanted : SUBSET Sites,
                 pending : SUBSET Sites, stale : SUBSET Sites]
  /\ saving.profile = NoProfile => saving = NoSave
  /\ saving.pending = {c.site : c \in {d \in calls : d.by = "dialog"}}
  /\ \A c \in calls : c.by = "dialog" =>
       /\ c.profile = saving.profile
       /\ c.what = IF c.site \in saving.wanted THEN "create" ELSE "delete"
  /\ \A c, d \in calls : c.by = "dialog" /\ d.by = "dialog" /\ c.site = d.site => c = d

(* The wizard has one call at a time. *)
Wizards ==
  /\ wizard \in [site : Sites \cup {NoProfile}, todo : SUBSET Profiles, ok : SUBSET Profiles,
                 fail : SUBSET Profiles, moved : BOOLEAN]
  /\ wizard.todo \cap (wizard.ok \cup wizard.fail) = {} /\ wizard.ok \cap wizard.fail = {}
  /\ wizard.todo # {} => wizard.site \in Sites
  /\ \A c \in calls : c.by = "wizard" =>
       /\ c.site = wizard.site /\ c.port = 443 /\ c.what = "create"
       /\ c.profile \notin wizard.todo \cup wizard.ok \cup wizard.fail
  /\ \A c, d \in calls : c.by = "wizard" /\ d.by = "wizard" => c = d

Screens ==
  /\ dialog \in [profile : Profiles \cup {NoProfile}, selected : SUBSET Sites]
  /\ dialog.profile = NoProfile => dialog = NoDialog
  /\ clicks \in 0..MaxClicks /\ trouble \in 0..MaxTrouble
  /\ profile \in [Profiles -> [at : {"kept", "leaving", "gone"}, affected : SUBSET Sites]]
  /\ site \in [Sites -> {"absent", "up", "clearing", "deleted"}]

(* What a save has done so far. *)
SaveDone ==
  saving.profile # NoProfile =>
    \A s \in Sites : \/ Bound(saving.profile, s) <=> s \in saving.wanted
                     \/ s \in saving.stale
                     \/ \E c \in calls : c.profile = saving.profile /\ c.site = s

(* What the wizard has done so far, all of it on one port. *)
WizardDone ==
  ~wizard.moved =>
    /\ \A p \in wizard.ok :
         \E b \in bindings : b.profile = p /\ b.site = wizard.site /\ b.port = 443
    /\ \A c \in calls, b \in bindings : c.by = "wizard" /\ b.id = c.id => b.port = 443

(* Why a node may not have heard of its bindings as they are: one of them   *)
(* is between its row and its event, or the history says.                   *)
Owed(s) == \E c \in calls : c.site = s /\ c.at = "host" /\ \E b \in bindings : b.id = c.id
Heard ==
  \A s \in Sites :
    IF site[s] \in {"up", "absent"}
    THEN \/ heard[s] = On(s, bindings) \/ Owed(s)
         \/ <<"hostless", s>> \in excused \/ <<"cascade", s>> \in excused
    ELSE On(s, bindings) # {} => <<"phantom", s>> \in excused

Orderly == CallsNamed /\ Listing /\ Saves /\ Wizards
DeployInv == Table /\ Orderly /\ Screens /\ SaveDone /\ WizardDone /\ Heard

------------------------------------------------------------------------------
(* The answer of a call. *)

(* d is the call e, but that the dialog may have stopped waiting for it. *)
Like(d, e) ==
  /\ e.what = d.what /\ e.profile = d.profile /\ e.site = d.site
  /\ e.port = d.port /\ e.id = d.id /\ e.at = d.at
  /\ e.by = d.by \/ (d.by = "dialog" /\ e.by = "other")

(* The calls but c are the calls that go on. *)
OtherCalls(c) ==
  /\ \A e \in calls' : e \in ApiCall /\ \E d \in calls \ {c} : Like(d, e)
  /\ \A d \in calls \ {c} : \E e \in calls' : Like(d, e)

(* The table only loses rows or changes their ports. *)
Fewer ==
  /\ minted' = minted
  /\ \A e \in bindings' : \E b \in bindings :
       e.id = b.id /\ e.site = b.site /\ e.profile = b.profile

(* What an answer does to the calls and to the screen that waited for it. *)
LEMMA AnswerEffect ==
  ASSUME DeployInv, NEW c \in calls, NEW ok \in BOOLEAN, Answer(c, ok)
  PROVE  /\ OtherCalls(c)
         /\ saving' = CASE c.by = "dialog" /\ ok -> [saving EXCEPT !.pending = @ \ {c.site}]
                        [] c.by = "dialog" /\ ~ok -> NoSave
                        [] OTHER -> IF saving # NoSave /\ c.profile = saving.profile
                                    THEN [saving EXCEPT !.stale = @ \cup {c.site}] ELSE saving
         /\ wizard' = CASE c.by = "wizard" /\ ok -> [wizard EXCEPT !.ok = @ \cup {c.profile}]
                        [] c.by = "wizard" /\ ~ok -> [wizard EXCEPT !.fail = @ \cup {c.profile}]
                        [] OTHER -> IF wizard.site = c.site THEN [wizard EXCEPT !.moved = TRUE]
                                    ELSE wizard
         /\ c.by = "dialog" /\ ~ok => \A e \in calls' : e.by # "dialog"
         /\ ~(c.by = "dialog" /\ ~ok) => calls' = calls \ {c}
<1>1. calls \subseteq ApiCall
  BY DEF DeployInv, Orderly, CallsNamed
<1>2. \A d \in ApiCall : Like(d, d)
  BY DEF Like
<1>3. CASE c.by = "dialog" /\ ~ok
  <2>. DEFINE R(d) == IF d.by = "dialog" THEN [d EXCEPT !.by = "other"] ELSE d
  <2>1. calls' = {R(d) : d \in calls \ {c}}
    BY <1>3 DEF Answer, AnswerDialog
  <2>2. \A d \in ApiCall : R(d) \in ApiCall /\ Like(d, R(d)) /\ R(d).by # "dialog"
    BY DEF ApiCall, Like
  <2>. HIDE DEF R
  <2>3. OtherCalls(c) /\ \A e \in calls' : e.by # "dialog"
    BY <1>1, <2>1, <2>2 DEF OtherCalls
  <2>4. saving' = NoSave
        /\ wizard' = IF wizard.site = c.site THEN [wizard EXCEPT !.moved = TRUE] ELSE wizard
    BY <1>3 DEF Answer, AnswerDialog, Moved
  <2>. QED BY <1>3, <2>3, <2>4
<1>4. CASE ~(c.by = "dialog" /\ ~ok)
  <2>1. calls' = calls \ {c}
    BY <1>4 DEF Answer, AnswerDialog, AnswerWizard
  <2>2. OtherCalls(c)
    BY <1>1, <1>2, <2>1 DEF OtherCalls
  <2>3. CASE c.by = "dialog"
    BY <1>4, <2>1, <2>2, <2>3 DEF Answer, AnswerDialog, Moved
  <2>4. CASE c.by = "wizard"
    BY <1>4, <2>1, <2>2, <2>4 DEF Answer, AnswerWizard, Touched
  <2>5. CASE c.by # "dialog" /\ c.by # "wizard"
    BY <1>4, <2>1, <2>2, <2>5 DEF Answer, Touched, Moved
  <2>. QED BY <2>3, <2>4, <2>5
<1>. QED BY <1>3, <1>4

(* No id is taken for another's when rows go. *)
LEMMA FewerNamed ==
  ASSUME CallsNamed, Listing, Fewer, NEW c \in calls, OtherCalls(c),
         lists' = lists, reads' = reads, minted \in Nat
  PROVE  CallsNamed' /\ Listing'
<1>1. ListRow' = ListRow /\ ApiCall' = ApiCall
  BY DEF Fewer, ListRow, ApiCall
<1>2. CallsNamed'
  BY <1>1 DEF CallsNamed, OtherCalls, Like, Fewer
<1>3. \A p \in Profiles : RowsNamed(p, lists[p].rows)' /\ RowsNamed(p, reads[p].rows)'
  BY <1>1 DEF Listing, RowsNamed, Fewer
<1>. QED BY <1>1, <1>2, <1>3 DEF Listing

(* An answer leaves calls, lists and screens in order. *)
LEMMA AnswerOrderly ==
  ASSUME DeployInv, NEW c \in calls, NEW ok \in BOOLEAN, Answer(c, ok),
         Fewer, lists' = lists, reads' = reads
  PROVE  Orderly'
<1>1. CallsNamed' /\ Listing'
  BY AnswerEffect, FewerNamed DEF DeployInv, Table, Orderly
<1>2. c \in ApiCall
  BY DEF DeployInv, Orderly, CallsNamed
<1>3. Saves'
  <2>1. CASE c.by = "dialog" /\ ~ok
    <3>1. saving' = NoSave /\ \A e \in calls' : e.by # "dialog"
      BY <2>1, AnswerEffect
    <3>. QED BY <3>1 DEF Saves, NoSave
  <2>2. CASE c.by = "dialog" /\ ok
    <3>1. calls' = calls \ {c} /\ saving' = [saving EXCEPT !.pending = @ \ {c.site}]
      BY <2>2, AnswerEffect
    <3>2. /\ saving'.profile = saving.profile /\ saving'.wanted = saving.wanted
          /\ saving'.stale = saving.stale /\ saving'.pending = saving.pending \ {c.site}
          /\ saving' \in [profile : Profiles \cup {NoProfile}, wanted : SUBSET Sites,
                          pending : SUBSET Sites, stale : SUBSET Sites]
      BY <3>1 DEF DeployInv, Orderly, Saves
    <3>3. saving.profile # NoProfile
      BY <1>2, <2>2, DeployAssumption DEF DeployInv, Orderly, Saves, ApiCall
    <3>4. saving'.pending = {d.site : d \in {e \in calls' : e.by = "dialog"}}
      BY <2>2, <3>1, <3>2 DEF DeployInv, Orderly, Saves
    <3>. QED BY <3>1, <3>2, <3>3, <3>4 DEF DeployInv, Orderly, Saves
  <2>3. CASE c.by # "dialog"
    <3>1. calls' = calls \ {c}
      BY <2>3, AnswerEffect
    <3>2. saving' = IF saving # NoSave /\ c.profile = saving.profile
                    THEN [saving EXCEPT !.stale = @ \cup {c.site}] ELSE saving
      BY <2>3, AnswerEffect
    <3>3. /\ saving'.profile = saving.profile /\ saving'.wanted = saving.wanted
          /\ saving'.pending = saving.pending
          /\ saving' \in [profile : Profiles \cup {NoProfile}, wanted : SUBSET Sites,
                          pending : SUBSET Sites, stale : SUBSET Sites]
      BY <1>2, <3>2 DEF DeployInv, Orderly, Saves, ApiCall
    <3>4. saving'.profile = NoProfile => saving' = NoSave
      BY <3>2, <3>3 DEF DeployInv, Orderly, Saves
    <3>5. saving'.pending = {d.site : d \in {e \in calls' : e.by = "dialog"}}
      BY <2>3, <3>1, <3>3 DEF DeployInv, Orderly, Saves
    <3>. QED BY <3>1, <3>3, <3>4, <3>5 DEF DeployInv, Orderly, Saves
  <2>. QED BY <1>2, <2>1, <2>2, <2>3
<1>4. Wizards'
  <2>1. \A e \in calls' : e.by = "wizard" =>
          \E d \in calls \ {c} : Like(d, e) /\ d.by = "wizard"
    BY AnswerEffect DEF OtherCalls, Like
  <2>2. CASE c.by = "wizard"
    <3>1. calls' = calls \ {c}
      BY <2>2, AnswerEffect
    <3>2. \A e \in calls' : e.by # "wizard"
      BY <2>2, <3>1 DEF DeployInv, Orderly, Wizards
    <3>3. wizard' \in {[wizard EXCEPT !.ok = @ \cup {c.profile}],
                       [wizard EXCEPT !.fail = @ \cup {c.profile}]}
      BY <2>2, AnswerEffect
    <3>4. c.profile \in Profiles \ (wizard.todo \cup wizard.ok \cup wizard.fail)
      BY <1>2, <2>2 DEF DeployInv, Orderly, Wizards, ApiCall
    <3>5. CASE wizard' = [wizard EXCEPT !.ok = @ \cup {c.profile}]
      BY <3>2, <3>4, <3>5 DEF DeployInv, Orderly, Wizards
    <3>6. CASE wizard' = [wizard EXCEPT !.fail = @ \cup {c.profile}]
      BY <3>2, <3>4, <3>6 DEF DeployInv, Orderly, Wizards
    <3>. QED BY <3>3, <3>5, <3>6
  <2>3. CASE c.by # "wizard"
    <3>1. wizard' \in {wizard, [wizard EXCEPT !.moved = TRUE]}
      BY <2>3, AnswerEffect
    <3>2. /\ wizard' \in [site : Sites \cup {NoProfile}, todo : SUBSET Profiles, ok : SUBSET Profiles,
                          fail : SUBSET Profiles, moved : BOOLEAN]
          /\ wizard'.site = wizard.site /\ wizard'.todo = wizard.todo
          /\ wizard'.ok = wizard.ok /\ wizard'.fail = wizard.fail
      <4>1. wizard \in [site : Sites \cup {NoProfile}, todo : SUBSET Profiles,
                        ok : SUBSET Profiles, fail : SUBSET Profiles, moved : BOOLEAN]
        BY DEF DeployInv, Orderly, Wizards
      <4>2. CASE wizard' = wizard
        BY <4>1, <4>2
      <4>3. CASE wizard' = [wizard EXCEPT !.moved = TRUE]
        BY <4>1, <4>3
      <4>. QED BY <3>1, <4>2, <4>3
    <3>3. \A e \in calls' : e.by = "wizard" => e \in calls
      <4>1. CASE c.by = "dialog" /\ ~ok
        <5>. SUFFICES ASSUME NEW e \in calls', e.by = "wizard" PROVE e \in calls
          OBVIOUS
        <5>1. e \in ApiCall /\ \E d \in calls : Like(d, e) /\ d.by = "wizard" /\ d \in ApiCall
          BY <2>1, AnswerEffect DEF OtherCalls, DeployInv, Orderly, CallsNamed
        <5>2. \A d \in ApiCall : Like(d, e) /\ d.by = e.by => d = e
          BY <5>1 DEF Like, ApiCall
        <5>. QED BY <5>1, <5>2
      <4>2. CASE ~(c.by = "dialog" /\ ~ok)
        BY <4>2, AnswerEffect
      <4>. QED BY <4>1, <4>2
    <3>. QED BY <3>2, <3>3 DEF DeployInv, Orderly, Wizards
  <2>. QED BY <2>2, <2>3
<1>. QED BY <1>1, <1>3, <1>4 DEF Orderly

(* What the save and the wizard have done stays true when only the rows of  *)
(* the answered call have changed, and an answer without an error means     *)
(* what it says.                                                            *)
LEMMA AnswerDone ==
  ASSUME DeployInv, NEW c \in calls, NEW ok \in BOOLEAN, Answer(c, ok), Orderly',
         \A p \in Profiles, s \in Sites : p # c.profile \/ s # c.site => (Bound(p, s)' <=> Bound(p, s)),
         \A s \in Sites : s # c.site => On(s, bindings)' = On(s, bindings),
         bindings' \subseteq Binding,
         c.by = "dialog" /\ ok => (Bound(c.profile, c.site)' <=> c.site \in saving.wanted),
         c.by = "wizard" => /\ bindings' = bindings
                            /\ ok => c.at = "host" /\ \E b \in bindings : b.id = c.id
  PROVE  SaveDone' /\ WizardDone'
<1>1. c \in ApiCall /\ calls \subseteq ApiCall
  BY DEF DeployInv, Orderly, CallsNamed
<1>2. ASSUME NEW p \in Profiles, NEW s \in Sites, p # c.profile \/ s # c.site,
             NEW d \in calls, d.profile = p, d.site = s
      PROVE  \E e \in calls' : e.profile = p /\ e.site = s
  BY <1>2, AnswerEffect DEF OtherCalls, Like
<1>3. SaveDone'
  <2>1. CASE c.by = "dialog" /\ ~ok
    BY <2>1, AnswerEffect DEF SaveDone, NoSave
  <2>2. CASE c.by = "dialog" /\ ok
    <3>1. saving'.profile = saving.profile /\ saving'.wanted = saving.wanted
          /\ saving'.stale = saving.stale
      BY <2>2, AnswerEffect DEF DeployInv, Orderly, Saves
    <3>2. c.profile = saving.profile
      BY <2>2 DEF DeployInv, Orderly, Saves
    <3>3. saving.profile # NoProfile => saving.profile \in Profiles
      BY DEF DeployInv, Orderly, Saves
    <3>. QED BY <1>2, <2>2, <3>1, <3>2, <3>3 DEF SaveDone, DeployInv, Bound
  <2>3. CASE c.by # "dialog"
    <3>1. saving' = IF saving # NoSave /\ c.profile = saving.profile
                    THEN [saving EXCEPT !.stale = @ \cup {c.site}] ELSE saving
      BY <2>3, AnswerEffect
    <3>2. /\ saving'.profile = saving.profile /\ saving'.wanted = saving.wanted
          /\ saving.stale \subseteq saving'.stale
          /\ saving.profile # NoProfile /\ c.profile = saving.profile => c.site \in saving'.stale
      BY <3>1 DEF DeployInv, Orderly, Saves, NoSave
    <3>3. saving.profile # NoProfile => saving.profile \in Profiles
      BY DEF DeployInv, Orderly, Saves
    <3>. QED BY <1>2, <3>2, <3>3 DEF SaveDone, DeployInv, Bound
  <2>. QED BY <1>1, <2>1, <2>2, <2>3
<1>4. WizardDone'
  <2>1. CASE c.by = "wizard"
    <3>1. bindings' = bindings /\ calls' = calls \ {c} /\ c.site = wizard.site
      BY <2>1, AnswerEffect DEF DeployInv, Orderly, Wizards
    <3>2. CASE ok
      <4>1. wizard' = [wizard EXCEPT !.ok = @ \cup {c.profile}]
        BY <2>1, <3>2, AnswerEffect
      <4>2. wizard'.ok = wizard.ok \cup {c.profile} /\ wizard'.site = wizard.site
            /\ wizard'.moved = wizard.moved
        BY <4>1 DEF DeployInv, Orderly, Wizards
      <4>3. PICK b \in bindings : b.id = c.id
        BY <2>1, <3>2
      <4>4. b.site = c.site /\ b.profile = c.profile
        BY <4>3 DEF DeployInv, Orderly, CallsNamed
      <4>5. ~wizard.moved => b.port = 443
        BY <2>1, <4>3 DEF DeployInv, WizardDone
      <4>. QED BY <3>1, <4>2, <4>4, <4>5 DEF DeployInv, WizardDone
    <3>3. CASE ~ok
      <4>1. wizard' = [wizard EXCEPT !.fail = @ \cup {c.profile}]
        BY <2>1, <3>3, AnswerEffect
      <4>2. wizard'.ok = wizard.ok /\ wizard'.site = wizard.site /\ wizard'.moved = wizard.moved
        BY <4>1 DEF DeployInv, Orderly, Wizards
      <4>. QED BY <3>1, <4>2 DEF DeployInv, WizardDone
    <3>. QED BY <3>2, <3>3
  <2>2. CASE c.by # "wizard" /\ wizard.site = c.site
    <3>1. wizard'.moved
      BY <2>2, AnswerEffect DEF DeployInv, Orderly, Wizards
    <3>. QED BY <3>1 DEF WizardDone
  <2>3. CASE c.by # "wizard" /\ wizard.site # c.site
    <3>1. wizard' = wizard
      BY <2>3, AnswerEffect
    <3>2. ASSUME ~wizard.moved, NEW p \in wizard.ok
          PROVE  \E b \in bindings' : b.profile = p /\ b.site = wizard.site /\ b.port = 443
      <4>1. PICK b \in bindings : b.profile = p /\ b.site = wizard.site /\ b.port = 443
        BY <3>2 DEF DeployInv, WizardDone
      <4>2. b.site \in Sites
        BY DEF DeployInv, Table, Binding
      <4>. QED BY <2>3, <4>1, <4>2 DEF On
    <3>3. ASSUME ~wizard.moved, NEW e \in calls', NEW b \in bindings', e.by = "wizard", b.id = e.id
          PROVE  b.port = 443
      <4>1. PICK d \in calls : Like(d, e) /\ d.by = "wizard"
        BY <3>3, AnswerEffect DEF OtherCalls, Like
      <4>2. b.site = e.site /\ b.site \in Sites
        BY <3>3 DEF Orderly, CallsNamed, Binding
      <4>3. e.site = wizard.site
        BY <4>1 DEF Like, DeployInv, Orderly, Wizards
      <4>4. b \in bindings
        BY <2>3, <4>2, <4>3 DEF On
      <4>. QED BY <3>3, <4>1, <4>4 DEF Like, DeployInv, WizardDone
    <3>. QED BY <3>1, <3>2, <3>3 DEF WizardDone
  <2>. QED BY <2>1, <2>2, <2>3
<1>. QED BY <1>3, <1>4

(* An answer that tells the node nothing, as there is nothing to tell.      *)
LEMMA AnswerSilent ==
  ASSUME DeployInv, NEW c \in calls, OtherCalls(c), bindings' = bindings, heard' = heard, site' = site,
         excused \subseteq excused',
         c.at = "host" => (\A b \in bindings : b.id # c.id) \/ <<"hostless", c.site>> \in excused'
  PROVE  Heard'
<1>. SUFFICES ASSUME NEW s \in Sites
              PROVE  IF site'[s] \in {"up", "absent"}
                     THEN \/ heard'[s] = On(s, bindings') \/ Owed(s)'
                          \/ <<"hostless", s>> \in excused' \/ <<"cascade", s>> \in excused'
                     ELSE On(s, bindings') # {} => <<"phantom", s>> \in excused'
  BY DEF Heard
<1>1. Owed(s) => Owed(s)' \/ <<"hostless", s>> \in excused'
  BY DEF Owed, OtherCalls, Like
<1>. QED BY <1>1 DEF DeployInv, Heard

(* An answer that comes with the event of its node. *)
LEMMA AnswerTells ==
  ASSUME DeployInv, NEW c \in calls, OtherCalls(c), Announce({c.site}), Fewer, site' = site,
         excused' = excused, bindings' \subseteq Binding,
         \A s \in Sites : s # c.site => On(s, bindings)' = On(s, bindings)
  PROVE  Heard'
<1>. SUFFICES ASSUME NEW s \in Sites
              PROVE  IF site'[s] \in {"up", "absent"}
                     THEN \/ heard'[s] = On(s, bindings') \/ Owed(s)'
                          \/ <<"hostless", s>> \in excused' \/ <<"cascade", s>> \in excused'
                     ELSE On(s, bindings') # {} => <<"phantom", s>> \in excused'
  BY DEF Heard
<1>1. On(s, bindings') # {} => On(s, bindings) # {}
  BY DEF Fewer, On
<1>2. CASE s = c.site
  <2>1. heard'[s] = On(s, bindings')
    BY <1>2 DEF Announce
  <2>. QED BY <1>1, <2>1 DEF DeployInv, Heard
<1>3. CASE s # c.site
  <2>1. heard'[s] = heard[s] /\ On(s, bindings') = On(s, bindings)
    BY <1>3 DEF Announce
  <2>2. Owed(s) => Owed(s)'
    <3>. SUFFICES ASSUME Owed(s) PROVE Owed(s)'
      OBVIOUS
    <3>1. PICK d \in calls, b \in bindings : d.site = s /\ d.at = "host" /\ b.id = d.id
      BY DEF Owed
    <3>2. b \in bindings'
      BY <2>1, <3>1 DEF On, DeployInv, Orderly, CallsNamed
    <3>3. \E e \in calls' : Like(d, e)
      BY <1>3, <3>1 DEF OtherCalls
    <3>. QED BY <3>1, <3>2, <3>3 DEF Owed, Like
  <2>. QED BY <2>1, <2>2 DEF DeployInv, Heard
<1>. QED BY <1>2, <1>3

(* The parts of the invariant no call and no screen touches. *)
LEMMA SameScreens ==
  ASSUME Screens, dialog' = dialog, profile' = profile, site' = site,
         UNCHANGED <<clicks, trouble>> \/ Click \/ Trouble
  PROVE  Screens'
<1>1. clicks' \in 0..MaxClicks /\ trouble' \in 0..MaxTrouble
  BY DeployAssumption DEF Screens, Click, Trouble
<1>. QED BY <1>1 DEF Screens

(* A table that is as it was keeps its constraints. *)
LEMMA SameTable ==
  ASSUME Table, bindings' = bindings, minted' = minted
  PROVE  Table' /\ Fewer
BY DEF Table, Fewer, Binding

(* An answer after which the table is as it was. *)
LEMMA AnswerUnchanged ==
  ASSUME DeployInv, NEW c \in calls, NEW ok \in BOOLEAN, Answer(c, ok),
         bindings' = bindings, minted' = minted, lists' = lists, reads' = reads, site' = site,
         dialog' = dialog, profile' = profile, UNCHANGED <<clicks, trouble>> \/ Trouble,
         Heard',
         ok => c.at = "host" /\ \E b \in bindings : b.id = c.id
  PROVE  DeployInv'
<1>1. Table' /\ Fewer /\ Screens'
  BY SameTable, SameScreens DEF DeployInv
<1>2. Orderly'
  BY <1>1, AnswerOrderly
<1>3. c.by = "dialog" /\ ok => (Bound(c.profile, c.site) /\ c.site \in saving.wanted)
  <2>. SUFFICES ASSUME c.by = "dialog", ok PROVE Bound(c.profile, c.site) /\ c.site \in saving.wanted
    OBVIOUS
  <2>1. PICK b \in bindings : b.id = c.id
    OBVIOUS
  <2>2. b.site = c.site /\ b.profile = c.profile /\ c.what = "create"
    BY <2>1 DEF DeployInv, Orderly, CallsNamed
  <2>. QED BY <2>1, <2>2 DEF Bound, On, Of, DeployInv, Orderly, Saves
<1>4. /\ \A p \in Profiles, s \in Sites : Bound(p, s)' <=> Bound(p, s)
      /\ \A s \in Sites : On(s, bindings)' = On(s, bindings)
  BY DEF Bound, On, Of
<1>5. bindings' \subseteq Binding
  BY DEF DeployInv, Table
<1>6. c \in ApiCall
  BY DEF DeployInv, Orderly, CallsNamed
<1>7. Bound(c.profile, c.site)' <=> Bound(c.profile, c.site)
  BY <1>4, <1>6 DEF ApiCall
<1>8. SaveDone' /\ WizardDone'
  BY <1>2, <1>3, <1>4, <1>5, <1>7, AnswerDone
<1>. QED BY <1>1, <1>2, <1>8 DEF DeployInv

(* A call that is lost on its way. *)
LEMMA LoseCallInv ==
  ASSUME DeployInv, NEW c \in calls, LoseCall(c)
  PROVE  DeployInv'
<1>1. /\ Answer(c, FALSE) /\ c.at = "sent" /\ Trouble
      /\ UNCHANGED <<screen, bindings, minted, site, profile, heard, lists, reads, dialog, excused>>
  BY DEF LoseCall
<1>2. Heard'
  BY <1>1, AnswerEffect, AnswerSilent
<1>. QED BY <1>1, <1>2, AnswerUnchanged

(* More ids, more rows a list may hold. *)
LEMMA WiderRows ==
  ASSUME NEW A, NEW B, A \subseteq B
  PROVE  /\ [known : BOOLEAN, rows : SUBSET A] \subseteq [known : BOOLEAN, rows : SUBSET B]
         /\ [at : {"none", "asked", "read"}, rows : SUBSET A]
              \subseteq [at : {"none", "asked", "read"}, rows : SUBSET B]
<1>1. SUBSET A \subseteq SUBSET B
  OBVIOUS
<1>2. \A X, Y, Z : Y \subseteq Z => [known : X, rows : Y] \subseteq [known : X, rows : Z]
  OBVIOUS
<1>3. \A X, Y, Z : Y \subseteq Z => [at : X, rows : Y] \subseteq [at : X, rows : Z]
  OBVIOUS
<1>. QED BY <1>1, <1>2, <1>3

(* A call that goes on to its next step, perhaps with the id of its row. *)
LEMMA CallMoves ==
  ASSUME DeployInv, NEW c \in calls, c.what = "create", c.at # "host",
         NEW at \in {"insert", "host"}, NEW id \in Nat, id \in 0..minted',
         calls' = (calls \ {c}) \cup {[c EXCEPT !.at = at, !.id = id]},
         saving' = saving, wizard' = wizard, lists' = lists, reads' = reads,
         minted' \in Nat, minted <= minted',
         bindings \subseteq bindings',
         \A b \in bindings' : b.id = id => b.site = c.site /\ b.profile = c.profile,
         \A b \in bindings' \ bindings : b.id > minted
  PROVE  Orderly'
<1>. DEFINE e == [c EXCEPT !.at = at, !.id = id]
<1>1. c \in ApiCall /\ calls \subseteq ApiCall
  BY DEF DeployInv, Orderly, CallsNamed
<1>2. /\ e.by = c.by /\ e.what = "create" /\ e.profile = c.profile /\ e.site = c.site
      /\ e.port = c.port /\ e.id = id /\ e.at = at
  BY <1>1 DEF ApiCall
<1>3. minted \in Nat
  BY DEF DeployInv, Table
<1>4. ApiCall \subseteq ApiCall' /\ ListRow \subseteq ListRow'
  BY <1>3 DEF ApiCall, ListRow
<1>5. e \in ApiCall'
  BY <1>1 DEF ApiCall
<1>. HIDE DEF e
<1>6. calls' = (calls \ {c}) \cup {e}
  BY DEF e
<1>7. CallsNamed'
  <2>1. \A d \in calls, b \in bindings' : b.id = d.id => b.site = d.site /\ b.profile = d.profile
    BY <1>1, <1>3 DEF ApiCall, DeployInv, Orderly, CallsNamed
  <2>2. calls' \subseteq ApiCall'
    BY <1>1, <1>4, <1>5, <1>6
  <2>3. \A d \in calls' : d.at # "sent" => d.what = "create"
    BY <1>2, <1>6 DEF DeployInv, Orderly, CallsNamed
  <2>4. \A d \in calls', b \in bindings' : b.id = d.id => b.site = d.site /\ b.profile = d.profile
    BY <1>2, <1>6, <2>1
  <2>. QED BY <2>2, <2>3, <2>4 DEF CallsNamed
<1>8. Listing'
  <2>1. ASSUME NEW p \in Profiles, NEW R, RowsNamed(p, R) PROVE RowsNamed(p, R)'
    <3>1. R \subseteq ListRow' /\ \A r, q \in R : r.site = q.site => r = q
      BY <1>4, <2>1 DEF RowsNamed
    <3>2. ASSUME NEW r \in R, NEW b \in bindings', b.id = r.id
          PROVE  b.site = r.site /\ b.profile = p
      <4>1. r.id \in 1..minted
        BY <2>1 DEF RowsNamed, ListRow
      <4>2. b \in bindings
        BY <1>3, <3>2, <4>1
      <4>. QED BY <2>1, <3>2, <4>2 DEF RowsNamed
    <3>. QED BY <3>1, <3>2 DEF RowsNamed
  <2>2. \A p \in Profiles : RowsNamed(p, lists[p].rows)' /\ RowsNamed(p, reads[p].rows)'
    <3>. SUFFICES ASSUME NEW p \in Profiles
                  PROVE  RowsNamed(p, lists[p].rows)' /\ RowsNamed(p, reads[p].rows)'
      OBVIOUS
    <3>1. RowsNamed(p, lists[p].rows) /\ RowsNamed(p, reads[p].rows)
      BY DEF DeployInv, Orderly, Listing
    <3>2. PICK R, T : R = lists[p].rows /\ T = reads[p].rows
      OBVIOUS
    <3>3. RowsNamed(p, R)' /\ RowsNamed(p, T)'
      BY <2>1, <3>1, <3>2
    <3>. QED BY <3>2, <3>3 DEF RowsNamed
  <2>3. /\ lists' \in [Profiles -> [known : BOOLEAN, rows : SUBSET ListRow']]
        /\ reads' \in [Profiles -> [at : {"none", "asked", "read"}, rows : SUBSET ListRow']]
    <3>1. ASSUME NEW p \in Profiles
          PROVE  /\ lists[p] \in [known : BOOLEAN, rows : SUBSET ListRow']
                 /\ reads[p] \in [at : {"none", "asked", "read"}, rows : SUBSET ListRow']
      <4>1. /\ lists[p] \in [known : BOOLEAN, rows : SUBSET ListRow]
            /\ reads[p] \in [at : {"none", "asked", "read"}, rows : SUBSET ListRow]
        BY DEF DeployInv, Orderly, Listing
      <4>. QED BY <1>4, <4>1, WiderRows
    <3>. QED BY <3>1 DEF DeployInv, Orderly, Listing
  <2>. QED BY <2>2, <2>3 DEF Listing
<1>9. Saves'
  <2>1. {d.site : d \in {x \in calls' : x.by = "dialog"}} = {d.site : d \in {x \in calls : x.by = "dialog"}}
    BY <1>2, <1>6
  <2>2. \A d \in calls' : d.by = "dialog" =>
          /\ d.profile = saving.profile
          /\ d.what = IF d.site \in saving.wanted THEN "create" ELSE "delete"
    BY <1>2, <1>6 DEF DeployInv, Orderly, Saves
  <2>3. \A d, x \in calls' : d.by = "dialog" /\ x.by = "dialog" /\ d.site = x.site => d = x
    BY <1>2, <1>6 DEF DeployInv, Orderly, Saves
  <2>. QED BY <2>1, <2>2, <2>3 DEF DeployInv, Orderly, Saves
<1>10. Wizards'
  BY <1>2, <1>6 DEF DeployInv, Orderly, Wizards
<1>. QED BY <1>7, <1>8, <1>9, <1>10 DEF Orderly

(* createBinding looks: it says no, or goes on to insert. *)
LEMMA CheckBindingInv ==
  ASSUME DeployInv, NEW c \in calls, CheckBinding(c)
  PROVE  DeployInv'
<1>1. /\ c.what = "create" /\ c.at = "sent"
      /\ UNCHANGED <<screen, bindings, minted, site, profile, heard, lists, reads, dialog,
                     clicks, trouble, excused>>
  BY DEF CheckBinding
<1>2. CASE Answer(c, FALSE)
  <2>1. Heard'
    BY <1>1, <1>2, AnswerEffect, AnswerSilent
  <2>. QED BY <1>1, <1>2, <2>1, AnswerUnchanged
<1>3. CASE calls' = (calls \ {c}) \cup {[c EXCEPT !.at = "insert"]} /\ UNCHANGED <<saving, wizard>>
  <2>. DEFINE e == [c EXCEPT !.at = "insert"]
  <2>1. c \in ApiCall /\ minted \in Nat
    BY DEF DeployInv, Orderly, CallsNamed, Table
  <2>2. /\ e.by = c.by /\ e.profile = c.profile /\ e.site = c.site /\ e.port = c.port
        /\ e.id = c.id /\ e.at = "insert" /\ c.id \in Nat /\ c.id \in 0..minted
    BY <2>1 DEF ApiCall
  <2>12. e = [c EXCEPT !.at = "insert", !.id = c.id]
    BY <2>1 DEF ApiCall
  <2>3. \A b \in bindings : b.id = c.id => b.site = c.site /\ b.profile = c.profile
    BY DEF DeployInv, Orderly, CallsNamed
  <2>4. calls' = (calls \ {c}) \cup {[c EXCEPT !.at = "insert", !.id = c.id]}
    BY <1>3, <2>12
  <2>5. calls' = (calls \ {c}) \cup {e}
    BY <1>3
  <2>. HIDE DEF e
  <2>6. Orderly'
    <3>1. /\ saving' = saving /\ wizard' = wizard /\ lists' = lists /\ reads' = reads
          /\ minted' \in Nat /\ minted <= minted' /\ c.id \in 0..minted'
          /\ bindings \subseteq bindings' /\ c.at # "host"
      BY <1>1, <1>3, <2>1, <2>2
    <3>2. /\ \A b \in bindings' : b.id = c.id => b.site = c.site /\ b.profile = c.profile
          /\ \A b \in bindings' \ bindings : b.id > minted
      BY <1>1, <2>3
    <3>3. c.what = "create" /\ c.id \in Nat
      BY <1>1, <2>2
    <3>. QED BY <2>4, <3>1, <3>2, <3>3, CallMoves
  <2>7. Table' /\ Screens'
    BY <1>1, SameTable, SameScreens DEF DeployInv
  <2>8. SaveDone'
    BY <1>1, <1>3, <2>2, <2>5 DEF DeployInv, SaveDone, Bound, On, Of
  <2>9. WizardDone'
    BY <1>1, <1>3, <2>2, <2>5 DEF DeployInv, WizardDone
  <2>10. \A s \in Sites : Owed(s) => Owed(s)'
    BY <1>1, <2>5 DEF Owed
  <2>11. Heard'
    BY <1>1, <2>10 DEF DeployInv, Heard
  <2>. QED BY <2>6, <2>7, <2>8, <2>9, <2>11 DEF DeployInv
<1>. QED BY <1>2, <1>3 DEF CheckBinding

(* createBinding inserts: a new id, and a row no other has the port of. *)
LEMMA InsertBindingInv ==
  ASSUME DeployInv, NEW c \in calls, InsertBinding(c)
  PROVE  DeployInv'
<1>0. c.at = "insert" /\ c.what = "create" /\ c \in ApiCall /\ minted \in Nat
  BY DEF InsertBinding, DeployInv, Orderly, CallsNamed, Table
<1>1. UNCHANGED <<screen, site, profile, heard, lists, reads, dialog, clicks, trouble>>
  BY DEF InsertBinding
<1>2. CASE Answer(c, FALSE) /\ UNCHANGED <<bindings, minted, excused>>
  <2>1. Heard'
    BY <1>0, <1>1, <1>2, AnswerEffect, AnswerSilent
  <2>. QED BY <1>1, <1>2, <2>1, AnswerUnchanged
<1>3. CASE ~(Answer(c, FALSE) /\ UNCHANGED <<bindings, minted, excused>>)
  <2>. DEFINE b == [profile |-> c.profile, site |-> c.site, port |-> c.port, id |-> minted']
              e == [c EXCEPT !.at = "host", !.id = minted']
  <2>1. /\ ~Conflict(c) /\ minted' = minted + 1
        /\ bindings' = bindings \cup {b}
        /\ calls' = (calls \ {c}) \cup {e}
        /\ excused' = IF site[c.site] = "up" THEN excused ELSE excused \cup {<<"phantom", c.site>>}
        /\ UNCHANGED <<saving, wizard>>
    BY <1>3 DEF InsertBinding
  <2>2. /\ e.by = c.by /\ e.what = c.what /\ e.profile = c.profile /\ e.site = c.site
        /\ e.port = c.port /\ e.id = minted' /\ e.at = "host"
    BY <1>0 DEF ApiCall
  <2>3. b.profile = c.profile /\ b.site = c.site /\ b.port = c.port /\ b.id = minted'
    OBVIOUS
  <2>4. \A x \in bindings : x \in Binding /\ x.id \in Nat /\ x.id <= minted
    BY <1>0 DEF DeployInv, Table, Binding
  <2>5. Orderly'
    <3>1. \A x \in bindings' : x.id = minted' => x = b
      BY <1>0, <2>1, <2>4
    <3>2. \A x \in bindings' \ bindings : x.id > minted
      BY <1>0, <2>1, <2>3
    <3>3. minted' \in Nat /\ minted <= minted' /\ minted' \in 0..minted'
      BY <1>0, <2>1
    <3>4. calls' = (calls \ {c}) \cup {[c EXCEPT !.at = "host", !.id = minted']}
      BY <2>1
    <3>5. bindings \subseteq bindings'
      BY <2>1
    <3>. HIDE DEF b, e
    <3>6. saving' = saving /\ wizard' = wizard /\ lists' = lists /\ reads' = reads
      BY <1>1, <2>1
    <3>7. \A x \in bindings' : x.id = minted' => x.site = c.site /\ x.profile = c.profile
      BY <2>3, <3>1
    <3>8. c.what = "create" /\ c.at # "host"
      BY <1>0
    <3>. QED BY <3>2, <3>3, <3>4, <3>5, <3>6, <3>7, <3>8, CallMoves
  <2>6. Table'
    <3>1. b \in Binding' /\ Binding \subseteq Binding'
      BY <1>0, <2>1 DEF Binding, ApiCall
    <3>2. \A x \in bindings : x.id # b.id /\ (x.site = b.site => x.port # b.port /\ x.profile # b.profile)
      <4>1. \A x \in bindings : x.site = c.site => x.port # c.port /\ x.profile # c.profile
        BY <2>1 DEF Conflict, PortTaken, Bound, On, Of
      <4>2. \A x \in bindings : x.id # minted'
        BY <1>0, <2>1, <2>4
      <4>. QED BY <2>3, <4>1, <4>2
    <3>. HIDE DEF b, e
    <3>. QED BY <1>0, <2>1, <3>1, <3>2 DEF DeployInv, Table
  <2>. HIDE DEF b, e
  <2>7. Screens'
    BY <1>1, SameScreens DEF DeployInv
  <2>8. SaveDone'
    <3>. SUFFICES ASSUME saving.profile # NoProfile, NEW s \in Sites
                  PROVE  \/ Bound(saving.profile, s)' <=> s \in saving.wanted
                         \/ s \in saving.stale
                         \/ \E d \in calls' : d.profile = saving.profile /\ d.site = s
      BY <2>1 DEF SaveDone
    <3>1. CASE s = c.site /\ saving.profile = c.profile
      BY <2>1, <2>2, <3>1
    <3>2. CASE ~(s = c.site /\ saving.profile = c.profile)
      <4>1. Bound(saving.profile, s)' <=> Bound(saving.profile, s)
        BY <2>1, <2>3, <3>2 DEF Bound, On, Of
      <4>. QED BY <2>1, <3>2, <4>1 DEF DeployInv, SaveDone
    <3>. QED BY <3>1, <3>2
  <2>9. WizardDone'
    <3>. SUFFICES ASSUME ~wizard.moved
                  PROVE  /\ \A p \in wizard.ok :
                              \E x \in bindings' : x.profile = p /\ x.site = wizard.site /\ x.port = 443
                         /\ \A d \in calls', x \in bindings' : d.by = "wizard" /\ x.id = d.id => x.port = 443
      BY <2>1 DEF WizardDone
    <3>1. \A d \in calls : d.id \in Nat /\ d.id <= minted
      BY <1>0 DEF DeployInv, Orderly, CallsNamed, ApiCall
    <3>2. c.by = "wizard" => c.port = 443
      BY DEF DeployInv, Orderly, Wizards
    <3>3. ASSUME NEW d \in calls', NEW x \in bindings', d.by = "wizard", x.id = d.id PROVE x.port = 443
      <4>1. CASE d = e
        <5>1. x = b
          BY <1>0, <2>1, <2>2, <2>4, <3>3, <4>1
        <5>. QED BY <2>2, <2>3, <3>2, <3>3, <4>1, <5>1
      <4>2. CASE d \in calls
        <5>1. x \in bindings
          BY <1>0, <2>1, <2>3, <3>1, <3>3, <4>2
        <5>. QED BY <3>3, <4>2, <5>1 DEF DeployInv, WizardDone
      <4>. QED BY <2>1, <4>1, <4>2
    <3>. QED BY <2>1, <3>3 DEF DeployInv, WizardDone
  <2>10. Heard'
    <3>. SUFFICES ASSUME NEW s \in Sites
                  PROVE  IF site[s] \in {"up", "absent"}
                         THEN \/ heard[s] = On(s, bindings') \/ Owed(s)'
                              \/ <<"hostless", s>> \in excused' \/ <<"cascade", s>> \in excused'
                         ELSE On(s, bindings') # {} => <<"phantom", s>> \in excused'
      BY <1>1 DEF Heard
    <3>1. CASE s = c.site
      <4>1. Owed(s)'
        BY <2>1, <2>2, <2>3, <3>1 DEF Owed
      <4>2. site[s] # "up" => <<"phantom", s>> \in excused'
        BY <2>1, <3>1
      <4>. QED BY <4>1, <4>2
    <3>2. CASE s # c.site
      <4>1. On(s, bindings') = On(s, bindings)
        BY <2>1, <2>3, <3>2 DEF On
      <4>2. Owed(s) => Owed(s)'
        BY <2>1, <3>2 DEF Owed
      <4>3. excused \subseteq excused'
        BY <2>1
      <4>. QED BY <4>1, <4>2, <4>3 DEF DeployInv, Heard
    <3>. QED BY <3>1, <3>2
  <2>. QED BY <2>5, <2>6, <2>7, <2>8, <2>9, <2>10 DEF DeployInv
<1>. QED BY <1>2, <1>3

(* An answer that comes with the event of its node: the row it is about may *)
(* be gone, or moved to another port; a lost answer is one that failed.     *)
LEMMA AnswerTold ==
  ASSUME DeployInv, NEW c \in calls, NEW ok \in BOOLEAN, Answer(c, ok),
         Table', Fewer, Announce({c.site}),
         UNCHANGED <<screen, site, profile, lists, reads, dialog, excused>>,
         UNCHANGED <<clicks, trouble>> \/ Trouble,
         \A p \in Profiles, s \in Sites : p # c.profile \/ s # c.site => (Bound(p, s)' <=> Bound(p, s)),
         \A s \in Sites : s # c.site => On(s, bindings)' = On(s, bindings),
         c.by = "dialog" /\ ok => (Bound(c.profile, c.site)' <=> c.site \in saving.wanted),
         c.by = "wizard" => /\ bindings' = bindings
                            /\ ok => c.at = "host" /\ \E b \in bindings : b.id = c.id
  PROVE  DeployInv'
<1>1. /\ site' = site /\ profile' = profile /\ lists' = lists /\ reads' = reads
      /\ dialog' = dialog /\ excused' = excused
  OBVIOUS
<1>2. Orderly'
  BY <1>1, AnswerOrderly
<1>3. bindings' \subseteq Binding
  BY DEF Table, Binding, Fewer
<1>4. SaveDone' /\ WizardDone'
  BY <1>2, <1>3, AnswerDone
<1>5. Heard'
  BY <1>1, <1>3, AnswerEffect, AnswerTells
<1>6. Screens'
  BY <1>1, SameScreens DEF DeployInv
<1>. QED BY <1>2, <1>4, <1>5, <1>6 DEF DeployInv

(* createBinding ends: the node is told, or is not and the history says so. *)
LEMMA HostBindingInv ==
  ASSUME DeployInv, NEW c \in calls, HostBinding(c)
  PROVE  DeployInv'
<1>0. /\ c.at = "host" /\ UNCHANGED <<screen, minted, site, profile, lists, reads, dialog>>
      /\ c \in ApiCall
  BY DEF HostBinding, DeployInv, Orderly, CallsNamed
<1>1. CASE /\ \E b \in bindings : b.id = c.id
           /\ bindings' = bindings /\ Announce({c.site}) /\ Reply(c) /\ UNCHANGED excused
  <2>1. PICK ok \in BOOLEAN : Answer(c, ok) /\ (UNCHANGED <<clicks, trouble>> \/ Trouble)
    BY <1>1 DEF Reply
  <2>2. Table' /\ Fewer
    BY <1>0, <1>1, SameTable DEF DeployInv
  <2>3. c.by = "dialog" => Bound(c.profile, c.site) /\ c.site \in saving.wanted
    <3>. SUFFICES ASSUME c.by = "dialog" PROVE Bound(c.profile, c.site) /\ c.site \in saving.wanted
      OBVIOUS
    <3>1. PICK b \in bindings : b.id = c.id
      BY <1>1
    <3>2. b.site = c.site /\ b.profile = c.profile /\ c.what = "create"
      BY <1>0, <3>1 DEF DeployInv, Orderly, CallsNamed
    <3>. QED BY <3>1, <3>2 DEF Bound, On, Of, DeployInv, Orderly, Saves
  <2>4. /\ \A p \in Profiles, s \in Sites : Bound(p, s)' <=> Bound(p, s)
        /\ \A s \in Sites : On(s, bindings)' = On(s, bindings)
    BY <1>1 DEF Bound, On, Of
  <2>5. Bound(c.profile, c.site)' <=> Bound(c.profile, c.site)
    BY <1>0, <2>4 DEF ApiCall
  <2>6. UNCHANGED <<screen, site, profile, lists, reads, dialog, excused>>
    BY <1>0, <1>1
  <2>. QED BY <1>0, <1>1, <2>1, <2>2, <2>3, <2>4, <2>5, <2>6, AnswerTold
<1>2. CASE /\ Trouble /\ Answer(c, FALSE)
           /\ excused' = excused \cup {<<"hostless", c.site>>}
           /\ UNCHANGED <<bindings, heard>>
  <2>1. Heard'
    BY <1>0, <1>2, AnswerEffect, AnswerSilent
  <2>. QED BY <1>0, <1>2, <2>1, AnswerUnchanged
<1>3. CASE /\ \A b \in bindings : b.id # c.id
           /\ Answer(c, FALSE)
           /\ UNCHANGED <<bindings, heard, clicks, trouble, excused>>
  <2>1. Heard'
    BY <1>0, <1>3, AnswerEffect, AnswerSilent
  <2>. QED BY <1>0, <1>3, <2>1, AnswerUnchanged
<1>. QED BY <1>1, <1>2, <1>3 DEF HostBinding

(* deleteBinding: the row it names is gone and its node told. *)
LEMMA DeleteBindingInv ==
  ASSUME DeployInv, NEW c \in calls, DeleteBinding(c)
  PROVE  DeployInv'
<1>0. /\ c.what = "delete"
      /\ UNCHANGED <<screen, minted, site, profile, lists, reads, dialog, excused>>
      /\ c \in ApiCall
  BY DEF DeleteBinding, DeployInv, Orderly, CallsNamed
<1>1. c.at # "host" /\ c.by # "wizard" /\ (c.by = "dialog" => c.site \notin saving.wanted)
  BY <1>0 DEF DeployInv, Orderly, CallsNamed, Saves, Wizards
<1>2. CASE /\ \E b \in bindings : b.id = c.id
           /\ bindings' = {b \in bindings : b.id # c.id} /\ Announce({c.site}) /\ Reply(c)
  <2>1. PICK ok \in BOOLEAN : Answer(c, ok) /\ (UNCHANGED <<clicks, trouble>> \/ Trouble)
    BY <1>2 DEF Reply
  <2>2. PICK a \in bindings : a.id = c.id
    BY <1>2
  <2>3. a.site = c.site /\ a.profile = c.profile /\ bindings' = bindings \ {a}
    BY <1>2, <2>2 DEF DeployInv, Orderly, CallsNamed, Table
  <2>4. Table' /\ Fewer
    BY <1>0, <2>3 DEF DeployInv, Table, Fewer, Binding
  <2>5. /\ \A p \in Profiles, s \in Sites : p # c.profile \/ s # c.site => (Bound(p, s)' <=> Bound(p, s))
        /\ \A s \in Sites : s # c.site => On(s, bindings)' = On(s, bindings)
    BY <2>3 DEF Bound, On, Of
  <2>6. ~Bound(c.profile, c.site)'
    BY <2>2, <2>3 DEF Bound, On, Of, DeployInv, Table
  <2>7. UNCHANGED <<screen, site, profile, lists, reads, dialog, excused>>
    BY <1>0
  <2>. QED BY <1>1, <1>2, <2>1, <2>4, <2>5, <2>6, <2>7, AnswerTold
<1>3. CASE Answer(c, FALSE) /\ UNCHANGED <<bindings, heard, clicks, trouble>>
  <2>1. Heard'
    BY <1>0, <1>1, <1>3, AnswerEffect, AnswerSilent
  <2>. QED BY <1>0, <1>3, <2>1, AnswerUnchanged
<1>. QED BY <1>2, <1>3 DEF DeleteBinding

(* updateBinding: the row keeps its node and its profile. *)
LEMMA UpdatePortInv ==
  ASSUME DeployInv, NEW c \in calls, UpdatePort(c)
  PROVE  DeployInv'
<1>0. /\ c.what = "port"
      /\ UNCHANGED <<screen, minted, site, profile, lists, reads, dialog, excused>>
      /\ c \in ApiCall
  BY DEF UpdatePort, DeployInv, Orderly, CallsNamed
<1>1. c.at # "host" /\ c.by # "wizard" /\ c.by # "dialog"
  BY <1>0 DEF DeployInv, Orderly, CallsNamed, Saves, Wizards
<1>2. CASE /\ \E b \in bindings : b.id = c.id /\ ~PortTaken(c.site, c.port)
           /\ bindings' = {IF b.id = c.id THEN [b EXCEPT !.port = c.port] ELSE b : b \in bindings}
           /\ Announce({c.site}) /\ Reply(c)
  <2>1. PICK ok \in BOOLEAN : Answer(c, ok) /\ (UNCHANGED <<clicks, trouble>> \/ Trouble)
    BY <1>2 DEF Reply
  <2>2. PICK a \in bindings : a.id = c.id
    BY <1>2
  <2>. DEFINE e == [a EXCEPT !.port = c.port]
  <2>3. a.site = c.site /\ a.profile = c.profile /\ a \in Binding
    BY <2>2 DEF DeployInv, Orderly, CallsNamed, Table
  <2>4. /\ e.id = a.id /\ e.site = a.site /\ e.profile = a.profile /\ e.port = c.port
        /\ e \in Binding
    BY <1>0, <2>3 DEF Binding, ApiCall
  <2>5. bindings' = (bindings \ {a}) \cup {e}
    <3>1. \A b \in bindings : b.id = c.id <=> b = a
      BY <2>2 DEF DeployInv, Table
    <3>. DEFINE R(b) == IF b.id = c.id THEN [b EXCEPT !.port = c.port] ELSE b
    <3>2. bindings' = {R(b) : b \in bindings}
      BY <1>2
    <3>3. \A b \in bindings : R(b) = IF b = a THEN e ELSE b
      BY <3>1
    <3>. HIDE DEF R, e
    <3>. QED BY <2>2, <3>2, <3>3
  <2>6. \A b \in bindings : b.site = c.site => b.port # c.port
    BY <1>2 DEF PortTaken, On
  <2>. HIDE DEF e
  <2>7. Table'
    <3>1. \A b \in bindings \ {a} : b.id # e.id /\ (b.site = e.site => b.port # e.port /\ b.profile # e.profile)
      <4>1. \A b \in bindings \ {a} : b.id # a.id /\ (b.site = a.site => b.profile # a.profile)
        BY <2>2 DEF DeployInv, Table
      <4>. QED BY <2>3, <2>4, <2>6, <4>1
    <3>2. bindings' \subseteq Binding' /\ minted' \in Nat
      BY <1>0, <2>4, <2>5 DEF DeployInv, Table, Binding
    <3>3. ASSUME NEW b \in bindings', NEW d \in bindings', b # d
          PROVE  b.id # d.id /\ (b.site = d.site => b.port # d.port /\ b.profile # d.profile)
      <4>1. CASE b \in bindings \ {a} /\ d \in bindings \ {a}
        BY <3>3, <4>1 DEF DeployInv, Table
      <4>2. CASE b \in bindings \ {a} /\ d = e
        BY <3>1, <4>2
      <4>3. CASE b = e /\ d \in bindings \ {a}
        BY <3>1, <4>3
      <4>. QED BY <2>5, <3>3, <4>1, <4>2, <4>3
    <3>. QED BY <3>2, <3>3 DEF Table
  <2>8. Fewer
    BY <1>0, <2>4, <2>5 DEF Fewer
  <2>9. /\ \A p \in Profiles, s \in Sites : p # c.profile \/ s # c.site => (Bound(p, s)' <=> Bound(p, s))
        /\ \A s \in Sites : s # c.site => On(s, bindings)' = On(s, bindings)
    BY <2>3, <2>4, <2>5 DEF Bound, On, Of
  <2>10. UNCHANGED <<screen, site, profile, lists, reads, dialog, excused>>
    BY <1>0
  <2>. QED BY <1>1, <1>2, <2>1, <2>7, <2>8, <2>9, <2>10, AnswerTold
<1>3. CASE Answer(c, FALSE) /\ UNCHANGED <<bindings, heard, clicks, trouble>>
  <2>1. Heard'
    BY <1>0, <1>1, <1>3, AnswerEffect, AnswerSilent
  <2>. QED BY <1>0, <1>3, <2>1, AnswerUnchanged
<1>. QED BY <1>2, <1>3 DEF UpdatePort

------------------------------------------------------------------------------
(* Calls that are made. *)

(* A call that is sent and holds no id of another's. *)
NewCalls(c) ==
  /\ c \in ApiCall /\ c.at = "sent"
  /\ \A b \in bindings : b.id = c.id => b.site = c.site /\ b.profile = c.profile

(* The fields of a new call. *)
LEMMA CallType ==
  ASSUME NEW by \in {"dialog", "wizard", "other"}, NEW what \in {"create", "delete", "port"},
         NEW p \in Profiles, NEW s \in Sites, NEW port \in Ports, NEW id \in 0..minted
  PROVE  /\ Call(by, what, p, s, port, id) \in ApiCall
         /\ Call(by, what, p, s, port, id).by = by /\ Call(by, what, p, s, port, id).what = what
         /\ Call(by, what, p, s, port, id).profile = p /\ Call(by, what, p, s, port, id).site = s
         /\ Call(by, what, p, s, port, id).port = port /\ Call(by, what, p, s, port, id).id = id
         /\ Call(by, what, p, s, port, id).at = "sent"
BY DEF Call, ApiCall

(* A creation names no row; a deletion or a move names the one it is about. *)
LEMMA FreshCalls ==
  ASSUME Table, NEW by \in {"dialog", "wizard", "other"}, NEW port \in Ports
  PROVE  /\ \A p \in Profiles, s \in Sites : NewCalls(Call(by, "create", p, s, port, 0))
         /\ \A b \in bindings, what \in {"delete", "port"} :
              NewCalls(Call(by, what, b.profile, b.site, port, b.id))
<1>1. minted \in Nat
  BY DEF Table
<1>2. ASSUME NEW p \in Profiles, NEW s \in Sites PROVE NewCalls(Call(by, "create", p, s, port, 0))
  <2>. DEFINE c == Call(by, "create", p, s, port, 0)
  <2>1. 0 \in 0..minted
    BY <1>1
  <2>2. c \in ApiCall /\ c.at = "sent" /\ c.id = 0
    BY <2>1, CallType
  <2>3. \A b \in bindings : b.id # 0
    BY <1>1 DEF Table, Binding
  <2>. HIDE DEF c
  <2>. QED BY <2>2, <2>3 DEF NewCalls, c
<1>3. ASSUME NEW b \in bindings, NEW what \in {"delete", "port"}
      PROVE  NewCalls(Call(by, what, b.profile, b.site, port, b.id))
  <2>. DEFINE c == Call(by, what, b.profile, b.site, port, b.id)
  <2>1. b.profile \in Profiles /\ b.site \in Sites /\ b.id \in 0..minted
    BY <1>1 DEF Table, Binding
  <2>2. c \in ApiCall /\ c.at = "sent" /\ c.id = b.id /\ c.site = b.site /\ c.profile = b.profile
    BY <2>1, CallType
  <2>3. \A x \in bindings : x.id = b.id => x = b
    BY DEF Table
  <2>. HIDE DEF c
  <2>. QED BY <2>2, <2>3 DEF NewCalls, c
<1>. QED BY <1>2, <1>3

(* What holds of the calls after new ones are sent. *)
LEMMA CallsSent ==
  ASSUME DeployInv, NEW C, \A c \in C : NewCalls(c), calls' = calls \cup C,
         UNCHANGED <<bindings, minted, site, profile, heard, lists, reads, dialog, excused>>,
         UNCHANGED <<clicks, trouble>> \/ Click \/ Trouble
  PROVE  Table' /\ CallsNamed' /\ Listing' /\ Screens' /\ Heard'
<1>1. Table' /\ Screens'
  BY SameTable, SameScreens DEF DeployInv
<1>2. ApiCall' = ApiCall /\ ListRow' = ListRow
  BY DEF ApiCall, ListRow
<1>3. CallsNamed'
  BY <1>2 DEF CallsNamed, NewCalls, DeployInv, Orderly
<1>4. Listing'
  BY <1>2 DEF Listing, RowsNamed, DeployInv, Orderly
<1>5. \A s \in Sites : Owed(s) => Owed(s)'
  BY DEF Owed
<1>6. Heard'
  BY <1>5 DEF Heard, DeployInv
<1>. QED BY <1>1, <1>3, <1>4, <1>6

(* Calls of others leave a save as it is. *)
LEMMA SavesStay ==
  ASSUME Saves, saving' = saving, NEW C, \A c \in C : c.by # "dialog", calls' = calls \cup C
  PROVE  Saves'
<1>. DEFINE D == {d \in calls : d.by = "dialog"}
<1>1. {d \in calls' : d.by = "dialog"} = D
  OBVIOUS
<1>2. \A c \in calls' : c.by = "dialog" => c \in calls
  OBVIOUS
<1>3. saving.pending = {c.site : c \in {d \in calls' : d.by = "dialog"}}
  BY <1>1 DEF Saves
<1>. HIDE DEF D
<1>4. \A c \in calls' : c.by = "dialog" =>
        /\ c.profile = saving.profile
        /\ c.what = IF c.site \in saving.wanted THEN "create" ELSE "delete"
  BY <1>2 DEF Saves
<1>5. \A c, d \in calls' : c.by = "dialog" /\ d.by = "dialog" /\ c.site = d.site => c = d
  BY <1>2 DEF Saves
<1>. QED BY <1>3, <1>4, <1>5 DEF Saves

(* Another admin asks for something. *)
LEMMA OtherCallInv ==
  ASSUME DeployInv, OtherCall
  PROVE  DeployInv'
<1>1. /\ Trouble
      /\ UNCHANGED <<bindings, minted, site, profile, heard, lists, reads, dialog, excused>>
      /\ saving' = saving /\ wizard' = wizard
  BY DEF OtherCall
<1>2. PICK c : calls' = calls \cup {c} /\ NewCalls(c) /\ c.by = "other"
  <2>0. Table /\ minted \in Nat
    BY DEF DeployInv, Table
  <2>1. CASE \E p \in Profiles, s \in Sites, port \in Ports :
               calls' = calls \cup {Call("other", "create", p, s, port, 0)}
    <3>1. PICK p \in Profiles, s \in Sites, port \in Ports :
               calls' = calls \cup {Call("other", "create", p, s, port, 0)}
      BY <2>1
    <3>2. NewCalls(Call("other", "create", p, s, port, 0))
      BY <2>0, FreshCalls
    <3>3. Call("other", "create", p, s, port, 0).by = "other"
      BY DEF Call
    <3>. QED BY <3>1, <3>2, <3>3
  <2>2. CASE \E b \in bindings, what \in {"delete", "port"}, port \in Ports :
               calls' = calls \cup {Call("other", what, b.profile, b.site, port, b.id)}
    <3>1. PICK b \in bindings, what \in {"delete", "port"}, port \in Ports :
               calls' = calls \cup {Call("other", what, b.profile, b.site, port, b.id)}
      BY <2>2
    <3>2. NewCalls(Call("other", what, b.profile, b.site, port, b.id))
      BY <2>0, FreshCalls
    <3>3. Call("other", what, b.profile, b.site, port, b.id).by = "other"
      BY DEF Call
    <3>. QED BY <3>1, <3>2, <3>3
  <2>3. \A b \in bindings : b.port \in Ports
    BY DEF DeployInv, Table, Binding
  <2>. QED BY <2>1, <2>2, <2>3 DEF OtherCall
<1>. DEFINE C == {c}
<1>8. calls' = calls \cup C /\ \A x \in C : NewCalls(x) /\ x.by # "dialog"
  BY <1>2
<1>. HIDE DEF C
<1>3. Table' /\ CallsNamed' /\ Listing' /\ Screens' /\ Heard'
  BY <1>1, <1>8, CallsSent
<1>4. Saves'
  <2>1. Saves
    BY DEF DeployInv, Orderly
  <2>. QED BY <1>1, <1>8, <2>1, SavesStay
<1>5. Wizards'
  BY <1>1, <1>2 DEF DeployInv, Orderly, Wizards
<1>6. SaveDone'
  BY <1>1, <1>2 DEF DeployInv, SaveDone, Bound, On, Of
<1>7. WizardDone'
  BY <1>1, <1>2 DEF DeployInv, WizardDone
<1>. QED BY <1>3, <1>4, <1>5, <1>6, <1>7 DEF DeployInv, Orderly

(* The wizard asks for the next profile. *)
LEMMA BindNextInv ==
  ASSUME DeployInv, NEW p \in Profiles, BindNext(p)
  PROVE  DeployInv'
<1>. DEFINE c == Call("wizard", "create", p, wizard.site, 443, 0)
<1>1. /\ p \in wizard.todo /\ \A d \in calls : d.by # "wizard"
      /\ wizard' = [wizard EXCEPT !.todo = @ \ {p}]
      /\ calls' = calls \cup {c}
      /\ UNCHANGED <<bindings, minted, site, profile, heard, lists, reads, dialog, excused>>
      /\ saving' = saving /\ UNCHANGED <<clicks, trouble>>
  BY DEF BindNext
<1>2. wizard.site \in Sites /\ 443 \in Ports /\ minted \in Nat /\ Table
  BY <1>1 DEF DeployInv, Orderly, Wizards, Ports, Table
<1>3. NewCalls(c)
  BY <1>2, FreshCalls
<1>4. c.by = "wizard" /\ c.what = "create" /\ c.profile = p /\ c.site = wizard.site
      /\ c.port = 443 /\ c.id = 0
  BY DEF Call
<1>. HIDE DEF c
<1>. DEFINE C == {c}
<1>11. calls' = calls \cup C /\ \A x \in C : NewCalls(x) /\ x.by # "dialog"
  BY <1>1, <1>3, <1>4
<1>. HIDE DEF C
<1>5. Table' /\ CallsNamed' /\ Listing' /\ Screens' /\ Heard'
  BY <1>1, <1>11, CallsSent
<1>6. Saves'
  <2>1. Saves
    BY DEF DeployInv, Orderly
  <2>. QED BY <1>1, <1>11, <2>1, SavesStay
<1>7. /\ wizard'.todo = wizard.todo \ {p} /\ wizard'.site = wizard.site /\ wizard'.ok = wizard.ok
      /\ wizard'.fail = wizard.fail /\ wizard'.moved = wizard.moved
      /\ wizard' \in [site : Sites \cup {NoProfile}, todo : SUBSET Profiles, ok : SUBSET Profiles,
                      fail : SUBSET Profiles, moved : BOOLEAN]
  BY <1>1 DEF DeployInv, Orderly, Wizards
<1>8. Wizards'
  <2>1. \A d \in calls' : d.by = "wizard" => d = c
    BY <1>1
  <2>2. p \notin wizard'.todo \cup wizard'.ok \cup wizard'.fail
    BY <1>1, <1>7 DEF DeployInv, Orderly, Wizards
  <2>3. wizard'.todo \cap (wizard'.ok \cup wizard'.fail) = {} /\ wizard'.ok \cap wizard'.fail = {}
    BY <1>7 DEF DeployInv, Orderly, Wizards
  <2>. QED BY <1>2, <1>4, <1>7, <2>1, <2>2, <2>3 DEF Wizards
<1>9. SaveDone'
  BY <1>1 DEF DeployInv, SaveDone, Bound, On, Of
<1>10. WizardDone'
  <2>1. \A b \in bindings : b.id # c.id
    BY <1>2, <1>4 DEF Table, Binding
  <2>. QED BY <1>1, <1>7, <2>1 DEF DeployInv, WizardDone
<1>. QED BY <1>5, <1>6, <1>8, <1>9, <1>10 DEF DeployInv, Orderly

(* A save asks for what the list lacks, one call for a node at most; a node *)
(* without a call is as selected, or the list has it wrong.                 *)
LEMMA SaveDeployInv ==
  ASSUME DeployInv, NEW port \in Ports, SaveDeploy(port)
  PROVE  DeployInv'
<1>. DEFINE p == dialog.profile
            missing == MissingCalls(p, dialog.selected, port)
<1>1. /\ calls' = calls \cup missing
      /\ saving' = [profile |-> p, wanted |-> dialog.selected,
                    pending |-> {c.site : c \in missing},
                    stale |-> Stale(p) \cup {c.site : c \in Of(p, calls)}]
      /\ dialog # NoDialog /\ saving = NoSave /\ Click /\ wizard' = wizard
      /\ UNCHANGED <<bindings, minted, site, profile, heard, lists, reads, dialog, excused>>
  BY DEF SaveDeploy
<1>2. p \in Profiles /\ dialog.selected \subseteq Sites /\ Table /\ minted \in Nat
  BY <1>1 DEF DeployInv, Screens, Table
<1>3. RowsNamed(p, lists[p].rows) /\ lists[p].rows \subseteq ListRow
  BY <1>2 DEF DeployInv, Orderly, Listing, RowsNamed
<1>4. \A c \in missing :
        \/ \E s \in dialog.selected \ Listed(p) : c = Call("dialog", "create", p, s, port, 0)
        \/ \E r \in lists[p].rows : /\ r.site \notin dialog.selected
                                    /\ c = Call("dialog", "delete", p, r.site, port, r.id)
  BY DEF MissingCalls
<1>5. /\ \A s \in dialog.selected \ Listed(p) : Call("dialog", "create", p, s, port, 0) \in missing
      /\ \A r \in lists[p].rows : r.site \notin dialog.selected =>
           Call("dialog", "delete", p, r.site, port, r.id) \in missing
  BY DEF MissingCalls
<1>6. ASSUME NEW c \in missing
      PROVE  /\ NewCalls(c) /\ c.by = "dialog" /\ c.profile = p
             /\ c.what = IF c.site \in dialog.selected THEN "create" ELSE "delete"
             /\ c.what = "create" => c.site \in Sites \ Listed(p) /\ c = Call("dialog", "create", p, c.site, port, 0)
             /\ c.what = "delete" => \E r \in lists[p].rows :
                  c.site = r.site /\ c = Call("dialog", "delete", p, r.site, port, r.id)
  <2>1. CASE \E s \in dialog.selected \ Listed(p) : c = Call("dialog", "create", p, s, port, 0)
    <3>1. PICK s \in dialog.selected \ Listed(p) : c = Call("dialog", "create", p, s, port, 0)
      BY <2>1
    <3>2. NewCalls(c)
      BY <1>2, <3>1, FreshCalls
    <3>3. c.by = "dialog" /\ c.profile = p /\ c.what = "create" /\ c.site = s
      BY <3>1 DEF Call
    <3>. QED BY <1>2, <3>1, <3>2, <3>3
  <2>2. CASE \E r \in lists[p].rows : /\ r.site \notin dialog.selected
                                      /\ c = Call("dialog", "delete", p, r.site, port, r.id)
    <3>1. PICK r \in lists[p].rows : /\ r.site \notin dialog.selected
                                     /\ c = Call("dialog", "delete", p, r.site, port, r.id)
      BY <2>2
    <3>2. r.site \in Sites /\ r.id \in 0..minted
      BY <1>2, <1>3 DEF ListRow
    <3>3. /\ c \in ApiCall /\ c.at = "sent" /\ c.by = "dialog" /\ c.profile = p /\ c.what = "delete"
          /\ c.site = r.site /\ c.id = r.id
      BY <1>2, <3>1, <3>2, CallType
    <3>4. \A b \in bindings : b.id = r.id => b.site = r.site /\ b.profile = p
      BY <1>3 DEF RowsNamed
    <3>. QED BY <3>1, <3>3, <3>4 DEF NewCalls
  <2>. QED BY <1>4, <2>1, <2>2
<1>. HIDE DEF missing
<1>7. \A c \in calls : c.by # "dialog"
  BY <1>1 DEF DeployInv, Orderly, Saves, NoSave
<1>8. Table' /\ CallsNamed' /\ Listing' /\ Screens' /\ Heard'
  <2>1. \A c \in missing : NewCalls(c)
    BY <1>6
  <2>. QED BY <1>1, <2>1, CallsSent
<1>9. /\ saving'.profile = p /\ saving'.wanted = dialog.selected
      /\ saving'.pending = {c.site : c \in missing}
      /\ saving'.stale = Stale(p) \cup {c.site : c \in Of(p, calls)}
  BY <1>1
<1>10. Saves'
  <2>1. \A c \in calls' : c.by = "dialog" <=> c \in missing
    BY <1>1, <1>6, <1>7
  <2>2. saving'.pending = {c.site : c \in {d \in calls' : d.by = "dialog"}}
    BY <1>1, <1>9, <2>1
  <2>3. \A c, d \in missing : c.site = d.site => c = d
    <3>. SUFFICES ASSUME NEW c \in missing, NEW d \in missing, c.site = d.site PROVE c = d
      OBVIOUS
    <3>1. c.what = d.what
      BY <1>6
    <3>2. CASE c.what = "create"
      BY <1>6, <3>1, <3>2
    <3>3. CASE c.what = "delete"
      <4>1. PICK r \in lists[p].rows : c.site = r.site /\ c = Call("dialog", "delete", p, r.site, port, r.id)
        BY <1>6, <3>3
      <4>2. PICK q \in lists[p].rows : d.site = q.site /\ d = Call("dialog", "delete", p, q.site, port, q.id)
        BY <1>6, <3>1, <3>3
      <4>3. r = q
        BY <1>3, <4>1, <4>2 DEF RowsNamed
      <4>. QED BY <4>1, <4>2, <4>3
    <3>4. c.what \in {"create", "delete"}
      BY <1>6
    <3>. QED BY <3>2, <3>3, <3>4
  <2>4. /\ Stale(p) \subseteq Sites
        /\ {c.site : c \in Of(p, calls)} \subseteq Sites
        /\ {c.site : c \in missing} \subseteq Sites
    BY <1>6 DEF Stale, Of, NewCalls, ApiCall, DeployInv, Orderly, CallsNamed
  <2>5. saving' \in [profile : Profiles \cup {NoProfile}, wanted : SUBSET Sites,
                     pending : SUBSET Sites, stale : SUBSET Sites]
    <3>. DEFINE P == {c.site : c \in missing}
                S == Stale(p) \cup {c.site : c \in Of(p, calls)}
    <3>1. saving' = [profile |-> p, wanted |-> dialog.selected, pending |-> P, stale |-> S]
      BY <1>1
    <3>2. P \subseteq Sites /\ S \subseteq Sites
      BY <2>4
    <3>. HIDE DEF P, S
    <3>. QED BY <1>2, <3>1, <3>2
  <2>6. saving'.profile # NoProfile
    BY <1>2, <1>9, DeployAssumption
  <2>7. \A c \in calls' : c.by = "dialog" =>
          /\ c.profile = saving'.profile
          /\ c.what = IF c.site \in saving'.wanted THEN "create" ELSE "delete"
    BY <1>6, <1>9, <2>1
  <2>8. \A c, d \in calls' : c.by = "dialog" /\ d.by = "dialog" /\ c.site = d.site => c = d
    BY <2>1, <2>3
  <2>. QED BY <2>2, <2>5, <2>6, <2>7, <2>8 DEF Saves
<1>11. Wizards'
  <2>1. \A c \in calls' : c.by = "wizard" => c \in calls
    BY <1>1, <1>6
  <2>. QED BY <1>1, <2>1 DEF DeployInv, Orderly, Wizards
<1>12. SaveDone'
  <2>. SUFFICES ASSUME NEW s \in Sites, s \notin Stale(p),
                       ~\E c \in calls' : c.profile = p /\ c.site = s
                PROVE  Bound(p, s) <=> s \in dialog.selected
    <3>1. \A s \in Sites : Bound(saving.profile, s)' <=> Bound(p, s)
      BY <1>1, <1>9 DEF Bound, On, Of
    <3>. QED BY <1>9, <3>1 DEF SaveDone
  <2>1. {b.id : b \in On(s, Of(p, bindings))} = {b.id : b \in On(s, lists[p].rows)}
    BY DEF Stale
  <2>2. On(s, Of(p, bindings)) = {} <=> On(s, lists[p].rows) = {}
    <3>. DEFINE A == On(s, Of(p, bindings))
                B == On(s, lists[p].rows)
    <3>1. {b.id : b \in A} = {b.id : b \in B}
      BY <2>1
    <3>. HIDE DEF A, B
    <3>2. A = {} <=> B = {}
      BY <3>1
    <3>. QED BY <3>2 DEF A, B
  <2>3. Bound(p, s) <=> s \in Listed(p)
    BY <2>2 DEF Bound, Listed, On
  <2>5. s \in dialog.selected => s \in Listed(p)
    <3>1. Call("dialog", "create", p, s, port, 0).profile = p /\ Call("dialog", "create", p, s, port, 0).site = s
      BY DEF Call
    <3>. QED BY <1>1, <1>5, <3>1 DEF missing
  <2>6. s \in Listed(p) => s \in dialog.selected
    <3>1. \A r \in lists[p].rows : Call("dialog", "delete", p, r.site, port, r.id).profile = p
            /\ Call("dialog", "delete", p, r.site, port, r.id).site = r.site
      BY DEF Call
    <3>. QED BY <1>1, <1>5, <3>1 DEF missing, Listed
  <2>. QED BY <2>3, <2>5, <2>6
<1>13. WizardDone'
  <2>1. \A c \in calls' : c.by = "wizard" => c \in calls
    BY <1>1, <1>6
  <2>. QED BY <1>1, <2>1 DEF DeployInv, WizardDone
<1>. QED BY <1>8, <1>10, <1>11, <1>12, <1>13 DEF DeployInv, Orderly

------------------------------------------------------------------------------
(* The dialog. *)

(* New lists and fetches are in order when each holds rows of the table or  *)
(* rows it held before.                                                     *)
LEMMA ListingStays ==
  ASSUME Listing, UNCHANGED <<bindings, minted>>,
         NEW p \in Profiles,
         NEW l \in [known : BOOLEAN, rows : SUBSET ListRow], RowsNamed(p, l.rows),
         NEW r \in [at : {"none", "asked", "read"}, rows : SUBSET ListRow], RowsNamed(p, r.rows),
         lists' = [lists EXCEPT ![p] = l], reads' = [reads EXCEPT ![p] = r]
  PROVE  Listing'
<1>1. ListRow' = ListRow
  BY DEF ListRow
<1>2. \A q \in Profiles : \A R : RowsNamed(q, R) =>
        /\ R \subseteq ListRow
        /\ \A x, y \in R : x.site = y.site => x = y
        /\ \A x \in R, b \in bindings' : b.id = x.id => b.site = x.site /\ b.profile = q
  BY DEF RowsNamed
<1>3. \A q \in Profiles : RowsNamed(q, lists'[q].rows) /\ RowsNamed(q, reads'[q].rows)
  BY DEF Listing
<1>4. /\ lists' \in [Profiles -> [known : BOOLEAN, rows : SUBSET ListRow]]
      /\ reads' \in [Profiles -> [at : {"none", "asked", "read"}, rows : SUBSET ListRow]]
  BY DEF Listing
<1>5. \A q \in Profiles : RowsNamed(q, lists[q].rows)' /\ RowsNamed(q, reads[q].rows)'
  BY <1>1, <1>2, <1>3 DEF RowsNamed
<1>. QED BY <1>1, <1>4, <1>5 DEF Listing

(* What only changes the dialog, its lists and their fetches. *)
LEMMA DialogStays ==
  ASSUME DeployInv, Listing',
         UNCHANGED <<bindings, minted, site, profile, heard, calls, saving, wizard, excused>>,
         dialog' \in [profile : Profiles \cup {NoProfile}, selected : SUBSET Sites],
         dialog'.profile = NoProfile => dialog' = NoDialog,
         UNCHANGED <<clicks, trouble>> \/ Click \/ Trouble
  PROVE  DeployInv'
<1>1. Table'
  BY SameTable DEF DeployInv
<1>2. CallsNamed' /\ Saves' /\ Wizards'
  BY DEF DeployInv, Orderly, CallsNamed, ApiCall, Saves, Wizards
<1>3. clicks' \in 0..MaxClicks /\ trouble' \in 0..MaxTrouble
  BY DeployAssumption DEF DeployInv, Screens, Click, Trouble
<1>4. Screens'
  BY <1>3 DEF DeployInv, Screens
<1>5. SaveDone'
  BY DEF DeployInv, SaveDone, Bound, On, Of
<1>6. WizardDone'
  BY DEF DeployInv, WizardDone
<1>7. \A s \in Sites : Owed(s)' <=> Owed(s)
  BY DEF Owed
<1>8. Heard'
  BY <1>7 DEF DeployInv, Heard
<1>. QED BY <1>1, <1>2, <1>4, <1>5, <1>6, <1>8 DEF DeployInv, Orderly

(* What a fetch reads names its rows, each of another node. *)
LEMMA ReadRows ==
  ASSUME Table, NEW p \in Profiles
  PROVE  RowsNamed(p, {[site |-> b.site, id |-> b.id] :
                         b \in {x \in Of(p, bindings) : site[x.site] # "deleted"}})
<1>. DEFINE B == {x \in Of(p, bindings) : site[x.site] # "deleted"}
            R == {[site |-> b.site, id |-> b.id] : b \in B}
<1>1. \A b \in B : b \in bindings /\ b.profile = p
  BY DEF Of
<1>2. \A r \in R : \E b \in B : r.site = b.site /\ r.id = b.id /\ r = [site |-> b.site, id |-> b.id]
  OBVIOUS
<1>3. R \subseteq ListRow
  BY <1>1 DEF Table, Binding, ListRow
<1>. HIDE DEF B, R
<1>4. ASSUME NEW r \in R, NEW q \in R, r.site = q.site PROVE r = q
  <2>1. PICK b \in B : r.site = b.site /\ r = [site |-> b.site, id |-> b.id]
    BY <1>2
  <2>2. PICK c \in B : q.site = c.site /\ q = [site |-> c.site, id |-> c.id]
    BY <1>2
  <2>3. b = c
    BY <1>1, <1>4, <2>1, <2>2 DEF Table
  <2>. QED BY <2>1, <2>2, <2>3
<1>5. ASSUME NEW r \in R, NEW c \in bindings, c.id = r.id PROVE c.site = r.site /\ c.profile = p
  <2>1. PICK b \in B : r.site = b.site /\ r.id = b.id
    BY <1>2
  <2>2. b = c
    BY <1>1, <1>5, <2>1 DEF Table
  <2>. QED BY <1>1, <2>1, <2>2
<1>6. RowsNamed(p, R)
  BY <1>3, <1>4, <1>5 DEF RowsNamed
<1>. QED BY <1>6 DEF B, R

(* Opening, closing, reading and choosing keep the invariant. *)
LEMMA DialogInv ==
  ASSUME DeployInv,
         \/ CloseDeploy \/ \E s \in Sites : Toggle(s)
         \/ \E p \in Profiles : \/ OpenDeploy(p) \/ Refetch(p) \/ ReadBindings(p)
                                \/ BindingsArrive(p) \/ ReadLost(p)
  PROVE  DeployInv'
<1>1. Listing /\ Table /\ Screens
  BY DEF DeployInv, Orderly
<1>2. \A p \in Profiles :
        /\ lists[p] \in [known : BOOLEAN, rows : SUBSET ListRow] /\ RowsNamed(p, lists[p].rows)
        /\ reads[p] \in [at : {"none", "asked", "read"}, rows : SUBSET ListRow]
        /\ RowsNamed(p, reads[p].rows)
        /\ lists = [lists EXCEPT ![p] = lists[p]] /\ reads = [reads EXCEPT ![p] = reads[p]]
  BY <1>1 DEF Listing
<1>3. \A p : NoRead \in [at : {"none", "asked", "read"}, rows : SUBSET ListRow] /\ RowsNamed(p, NoRead.rows)
  BY DEF NoRead, RowsNamed
<1>4. lists' = lists /\ reads' = reads /\ UNCHANGED <<bindings, minted>> => Listing'
  BY <1>1 DEF Listing, RowsNamed, ListRow
<1>5. CASE CloseDeploy
  <2>1. Listing'
    BY <1>4, <1>5 DEF CloseDeploy
  <2>2. /\ UNCHANGED <<bindings, minted, site, profile, heard, calls, saving, wizard, excused>>
        /\ dialog' = NoDialog /\ UNCHANGED <<clicks, trouble>>
    BY <1>5 DEF CloseDeploy
  <2>3. dialog' \in [profile : Profiles \cup {NoProfile}, selected : SUBSET Sites]
    BY <2>2 DEF NoDialog
  <2>. QED BY <2>1, <2>2, <2>3, DialogStays
<1>6. CASE \E s \in Sites : Toggle(s)
  <2>1. PICK s \in Sites : Toggle(s)
    BY <1>6
  <2>2. Listing'
    BY <1>4, <2>1 DEF Toggle
  <2>3. /\ UNCHANGED <<bindings, minted, site, profile, heard, calls, saving, wizard, excused>>
        /\ dialog # NoDialog /\ Click
        /\ dialog' = [dialog EXCEPT !.selected = (@ \ {s}) \cup ({s} \ @)]
    BY <2>1 DEF Toggle
  <2>4. /\ dialog' \in [profile : Profiles \cup {NoProfile}, selected : SUBSET Sites]
        /\ dialog'.profile # NoProfile
    BY <1>1, <2>3 DEF Screens
  <2>. QED BY <2>2, <2>3, <2>4, DialogStays
<1>7. ASSUME NEW p \in Profiles, OpenDeploy(p) PROVE DeployInv'
  <2>1. /\ UNCHANGED <<bindings, minted, site, profile, heard, calls, saving, wizard, excused>>
        /\ Click /\ lists' = lists /\ dialog' = [profile |-> p, selected |-> Listed(p)]
        /\ \/ reads' = reads
           \/ reads' = [reads EXCEPT ![p].at = "asked"]
    BY <1>7 DEF OpenDeploy
  <2>2. Listed(p) \subseteq Sites
    BY <1>2 DEF Listed, RowsNamed, ListRow
  <2>3. /\ dialog' \in [profile : Profiles \cup {NoProfile}, selected : SUBSET Sites]
        /\ dialog'.profile # NoProfile
    BY <2>1, <2>2, DeployAssumption
  <2>4. CASE reads' = reads
    <3>1. Listing'
      BY <1>4, <2>1, <2>4
    <3>. QED BY <2>1, <2>3, <3>1, DialogStays
  <2>5. CASE reads' = [reads EXCEPT ![p].at = "asked"]
    <3>. DEFINE r == [reads[p] EXCEPT !.at = "asked"]
    <3>1. r \in [at : {"none", "asked", "read"}, rows : SUBSET ListRow] /\ RowsNamed(p, r.rows)
      BY <1>2
    <3>2. reads' = [reads EXCEPT ![p] = r]
      BY <2>5
    <3>. HIDE DEF r
    <3>3. Listing'
      BY <1>1, <1>2, <2>1, <3>1, <3>2, ListingStays
    <3>. QED BY <2>1, <2>3, <3>3, DialogStays
  <2>. QED BY <2>1, <2>4, <2>5
<1>8. ASSUME NEW p \in Profiles, Refetch(p) \/ ReadBindings(p) \/ ReadLost(p) PROVE DeployInv'
  <2>1. /\ UNCHANGED <<bindings, minted, site, profile, heard, calls, saving, wizard, excused>>
        /\ UNCHANGED <<clicks, trouble>> \/ Trouble
        /\ lists' = lists /\ dialog' = dialog
    BY <1>8 DEF Refetch, ReadBindings, ReadLost
  <2>2. PICK r : /\ r \in [at : {"none", "asked", "read"}, rows : SUBSET ListRow]
                 /\ RowsNamed(p, r.rows) /\ reads' = [reads EXCEPT ![p] = r]
    <3>1. CASE Refetch(p)
      <4>. DEFINE r == [reads[p] EXCEPT !.at = "asked"]
      <4>1. r \in [at : {"none", "asked", "read"}, rows : SUBSET ListRow] /\ RowsNamed(p, r.rows)
        BY <1>2
      <4>2. reads' = [reads EXCEPT ![p] = r]
        BY <3>1 DEF Refetch
      <4>. QED BY <4>1, <4>2
    <3>2. CASE ReadBindings(p)
      <4>. DEFINE R == {[site |-> b.site, id |-> b.id] :
                          b \in {x \in Of(p, bindings) : site[x.site] # "deleted"}}
      <4>1. reads' = [reads EXCEPT ![p] = [at |-> "read", rows |-> R]]
        BY <3>2 DEF ReadBindings
      <4>2. RowsNamed(p, R)
        BY <1>1, ReadRows
      <4>. HIDE DEF R
      <4>3. [at |-> "read", rows |-> R] \in [at : {"none", "asked", "read"}, rows : SUBSET ListRow]
        BY <4>2 DEF RowsNamed
      <4>. QED BY <4>1, <4>2, <4>3
    <3>3. CASE ReadLost(p)
      BY <1>3, <3>3 DEF ReadLost
    <3>. QED BY <1>8, <3>1, <3>2, <3>3
  <2>3. Listing'
    BY <1>1, <1>2, <2>1, <2>2, ListingStays
  <2>4. /\ dialog' \in [profile : Profiles \cup {NoProfile}, selected : SUBSET Sites]
        /\ dialog'.profile = NoProfile => dialog' = NoDialog
    BY <1>1, <2>1 DEF Screens
  <2>. QED BY <2>1, <2>3, <2>4, DialogStays
<1>9. ASSUME NEW p \in Profiles, BindingsArrive(p) PROVE DeployInv'
  <2>. DEFINE l == [known |-> TRUE, rows |-> reads[p].rows]
  <2>1. /\ UNCHANGED <<bindings, minted, site, profile, heard, calls, saving, wizard, excused>>
        /\ UNCHANGED <<clicks, trouble>>
        /\ reads' = [reads EXCEPT ![p] = NoRead] /\ lists' = [lists EXCEPT ![p] = l]
        /\ \/ dialog' = dialog
           \/ /\ dialog.profile = p
              /\ dialog' = [dialog EXCEPT !.selected = {b.site : b \in reads[p].rows}]
    BY <1>9 DEF BindingsArrive
  <2>2. l \in [known : BOOLEAN, rows : SUBSET ListRow] /\ RowsNamed(p, l.rows)
    BY <1>2
  <2>. HIDE DEF l
  <2>3. Listing'
    BY <1>1, <1>3, <2>1, <2>2, ListingStays
  <2>4. {b.site : b \in reads[p].rows} \subseteq Sites
    BY <1>2 DEF ListRow
  <2>5. /\ dialog' \in [profile : Profiles \cup {NoProfile}, selected : SUBSET Sites]
        /\ dialog'.profile = NoProfile => dialog' = NoDialog
    <3>1. CASE dialog' = dialog
      BY <1>1, <3>1 DEF Screens
    <3>2. CASE /\ dialog.profile = p
               /\ dialog' = [dialog EXCEPT !.selected = {b.site : b \in reads[p].rows}]
      BY <1>1, <2>4, <3>2, DeployAssumption DEF Screens
    <3>. QED BY <2>1, <3>1, <3>2
  <2>. QED BY <2>1, <2>3, <2>5, DialogStays
<1>. QED BY <1>5, <1>6, <1>7, <1>8, <1>9

------------------------------------------------------------------------------
(* The ends of a save and of a wizard, and the steps of a deletion that     *)
(* leave the table alone.                                                   *)

(* What leaves the table, the events and the calls alone. *)
LEMMA QuietStays ==
  ASSUME DeployInv, Listing', Saves', Wizards', SaveDone', WizardDone', Screens',
         UNCHANGED <<bindings, minted, heard, calls, excused>>,
         \A s \in Sites : site'[s] \in {"up", "absent"} <=> site[s] \in {"up", "absent"}
  PROVE  DeployInv'
<1>1. Table'
  BY SameTable DEF DeployInv
<1>2. CallsNamed'
  BY DEF DeployInv, Orderly, CallsNamed, ApiCall
<1>3. \A s \in Sites : Owed(s)' <=> Owed(s)
  BY DEF Owed
<1>4. Heard'
  BY <1>3 DEF DeployInv, Heard
<1>. QED BY <1>1, <1>2, <1>4 DEF DeployInv, Orderly

(* A save ends: no call of it runs any more. *)
LEMMA FinishDeployInv ==
  ASSUME DeployInv, FinishDeploy
  PROVE  DeployInv'
<1>1. /\ UNCHANGED <<bindings, minted, site, profile, heard, calls, lists, wizard, clicks, trouble, excused>>
      /\ saving.pending = {} /\ saving' = NoSave /\ dialog' = NoDialog
  BY DEF FinishDeploy
<1>2. \A c \in calls : c.by # "dialog"
  BY <1>1 DEF DeployInv, Orderly, Saves
<1>3. Saves' /\ SaveDone'
  BY <1>1, <1>2 DEF Saves, SaveDone, NoSave
<1>4. Wizards' /\ WizardDone'
  BY <1>1 DEF DeployInv, Orderly, Wizards, WizardDone
<1>5. Screens'
  BY <1>1 DEF DeployInv, Screens, NoDialog
<1>6. Listing'
  <2>1. CASE reads' = reads
    BY <1>1, <2>1 DEF DeployInv, Orderly, Listing, RowsNamed, ListRow
  <2>2. CASE dialog # NoDialog /\ reads' = [reads EXCEPT ![dialog.profile] = [at |-> "asked", rows |-> {}]]
    <3>1. PICK p \in Profiles : p = dialog.profile
      BY <2>2 DEF DeployInv, Screens
    <3>2. RowsNamed(p, {})
      BY DEF RowsNamed
    <3>. DEFINE r == [at |-> "asked", rows |-> {}]
    <3>3. r \in [at : {"none", "asked", "read"}, rows : SUBSET ListRow] /\ RowsNamed(p, r.rows)
      BY <3>2
    <3>4. reads' = [reads EXCEPT ![p] = r]
      BY <2>2, <3>1
    <3>5. /\ lists[p] \in [known : BOOLEAN, rows : SUBSET ListRow] /\ RowsNamed(p, lists[p].rows)
          /\ lists' = [lists EXCEPT ![p] = lists[p]]
      BY <1>1 DEF DeployInv, Orderly, Listing
    <3>. HIDE DEF r
    <3>6. Listing /\ UNCHANGED <<bindings, minted>>
      BY <1>1 DEF DeployInv, Orderly
    <3>. QED BY <3>3, <3>4, <3>5, <3>6, ListingStays
  <2>. QED BY <2>1, <2>2 DEF FinishDeploy
<1>7. \A s \in Sites : site'[s] \in {"up", "absent"} <=> site[s] \in {"up", "absent"}
  BY <1>1
<1>. QED BY <1>1, <1>3, <1>4, <1>5, <1>6, <1>7, QuietStays

(* So do the end of a wizard, a registration and the first step of deletions. *)
LEMMA QuietInv ==
  ASSUME DeployInv,
         \/ FinishWizard
         \/ \E s \in Sites : SoftDelete(s) \/ RegisterNode(s)
         \/ \E p \in Profiles : ReadAffected(p)
  PROVE  DeployInv'
<1>1. /\ UNCHANGED <<bindings, minted, heard, calls, lists, reads, dialog, saving, excused>>
      /\ UNCHANGED <<clicks, trouble>> \/ Click \/ Trouble
  BY DEF FinishWizard, SoftDelete, RegisterNode, ReadAffected
<1>2. Listing'
  BY <1>1 DEF DeployInv, Orderly, Listing, RowsNamed, ListRow
<1>3. Saves' /\ SaveDone'
  BY <1>1 DEF DeployInv, Orderly, Saves, SaveDone, Bound, On, Of
<1>4. clicks' \in 0..MaxClicks /\ trouble' \in 0..MaxTrouble
  BY <1>1, DeployAssumption DEF DeployInv, Screens, Click, Trouble
<1>5. \A c \in calls : c.by = "wizard" => wizard.site \in Sites
  BY DEF DeployInv, Orderly, CallsNamed, ApiCall, Wizards
<1>6. CASE FinishWizard
  <2>1. wizard' = NoWizard /\ UNCHANGED <<site, profile>> /\ \A c \in calls : c.by # "wizard"
    BY <1>6 DEF FinishWizard
  <2>2. Wizards' /\ WizardDone'
    BY <1>1, <2>1 DEF Wizards, WizardDone, NoWizard
  <2>3. Screens'
    BY <1>1, <1>4, <2>1 DEF DeployInv, Screens
  <2>4. \A s \in Sites : site'[s] \in {"up", "absent"} <=> site[s] \in {"up", "absent"}
    BY <2>1
  <2>. QED BY <1>1, <1>2, <1>3, <2>2, <2>3, <2>4, QuietStays
<1>7. CASE \E s \in Sites : SoftDelete(s)
  <2>1. PICK s \in Sites : SoftDelete(s)
    BY <1>7
  <2>2. wizard' = wizard /\ profile' = profile /\ site[s] = "clearing"
        /\ site' = [site EXCEPT ![s] = "deleted"]
    BY <2>1 DEF SoftDelete
  <2>3. Wizards' /\ WizardDone'
    BY <1>1, <2>2 DEF DeployInv, Orderly, Wizards, WizardDone
  <2>4. Screens'
    BY <1>1, <1>4, <2>2 DEF DeployInv, Screens
  <2>5. \A t \in Sites : site'[t] \in {"up", "absent"} <=> site[t] \in {"up", "absent"}
    BY <2>2 DEF DeployInv, Screens
  <2>. QED BY <1>1, <1>2, <1>3, <2>3, <2>4, <2>5, QuietStays
<1>8. CASE \E s \in Sites : RegisterNode(s)
  <2>1. PICK s \in Sites, picked \in SUBSET Profiles :
          /\ wizard = NoWizard /\ profile' = profile /\ site[s] = "absent"
          /\ site' = [site EXCEPT ![s] = "up"]
          /\ wizard' = [NoWizard EXCEPT !.site = s, !.todo = picked]
    BY <1>8 DEF RegisterNode
  <2>2. \A c \in calls : c.by # "wizard"
    BY <1>5, <2>1, DeployAssumption DEF NoWizard
  <2>3. wizard' = [site |-> s, todo |-> picked, ok |-> {}, fail |-> {}, moved |-> FALSE]
    BY <2>1 DEF NoWizard
  <2>4. Wizards' /\ WizardDone'
    BY <1>1, <2>2, <2>3 DEF Wizards, WizardDone
  <2>5. Screens'
    BY <1>1, <1>4, <2>1 DEF DeployInv, Screens
  <2>6. \A t \in Sites : site'[t] \in {"up", "absent"} <=> site[t] \in {"up", "absent"}
    BY <2>1 DEF DeployInv, Screens
  <2>. QED BY <1>1, <1>2, <1>3, <2>4, <2>5, <2>6, QuietStays
<1>9. CASE \E p \in Profiles : ReadAffected(p)
  <2>1. PICK p \in Profiles :
          /\ wizard' = wizard /\ site' = site
          /\ profile' = [profile EXCEPT ![p] = [at |-> "leaving",
                                                affected |-> {b.site : b \in Of(p, bindings)}]]
    BY <1>9 DEF ReadAffected
  <2>2. Wizards' /\ WizardDone'
    BY <1>1, <2>1 DEF DeployInv, Orderly, Wizards, WizardDone
  <2>3. {b.site : b \in Of(p, bindings)} \subseteq Sites
    BY DEF DeployInv, Table, Binding, Of
  <2>4. Screens'
    BY <1>1, <1>4, <2>1, <2>3 DEF DeployInv, Screens
  <2>5. \A s \in Sites : site'[s] \in {"up", "absent"} <=> site[s] \in {"up", "absent"}
    BY <2>1
  <2>. QED BY <1>1, <1>2, <1>3, <2>2, <2>4, <2>5, QuietStays
<1>. QED BY <1>6, <1>7, <1>8, <1>9

------------------------------------------------------------------------------
(* Rows that go without a call: with their node, or with their profile. *)

(* The history of a save that somebody else was at work. *)
LEMMA TouchedSave ==
  ASSUME Saves, NEW q, NEW S \in SUBSET Sites, Touched(q, S), calls' = calls
  PROVE  /\ Saves' /\ saving'.profile = saving.profile /\ saving'.wanted = saving.wanted
         /\ saving.stale \subseteq saving'.stale
         /\ q = saving.profile /\ saving.profile # NoProfile => S \subseteq saving'.stale
<1>1. CASE ~(saving # NoSave /\ q = saving.profile)
  <2>1. saving' = saving
    BY <1>1 DEF Touched
  <2>2. q = saving.profile => saving.profile = NoProfile
    BY <1>1 DEF NoSave
  <2>. QED BY <2>1, <2>2 DEF Saves
<1>2. CASE saving # NoSave /\ q = saving.profile
  <2>1. saving' = [saving EXCEPT !.stale = @ \cup S]
    BY <1>2 DEF Touched
  <2>2. /\ saving'.profile = saving.profile /\ saving'.wanted = saving.wanted
        /\ saving'.pending = saving.pending /\ saving'.stale = saving.stale \cup S
        /\ saving' \in [profile : Profiles \cup {NoProfile}, wanted : SUBSET Sites,
                        pending : SUBSET Sites, stale : SUBSET Sites]
    BY <2>1 DEF Saves
  <2>3. saving.profile # NoProfile
    BY <1>2 DEF Saves
  <2>. QED BY <2>2, <2>3 DEF Saves
<1>. QED BY <1>1, <1>2

(* The history of a wizard that somebody was at work on its node. *)
LEMMA MovedWizard ==
  ASSUME Wizards, NEW S, Moved(S), calls' = calls
  PROVE  /\ Wizards' /\ wizard'.site = wizard.site /\ wizard'.ok = wizard.ok
         /\ IF wizard.site \in S THEN wizard'.moved ELSE wizard' = wizard
<1>1. CASE wizard.site \notin S
  <2>1. wizard' = wizard
    BY <1>1 DEF Moved
  <2>. QED BY <1>1, <2>1 DEF Wizards
<1>2. CASE wizard.site \in S
  <2>1. wizard' = [wizard EXCEPT !.moved = TRUE]
    BY <1>2 DEF Moved
  <2>2. /\ wizard'.site = wizard.site /\ wizard'.ok = wizard.ok
        /\ wizard'.todo = wizard.todo /\ wizard'.fail = wizard.fail
    BY <2>1 DEF Wizards
  <2>3. wizard'.moved
    BY <2>1 DEF Wizards
  <2>4. wizard' \in [site : Sites \cup {NoProfile}, todo : SUBSET Profiles,
                     ok : SUBSET Profiles, fail : SUBSET Profiles, moved : BOOLEAN]
    BY <2>1 DEF Wizards
  <2>. QED BY <1>2, <2>2, <2>3, <2>4 DEF Wizards
<1>. QED BY <1>1, <1>2

(* Ids stay whose they are when rows go. *)
LEMMA RowsGo ==
  ASSUME DeployInv, bindings' \subseteq bindings,
         UNCHANGED <<minted, calls, lists, reads>>
  PROVE  Table' /\ CallsNamed' /\ Listing'
<1>1. Table'
  BY DEF DeployInv, Table, Binding
<1>2. CallsNamed'
  BY DEF DeployInv, Orderly, CallsNamed, ApiCall
<1>3. Listing'
  BY DEF DeployInv, Orderly, Listing, RowsNamed, ListRow
<1>. QED BY <1>1, <1>2, <1>3

(* A node is deleted: its rows go, and it need not hear of it. *)
LEMMA ClearNodeInv ==
  ASSUME DeployInv, NEW s \in Sites, ClearNode(s)
  PROVE  DeployInv'
<1>1. /\ UNCHANGED <<minted, profile, heard, calls, lists, reads, dialog, excused>>
      /\ bindings' = bindings \ On(s, bindings) /\ bindings' \subseteq bindings
      /\ site' = [site EXCEPT ![s] = "clearing"] /\ site[s] = "up" /\ Trouble
      /\ Touched(saving.profile, {s}) /\ Moved({s})
  BY DEF ClearNode
<1>2. Table' /\ CallsNamed' /\ Listing'
  BY <1>1, RowsGo
<1>3. /\ Saves' /\ saving'.profile = saving.profile /\ saving'.wanted = saving.wanted
      /\ saving.stale \subseteq saving'.stale
      /\ saving.profile # NoProfile => s \in saving'.stale
  <2>1. Saves /\ {s} \in SUBSET Sites
    BY DEF DeployInv, Orderly
  <2>. DEFINE S == {s}
  <2>2. S \in SUBSET Sites /\ Touched(saving.profile, S) /\ calls' = calls /\ s \in S
    BY <1>1
  <2>. HIDE DEF S
  <2>. QED BY <2>1, <2>2, TouchedSave
<1>4. /\ Wizards' /\ wizard'.site = wizard.site /\ wizard'.ok = wizard.ok
      /\ IF wizard.site = s THEN wizard'.moved ELSE wizard' = wizard
  <2>. DEFINE S == {s}
  <2>1. Moved(S) /\ calls' = calls /\ (wizard.site \in S <=> wizard.site = s) /\ Wizards
    BY <1>1 DEF DeployInv, Orderly
  <2>. HIDE DEF S
  <2>. QED BY <2>1, MovedWizard
<1>5. /\ \A t \in Sites : t # s => On(t, bindings') = On(t, bindings)
      /\ On(s, bindings') = {}
  BY <1>1 DEF On
<1>6. Screens'
  <2>1. clicks' \in 0..MaxClicks /\ trouble' \in 0..MaxTrouble
    BY <1>1, DeployAssumption DEF DeployInv, Screens, Trouble
  <2>. QED BY <1>1, <2>1 DEF DeployInv, Screens
<1>7. SaveDone'
  <2>1. \A t \in Sites : t # s => (Bound(saving.profile, t)' <=> Bound(saving.profile, t))
    BY <1>1, <1>3 DEF Bound, On, Of
  <2>. QED BY <1>1, <1>3, <2>1 DEF DeployInv, SaveDone
<1>8. WizardDone'
  <2>1. CASE wizard.site = s
    BY <1>4, <2>1 DEF WizardDone
  <2>2. CASE wizard.site # s
    <3>1. wizard' = wizard
      BY <1>4, <2>2
    <3>2. \A b \in bindings : b.site = wizard.site => b \in bindings'
      BY <1>1, <2>2 DEF On
    <3>. QED BY <1>1, <3>1, <3>2 DEF DeployInv, WizardDone
  <2>. QED BY <2>1, <2>2
<1>9. Heard'
  <2>. SUFFICES ASSUME NEW t \in Sites
                PROVE  IF site'[t] \in {"up", "absent"}
                       THEN \/ heard'[t] = On(t, bindings') \/ Owed(t)'
                            \/ <<"hostless", t>> \in excused' \/ <<"cascade", t>> \in excused'
                       ELSE On(t, bindings') # {} => <<"phantom", t>> \in excused'
    BY DEF Heard
  <2>1. CASE t = s
    BY <1>1, <1>5, <2>1 DEF DeployInv, Screens
  <2>2. CASE t # s
    <3>1. site'[t] = site[t]
      BY <1>1, <2>2 DEF DeployInv, Screens
    <3>2. Owed(t) => Owed(t)'
      <4>. SUFFICES ASSUME Owed(t) PROVE Owed(t)'
        OBVIOUS
      <4>1. PICK c \in calls, b \in bindings : c.site = t /\ c.at = "host" /\ b.id = c.id
        BY DEF Owed
      <4>2. b.site = t
        BY <4>1 DEF DeployInv, Orderly, CallsNamed
      <4>3. b \in bindings'
        BY <1>1, <2>2, <4>2 DEF On
      <4>. QED BY <1>1, <4>1, <4>3 DEF Owed
    <3>. QED BY <1>1, <1>5, <2>2, <3>1, <3>2 DEF DeployInv, Heard
  <2>. QED BY <2>1, <2>2
<1>. QED BY <1>2, <1>3, <1>4, <1>6, <1>7, <1>8, <1>9 DEF DeployInv, Orderly

(* A profile is deleted: the nodes that were read are told, late ones not. *)
LEMMA DeleteProfileInv ==
  ASSUME DeployInv, NEW p \in Profiles, DeleteProfile(p)
  PROVE  DeployInv'
<1>. DEFINE nodesRead == profile[p].affected
            left == {x \in Of(p, bindings) : x.site \notin nodesRead}
<1>1. /\ UNCHANGED <<minted, site, calls, lists, reads, dialog, clicks, trouble>>
      /\ bindings' = bindings \ Of(p, bindings) /\ bindings' \subseteq bindings
      /\ profile' = [profile EXCEPT ![p] = [at |-> "gone", affected |-> {}]]
      /\ heard' = [s \in Sites |-> IF s \in nodesRead THEN On(s, bindings') ELSE heard[s]]
      /\ Touched(p, Sites) /\ Moved(Sites)
      /\ excused' = excused \cup {<<"cascade", b.site>> : b \in left}
  BY DEF DeleteProfile, Announce
<1>2. Table' /\ CallsNamed' /\ Listing'
  BY <1>1, RowsGo
<1>3. /\ Saves' /\ saving'.profile = saving.profile /\ saving'.wanted = saving.wanted
      /\ saving.stale \subseteq saving'.stale
      /\ p = saving.profile => Sites \subseteq saving'.stale
  <2>1. Saves /\ Sites \in SUBSET Sites /\ p # NoProfile /\ calls' = calls
    BY <1>1, DeployAssumption DEF DeployInv, Orderly
  <2>. QED BY <1>1, <2>1, TouchedSave
<1>4. /\ Wizards' /\ wizard'.site = wizard.site /\ wizard'.ok = wizard.ok
      /\ IF wizard.site \in Sites THEN wizard'.moved ELSE wizard' = wizard
  <2>1. Wizards /\ calls' = calls
    BY <1>1 DEF DeployInv, Orderly
  <2>. QED BY <1>1, <2>1, MovedWizard
<1>5. Screens'
  <2>1. profile' \in [Profiles -> [at : {"kept", "leaving", "gone"}, affected : SUBSET Sites]]
    BY <1>1 DEF DeployInv, Screens
  <2>. QED BY <1>1, <2>1 DEF DeployInv, Screens
<1>6. SaveDone'
  <2>1. CASE p = saving.profile
    BY <1>3, <2>1 DEF SaveDone
  <2>2. CASE p # saving.profile
    <3>1. \A s \in Sites : Bound(saving.profile, s)' <=> Bound(saving.profile, s)
      BY <1>1, <1>3, <2>2 DEF Bound, On, Of
    <3>. QED BY <1>1, <1>3, <3>1 DEF DeployInv, SaveDone
  <2>. QED BY <2>1, <2>2
<1>7. WizardDone'
  <2>1. CASE wizard.site \in Sites
    BY <1>4, <2>1 DEF WizardDone
  <2>2. CASE wizard.site \notin Sites
    <3>1. wizard' = wizard
      BY <1>4, <2>2
    <3>2. \A b \in bindings : b.site \in Sites
      BY DEF DeployInv, Table, Binding
    <3>3. ~wizard.moved => wizard.ok = {}
      BY <2>2, <3>2 DEF DeployInv, WizardDone
    <3>4. \A c \in calls : c.by # "wizard"
      BY <2>2 DEF DeployInv, Orderly, CallsNamed, ApiCall, Wizards
    <3>. QED BY <1>1, <3>1, <3>3, <3>4 DEF WizardDone
  <2>. QED BY <2>1, <2>2
<1>8. Heard'
  <2>. SUFFICES ASSUME NEW s \in Sites
                PROVE  IF site[s] \in {"up", "absent"}
                       THEN \/ heard'[s] = On(s, bindings') \/ Owed(s)'
                            \/ <<"hostless", s>> \in excused' \/ <<"cascade", s>> \in excused'
                       ELSE On(s, bindings') # {} => <<"phantom", s>> \in excused'
    BY <1>1 DEF Heard
  <2>1. excused \subseteq excused' /\ \A b \in left : <<"cascade", b.site>> \in excused'
    BY <1>1
  <2>2. On(s, bindings') \subseteq On(s, bindings)
    BY <1>1 DEF On
  <2>3. CASE s \in nodesRead
    <3>1. heard'[s] = On(s, bindings')
      BY <1>1, <2>3
    <3>. QED BY <2>1, <2>2, <3>1 DEF DeployInv, Heard
  <2>4. CASE s \notin nodesRead /\ \E b \in Of(p, bindings) : b.site = s
    <3>1. <<"cascade", s>> \in excused'
      BY <2>1, <2>4
    <3>. QED BY <2>1, <2>2, <3>1 DEF DeployInv, Heard
  <2>5. CASE s \notin nodesRead /\ \A b \in Of(p, bindings) : b.site # s
    <3>1. heard'[s] = heard[s] /\ On(s, bindings') = On(s, bindings)
      BY <1>1, <2>5 DEF On
    <3>2. Owed(s) => Owed(s)'
      <4>. SUFFICES ASSUME Owed(s) PROVE Owed(s)'
        OBVIOUS
      <4>1. PICK c \in calls, b \in bindings : c.site = s /\ c.at = "host" /\ b.id = c.id
        BY DEF Owed
      <4>2. b.site = s
        BY <4>1 DEF DeployInv, Orderly, CallsNamed
      <4>3. b \in bindings'
        BY <1>1, <2>5, <4>2
      <4>. QED BY <1>1, <4>1, <4>3 DEF Owed
    <3>. QED BY <2>1, <3>1, <3>2 DEF DeployInv, Heard
  <2>. QED BY <2>3, <2>4, <2>5
<1>. QED BY <1>2, <1>3, <1>4, <1>5, <1>6, <1>7, <1>8 DEF DeployInv, Orderly

------------------------------------------------------------------------------
(* The invariant. *)

(* The initial states. *)
LEMMA DeployStarts ==
  ASSUME DeployInit
  PROVE  DeployInv
<1>1. /\ minted = 1 /\ calls = {} /\ dialog = NoDialog /\ saving = NoSave /\ wizard = NoWizard
      /\ clicks = 0 /\ trouble = 0 /\ excused = {}
      /\ site \in [Sites -> {"up", "absent"}]
      /\ profile = [p \in Profiles |-> [at |-> "kept", affected |-> {}]]
      /\ heard = [s \in Sites |-> On(s, bindings)]
      /\ lists = [p \in Profiles |-> [known |-> FALSE, rows |-> {}]]
      /\ reads = [p \in Profiles |-> NoRead]
  BY DEF DeployInit
<1>2. Table
  <2>1. CASE bindings = {}
    BY <1>1, <2>1 DEF Table
  <2>2. CASE \E p \in Profiles, s \in Sites :
               bindings = {[profile |-> p, site |-> s, port |-> 443, id |-> 1]}
    BY <1>1, <2>2 DEF Table, Binding, Ports
  <2>. QED BY <2>1, <2>2 DEF DeployInit
<1>3. CallsNamed /\ Saves /\ Wizards
  BY <1>1 DEF CallsNamed, Saves, Wizards, NoSave, NoWizard
<1>4. Listing
  <2>1. \A p \in Profiles : lists[p].rows = {} /\ reads[p].rows = {}
    BY <1>1 DEF NoRead
  <2>2. /\ lists \in [Profiles -> [known : BOOLEAN, rows : SUBSET ListRow]]
        /\ reads \in [Profiles -> [at : {"none", "asked", "read"}, rows : SUBSET ListRow]]
    BY <1>1 DEF NoRead
  <2>. QED BY <2>1, <2>2 DEF Listing, RowsNamed
<1>5. Screens
  BY <1>1, DeployAssumption DEF Screens, NoDialog
<1>6. SaveDone /\ WizardDone
  BY <1>1 DEF SaveDone, WizardDone, NoSave, NoWizard
<1>7. Heard
  BY <1>1 DEF Heard
<1>. QED BY <1>2, <1>3, <1>4, <1>5, <1>6, <1>7 DEF DeployInv, Orderly

(* Every step, and a stutter. *)
LEMMA DeploySteps ==
  ASSUME DeployInv, [DeployNext]_deployVars
  PROVE  DeployInv'
<1>1. CASE UNCHANGED deployVars
  <2>1. UNCHANGED <<bindings, minted, site, profile, heard, calls, saving, wizard, excused>>
    BY <1>1 DEF deployVars
  <2>2. lists' = lists /\ reads' = reads /\ dialog' = dialog /\ UNCHANGED <<clicks, trouble>>
    BY <1>1 DEF deployVars
  <2>3. Listing'
    BY <2>1, <2>2 DEF DeployInv, Orderly, Listing, RowsNamed, ListRow
  <2>4. /\ dialog' \in [profile : Profiles \cup {NoProfile}, selected : SUBSET Sites]
        /\ dialog'.profile = NoProfile => dialog' = NoDialog
    BY <2>2 DEF DeployInv, Screens
  <2>. QED BY <2>1, <2>2, <2>3, <2>4, DialogStays
<1>2. CASE \E c \in calls : \/ LoseCall(c) \/ CheckBinding(c) \/ InsertBinding(c)
                            \/ HostBinding(c) \/ DeleteBinding(c) \/ UpdatePort(c)
  BY <1>2, LoseCallInv, CheckBindingInv, InsertBindingInv, HostBindingInv, DeleteBindingInv,
     UpdatePortInv
<1>3. CASE OtherCall
  BY <1>3, OtherCallInv
<1>4. CASE \E s \in Sites : ClearNode(s)
  BY <1>4, ClearNodeInv
<1>5. CASE \E p \in Profiles : DeleteProfile(p)
  BY <1>5, DeleteProfileInv
<1>6. CASE \/ FinishWizard
           \/ \E s \in Sites : SoftDelete(s) \/ RegisterNode(s)
           \/ \E p \in Profiles : ReadAffected(p)
  BY <1>6, QuietInv
<1>7. CASE \/ CloseDeploy \/ \E s \in Sites : Toggle(s)
           \/ \E p \in Profiles : \/ OpenDeploy(p) \/ Refetch(p) \/ ReadBindings(p)
                                  \/ BindingsArrive(p) \/ ReadLost(p)
  BY <1>7, DialogInv
<1>8. CASE \E port \in Ports : SaveDeploy(port)
  BY <1>8, SaveDeployInv
<1>9. CASE FinishDeploy
  BY <1>9, FinishDeployInv
<1>10. CASE \E p \in Profiles : BindNext(p)
  BY <1>10, BindNextInv
<1>. QED BY <1>1, <1>2, <1>3, <1>4, <1>5, <1>6, <1>7, <1>8, <1>9, <1>10 DEF DeployNext

(* The inductive invariant holds in every state. *)
LEMMA DeployInvHolds == DeploySpec => []DeployInv
<1>. QED BY DeployStarts, DeploySteps, PTL DEF DeploySpec

(* The table keeps its unique constraints whatever calls interleave, a save *)
(* waits for exactly the calls that run, and a profile the wizard has yet   *)
(* to bind is none it has reported on (profiles.service.ts:152,             *)
(* DeployProfileModal.tsx:79, NodesPage.tsx:539).                           *)
THEOREM DeployTypeCorrect == DeploySpec => []DeployTypeOK
<1>1. DeployInv => DeployTypeOK
  BY DEF DeployInv, Table, Binding, Orderly, Saves, Wizards, Screens, DeployTypeOK
<1>. QED BY <1>1, DeployInvHolds, PTL

(* A node that is not deleted was told of its bindings as they are, but for *)
(* one between its row and its event, one whose default host failed, and a  *)
(* profile deleted while it was being bound (profiles.service.ts:157).      *)
THEOREM EventsExplainedHolds == DeploySpec => []EventsExplained
<1>1. DeployInv => EventsExplained
  BY DEF DeployInv, Heard, Owed, EventsExplained
<1>. QED BY <1>1, DeployInvHolds, PTL

(* A save that ends well has bound the selected nodes and no others, but    *)
(* where somebody else was at work; what the wizard reports as bound is     *)
(* bound, and of the profiles on its one port there is one at most          *)
(* (DeployProfileModal.tsx:79, NodesPage.tsx:539).                          *)
THEOREM DeployExplainedHolds == DeploySpec => DeployExplained
<1>1. ASSUME DeployInv, FinishDeploy, NEW s \in Sites
      PROVE  \/ Bound(saving.profile, s) <=> s \in saving.wanted
             \/ s \in saving.stale \/ On(s, Of(saving.profile, calls)) # {}
  <2>1. saving.profile # NoProfile
    BY <1>1 DEF FinishDeploy, DeployInv, Orderly, Saves
  <2>. QED BY <1>1, <2>1 DEF DeployInv, SaveDone, On, Of
<1>2. ASSUME DeployInv, FinishWizard, ~wizard.moved
      PROVE  /\ \A p \in wizard.ok : Bound(p, wizard.site)
             /\ Cardinality(wizard.ok) <= 1
  <2>1. \A p \in wizard.ok : \E b \in bindings : b.profile = p /\ b.site = wizard.site /\ b.port = 443
    BY <1>2 DEF DeployInv, WizardDone
  <2>2. \A p, q \in wizard.ok : p = q
    BY <1>2, <2>1 DEF DeployInv, Table
  <2>3. CASE wizard.ok = {}
    BY <2>1, <2>3, FS_EmptySet
  <2>4. CASE wizard.ok # {}
    <3>1. PICK p : wizard.ok = {p}
      BY <2>2, <2>4
    <3>. QED BY <2>1, <3>1, FS_Singleton DEF Bound, On, Of
  <2>. QED BY <2>3, <2>4
<1>3. ASSUME DeployInv, [DeployNext]_deployVars
      PROVE  [/\ FinishDeploy =>
                   \A s \in Sites :
                     \/ Bound(saving.profile, s) <=> s \in saving.wanted
                     \/ s \in saving.stale \/ On(s, Of(saving.profile, calls)) # {}
              /\ FinishWizard /\ ~wizard.moved =>
                   /\ \A p \in wizard.ok : Bound(p, wizard.site)
                   /\ Cardinality(wizard.ok) <= 1]_deployVars
  BY <1>1, <1>2, <1>3
<1>. QED BY <1>3, DeployInvHolds, PTL DEF DeploySpec, DeployExplained

------------------------------------------------------------------------------
(* The console: the list. *)

(* A list that was read is the table, unless somebody has yet to tell. *)
ListInv ==
  /\ flight # None => flight.what \in {"save", "toggle", "delete"} /\ flight.at \in {"sent", "answered"}
  /\ fetch.at = "read" => fetch.got = rows \/ unseen \/ Answered
  /\ ListExplained

(* Nothing is listed before the list is read. *)
LEMMA ListStarts ==
  ASSUME ConsoleInit
  PROVE  ListInv
BY DEF ConsoleInit, ListInv, ListExplained

(* The answer of a request that did its work is not taken for none. *)
LEMMA DoneIsAnswer ==
  ASSUME NEW r, r.what \in {"save", "toggle", "delete"}
  PROVE  /\ [what |-> r.what, at |-> "answered"] # None
         /\ [what |-> r.what, at |-> "answered"].at = "answered"
         /\ [what |-> r.what, at |-> "answered"].what = r.what
<1>1. [what |-> r.what, at |-> "answered"] \in [what : {"save", "toggle", "delete"}, at : {"answered"}]
  OBVIOUS
<1>. QED BY <1>1, ConsoleAssumption

(* What a landing does: the table may change, and then the request waits to *)
(* be answered.                                                             *)
LEMMA LandList ==
  ASSUME ListInv, Sent, cache' = cache, fetch' = fetch, unseen' = unseen,
         \/ flight' = None /\ rows' = rows
         \/ flight' = Done
  PROVE  ListInv'
<1>1. CASE flight' = None /\ rows' = rows
  BY <1>1 DEF ListInv, ListExplained, Sent, Answered
<1>2. CASE flight' = Done
  <2>1. Answered' /\ flight'.what \in {"save", "toggle", "delete"}
    BY <1>2, DoneIsAnswer DEF ListInv, Sent, Answered, Done
  <2>. QED BY <2>1 DEF ListInv, ListExplained, Answered
<1>. QED BY <1>1, <1>2

(* Every step, and a stutter. *)
LEMMA ListSteps ==
  ASSUME ListInv, [ConsoleNext]_consoleVars
  PROVE  ListInv'
<1>1. CASE UNCHANGED <<rows, cache, fetch, unseen, flight>>
  BY <1>1 DEF ListInv, ListExplained, Answered
<1>2. ASSUME NEW what \in {"save", "toggle", "delete"}, NEW r, NEW input,
             flight = None, flight' = Request(what, r, input), UNCHANGED <<rows, cache, fetch, unseen>>
      PROVE  ListInv'
  <2>1. flight'.what = what /\ flight'.at = "sent"
    BY <1>2 DEF Request
  <2>. QED BY <1>2, <2>1 DEF ListInv, ListExplained, Answered
<1>3. CASE Submit
  BY <1>2, <1>3 DEF Submit
<1>4. ASSUME NEW r \in Rows, ToggleHost(r) PROVE ListInv'
  BY <1>2, <1>4 DEF ToggleHost
<1>5. ASSUME NEW r \in Rows, Delete(r) PROVE ListInv'
  BY <1>2, <1>5 DEF Delete
<1>6. CASE Land
  BY <1>6, LandList DEF Land
<1>7. CASE LandDelete
  BY <1>7, LandList DEF LandDelete
<1>8. CASE LandPartly
  BY <1>8 DEF LandPartly, ListInv, ListExplained
<1>9. CASE Lose
  BY <1>9 DEF Lose, ListInv, ListExplained, Answered
<1>10. CASE Finish
  BY <1>10 DEF Finish, Invalidate, ListInv, ListExplained
<1>11. CASE ReadList
  BY <1>11 DEF ReadList, ListInv, ListExplained
<1>12. CASE ListArrives
  <2>1. /\ fetch.at = "read" /\ fetch' = Idle /\ cache' = fetch.got
        /\ unseen' = (unseen /\ fetch.got # rows) /\ rows' = rows /\ flight' = flight
    BY <1>12 DEF ListArrives
  <2>. QED BY <2>1 DEF ListInv, ListExplained, Idle, Answered
<1>13. CASE FetchFails
  BY <1>13 DEF FetchFails, ListInv, ListExplained, Idle
<1>14. ASSUME NEW r \in Rows, ChangeElsewhere(r) \/ DeleteElsewhere(r) PROVE ListInv'
  BY <1>14 DEF ChangeElsewhere, DeleteElsewhere, ListInv, ListExplained
<1>15. ASSUME NEW r \in Rows, OpenDialog(r) \/ EnterCard(r) PROVE ListInv'
  BY <1>1, <1>15 DEF OpenDialog, EnterCard
<1>16. CASE Type \/ ChoosePreset \/ GenerateKeys \/ KeysAnswer \/ Cancel \/ Leave
  BY <1>1, <1>16 DEF Type, ChoosePreset, GenerateKeys, KeysAnswer, Cancel, Leave
<1>17. CASE UNCHANGED consoleVars
  BY <1>1, <1>17 DEF consoleVars
<1>. QED BY <1>3, <1>4, <1>5, <1>6, <1>7, <1>8, <1>9, <1>10, <1>11, <1>12, <1>13, <1>14, <1>15,
        <1>16, <1>17 DEF ConsoleNext

(* The page shows what the table holds once nothing is under way, unless a  *)
(* change was made elsewhere, an answer or a fetch was lost, or a save of   *)
(* the settings stopped half way (UsersPage.tsx:282).                       *)
THEOREM ListExplainedHolds == ConsoleSpec => []ListExplained
<1>1. ListInv => ListExplained
  BY DEF ListInv
<1>. QED BY <1>1, ListStarts, ListSteps, PTL DEF ConsoleSpec

------------------------------------------------------------------------------
(* The console: what is typed. *)

(* The fields of a page's form. *)
Fields ==
  CASE kind = "user" -> {"name", "status", "limit", "text", "squads"}
    [] kind = "squad" -> {"name", "text", "profiles"}
    [] kind = "node" -> {"name", "host", "port", "factor", "text"}
    [] kind = "host" -> {"name", "enabled", "text", "layer"}
    [] kind = "region" -> {"name", "code"}
    [] kind = "srr" -> {"name", "pattern", "priority"}
    [] kind = "brand" -> {"name"}
    [] kind = "meta" -> {"name", "hours"}
    [] kind = "hysteria" -> {"name", "text", "obfs", "hopStart", "hopEnd"}
    [] kind = "xray" -> {"name", "text", "ids", "keys", "network", "service"}
    [] kind = "amneziawg" -> {"name", "text", "preset", "keys", "s3", "h1", "h2"}
    [] kind = "naive" -> {"name", "text", "host", "root"}
    [] kind = "shadowsocks" -> {"name", "text", "method"}
    [] kind = "mtproto" -> {"name", "text", "domain"}
    [] kind = "mieru" -> {"name", "text", "mtu"}

Shaped(f) ==
  /\ f = [values |-> f.values, of |-> f.of, kept |-> f.kept]
  /\ f.values = [x \in Fields |-> f.values[x]]

(* A form filled from a row has the fields of its page. *)
LEMMA FilledShaped ==
  ASSUME kind \in Pages, NEW r, NEW row
  PROVE  Shaped(Fill(r, row)) /\ Fill(r, row).values = Filled(row)
<1>1. Filled(row) = [x \in Fields |-> Filled(row)[x]]
  <2>1. CASE kind \in {"user", "squad", "host", "region", "srr"} \cup Cards
    BY <2>1 DEF Cards, Protocols, Filled, Fields, UserForm, SquadForm, HostForm, RegionForm,
                SrrForm, MetaForm, IsProfile
  <2>2. CASE kind = "node"
    BY <2>2 DEF Protocols, Filled, Fields, IsProfile, NodeForm, SplitAddress, Over
  <2>3. CASE kind \in Protocols
    <3>1. Filled(row) = ProfileForm(row)
      BY <2>3 DEF Protocols, Filled, IsProfile
    <3>2. CASE kind = "hysteria"
      BY <3>1, <3>2 DEF ProfileForm, ConfigForm, HysteriaForm, Over, Fields
    <3>3. CASE kind = "xray"
      BY <3>1, <3>3 DEF ProfileForm, ConfigForm, XrayForm, Over, Fields
    <3>4. CASE kind = "amneziawg"
      BY <3>1, <3>4 DEF ProfileForm, ConfigForm, AwgForm, Over, Fields
    <3>5. CASE kind = "naive"
      BY <3>1, <3>5 DEF ProfileForm, ConfigForm, Over, Fields
    <3>6. CASE kind = "shadowsocks"
      BY <3>1, <3>6 DEF ProfileForm, ConfigForm, Over, Fields
    <3>7. CASE kind = "mtproto"
      BY <3>1, <3>7 DEF ProfileForm, ConfigForm, Over, Fields
    <3>8. CASE kind = "mieru"
      BY <3>1, <3>8 DEF ProfileForm, ConfigForm, Over, Fields
    <3>. QED BY <2>3, <3>2, <3>3, <3>4, <3>5, <3>6, <3>7, <3>8 DEF Protocols
  <2>. QED BY <2>1, <2>2, <2>3 DEF Pages
<1>2. Fill(r, row) = [values |-> Filled(row), of |-> r, kept |-> FALSE]
  BY DEF Fill
<1>. QED BY <1>1, <1>2 DEF Shaped

(* What can be typed has one field or more of the form. *)
LEMMA TypingFields ==
  ASSUME kind \in Pages, NEW v
  PROVE  /\ DOMAIN Typing(v) \subseteq Fields \ {"preset"}
         /\ kind = "user" => "name" \notin DOMAIN Typing(v)
<1>1. CASE kind \in {"user", "squad", "node", "host", "region", "srr"} \cup Cards
  BY <1>1 DEF Cards, Protocols, Typing, Fields, UserTyping, SquadTyping, NodeTyping, HostTyping,
              RegionTyping, SrrTyping, IsProfile
<1>2. CASE kind \in Protocols
  <2>1. Typing(v) = ProfileTyping(v)
    BY <1>2 DEF Protocols, Typing, IsProfile
  <2>2. DOMAIN Typing(v) = {"name", "text"} \cup DOMAIN ConfigTyping(v)
    BY <2>1 DEF ProfileTyping, Over
  <2>3. DOMAIN ConfigTyping(v) \subseteq Fields \ {"preset"} /\ {"name", "text"} \subseteq Fields
    BY <1>2 DEF Protocols, ConfigTyping, HysteriaTyping, XrayTyping, AwgTyping, NaiveTyping,
                ShadowsocksTyping, MtprotoTyping, MieruTyping, Fields
  <2>. QED BY <1>2, <2>2, <2>3 DEF Protocols
<1>. QED BY <1>1, <1>2 DEF Pages

(* Rows of users and rules have a name, and rules a pattern: their dialogs  *)
(* take a form without one for a form that was not filled.                  *)
RowNamed(row) ==
  /\ kind \in {"user", "srr"} => "name" \in DOMAIN row /\ row.name # ""
  /\ kind = "srr" => "pattern" \in DOMAIN row /\ row.pattern # ""
TableNamed(t) == \A r \in Rows : t[r] = Gone \/ RowNamed(t[r])

Tables ==
  /\ kind \in Pages
  /\ rows = [r \in Rows |-> rows[r]]
  /\ TableNamed(rows)
  /\ cache # Unknown => TableNamed(cache)
  /\ fetch.at = "read" => TableNamed(fetch.got)
  /\ flight # None =>
       /\ flight.what \in {"save", "toggle", "delete"}
       /\ flight.what = "toggle" => kind = "host"
       /\ flight.at = "sent" => flight.row \in Rows
       /\ flight.at = "sent" /\ flight.what = "save" /\ kind = "user" => "name" \notin DOMAIN flight.input

Forms ==
  /\ open \in Rows \cup {None}
  /\ Shaped(form) \/ (open = None /\ FillsOnOpen)
  /\ gen # None => kind \in {"xray", "amneziawg"} /\ Shaped(gen)
  /\ open = None => DOMAIN typed = {}
  /\ DOMAIN typed \subseteq Fields \ {"preset"}
  /\ kind = "user" => /\ "name" \notin DOMAIN typed
                      /\ open # None => form.values.name # ""
  /\ kind = "squad" /\ open # None /\ "name" \notin DOMAIN typed => form.values.name = snap.name
  /\ kind = "srr" =>
       IF open = None THEN form = NoForm
       ELSE /\ "name" \notin DOMAIN typed => form.values.name # ""
            /\ "pattern" \notin DOMAIN typed => form.values.pattern # ""
  /\ TypingExplained

TypedInv == Tables /\ Forms

(* A form after reset() has the fields of its page. *)
LEMMA BlankShaped ==
  ASSUME kind \in Pages
  PROVE  Shaped(NoForm) \/ FillsOnOpen
<1>1. NoForm = [values |-> Blank, of |-> None, kept |-> FALSE]
  BY DEF NoForm
<1>2. CASE kind \in {"user", "squad", "srr"} \cup Cards
  BY <1>1, <1>2 DEF Cards, Blank, NoUser, NoSquad, NoRule, NoMeta, Shaped, Fields
<1>3. CASE kind \notin {"user", "squad", "srr"} \cup Cards
  BY <1>3 DEF FillsOnOpen, IsProfile, Pages, Protocols
<1>. QED BY <1>2, <1>3

(* The initial states. *)
LEMMA TypedStarts ==
  ASSUME ConsoleInit
  PROVE  TypedInv
<1>1. /\ kind \in Pages /\ cache = None /\ fetch.at = "asked" /\ flight = None /\ gen = None
      /\ open = None /\ form = NoForm /\ typed = Nothing
      /\ rows \in [Rows -> UNION {InitialRows(r) : r \in Rows} \cup {Gone}]
      /\ \A r \in Rows : rows[r] \in InitialRows(r) \cup (IF IsCard THEN {Gone} ELSE {})
  BY ConsoleAssumption DEF ConsoleInit, Unknown
<1>2. TableNamed(rows)
  <2>1. CASE kind = "user"
    <3>1. \A r \in Rows : rows[r] \in UserRows(r)
      BY <1>1, <2>1 DEF InitialRows, IsCard, Cards, IsProfile, Protocols
    <3>2. \A r \in Rows : \A x \in UserRows(r) : "name" \in DOMAIN x /\ x.name = r
      BY DEF UserRows
    <3>3. \A r \in Rows : r # ""
      BY ConsoleAssumption
    <3>4. ASSUME NEW r \in Rows
          PROVE  "name" \in DOMAIN rows[r] /\ rows[r].name # ""
      <4>1. "name" \in DOMAIN rows[r] /\ rows[r].name = r
        BY <3>1, <3>2
      <4>. QED BY <3>3, <4>1
    <3>. QED BY <2>1, <3>4 DEF TableNamed, RowNamed
  <2>2. CASE kind = "srr"
    <3>1. \A r \in Rows : rows[r] \in [name : {r}, pattern : {r}, priority : {"10"}]
      BY <1>1, <2>2 DEF InitialRows, IsCard, Cards, IsProfile, Protocols
    <3>2. ASSUME NEW r \in Rows
          PROVE  RowNamed(rows[r])
      <4>1. /\ "name" \in DOMAIN rows[r] /\ rows[r].name = r
            /\ "pattern" \in DOMAIN rows[r] /\ rows[r].pattern = r
        BY <3>1
      <4>2. r # ""
        BY ConsoleAssumption
      <4>. QED BY <4>1, <4>2 DEF RowNamed
    <3>. QED BY <3>2 DEF TableNamed
  <2>3. CASE kind \notin {"user", "srr"}
    BY <2>3 DEF TableNamed, RowNamed
  <2>. QED BY <2>1, <2>2, <2>3
<1>3. Tables
  BY <1>1, <1>2 DEF Tables, Unknown
<1>4. DOMAIN typed = {}
  BY <1>1 DEF Nothing
<1>5. Forms
  BY <1>1, <1>4, BlankShaped DEF Forms, TypingExplained
<1>. QED BY <1>3, <1>5 DEF TypedInv

(* The tables: what lands and what changes elsewhere leaves rows a name. *)
LEMMA TablesStay ==
  ASSUME Tables, UNCHANGED <<kind, rows, cache, fetch, flight>>
  PROVE  Tables'
BY DEF Tables, TableNamed, RowNamed

(* A change of one row keeps the names of all of them. *)
LEMMA RowChanges ==
  ASSUME Tables, NEW r \in Rows, NEW row, row = Gone \/ RowNamed(row),
         kind' = kind, cache' = cache, fetch' = fetch, rows' = [rows EXCEPT ![r] = row],
         flight' = flight \/ flight' = None \/ (flight' = Done /\ Sent)
  PROVE  Tables'
<1>1. \A q \in Rows : rows'[q] = IF q = r THEN row ELSE rows[q]
  BY DEF Tables
<1>2. rows' = [q \in Rows |-> rows'[q]]
  BY DEF Tables
<1>3. \A q \in Rows : rows'[q] = Gone \/ RowNamed(rows'[q])
  BY <1>1 DEF Tables, TableNamed
<1>4. TableNamed(rows)'
  BY <1>3 DEF TableNamed, RowNamed
<1>5. flight' # None => /\ flight'.what \in {"save", "toggle", "delete"}
                        /\ flight'.what = "toggle" => kind = "host"
                        /\ flight'.at = "sent" => flight' = flight
  <2>1. CASE flight' = Done /\ Sent
    <3>1. flight'.what = flight.what /\ flight'.at = "answered"
      BY <2>1, DoneIsAnswer DEF Tables, Sent, Done
    <3>. QED BY <2>1, <3>1 DEF Tables, Sent
  <2>2. CASE flight' = flight \/ flight' = None
    BY <2>2 DEF Tables
  <2>. QED BY <2>1, <2>2
<1>6. /\ cache' # Unknown => TableNamed(cache)'
      /\ fetch'.at = "read" => TableNamed(fetch.got)'
  BY DEF Tables, TableNamed, RowNamed
<1>7. kind' \in Pages
  BY DEF Tables
<1>8. flight' # None =>
       /\ flight'.what \in {"save", "toggle", "delete"}
       /\ flight'.what = "toggle" => kind' = "host"
       /\ flight'.at = "sent" => flight'.row \in Rows
       /\ flight'.at = "sent" /\ flight'.what = "save" /\ kind' = "user" => "name" \notin DOMAIN flight'.input
  BY <1>5 DEF Tables
<1>. QED BY <1>2, <1>4, <1>6, <1>7, <1>8 DEF Tables

(* Every step keeps the names of the rows. *)
LEMMA TablesSteps ==
  ASSUME TypedInv, [ConsoleNext]_consoleVars
  PROVE  Tables'
<1>. USE DEF TypedInv
<1>1. CASE UNCHANGED <<kind, rows, cache, fetch, flight>>
  BY <1>1, TablesStay
<1>2. CASE flight' = None /\ UNCHANGED <<kind, rows, cache, fetch>>
  BY <1>2 DEF Tables, TableNamed, RowNamed
<1>3. ASSUME NEW what \in {"save", "toggle", "delete"}, NEW r \in Rows, NEW input,
             flight' = Request(what, r, input), UNCHANGED <<kind, rows, cache, fetch>>,
             what = "toggle" => kind = "host",
             what = "save" /\ kind = "user" => "name" \notin DOMAIN input
      PROVE  Tables'
  <2>1. flight'.what = what /\ flight'.at = "sent" /\ flight'.row = r /\ flight'.input = input
    BY <1>3 DEF Request
  <2>2. /\ TableNamed(rows)' /\ (cache' # Unknown => TableNamed(cache)')
        /\ (fetch'.at = "read" => TableNamed(fetch.got)')
    BY <1>3 DEF Tables, TableNamed, RowNamed
  <2>. QED BY <1>3, <2>1, <2>2 DEF Tables
<1>4. CASE Submit
  <2>1. open \in Rows /\ flight' = Request("save", open, Input(form.values))
        /\ UNCHANGED <<kind, rows, cache, fetch>>
    BY <1>4 DEF Submit, Forms
  <2>2. kind = "user" => "name" \notin DOMAIN Input(form.values)
    BY DEF Input, UserInput, IsProfile, Protocols
  <2>. QED BY <1>3, <2>1, <2>2
<1>5. ASSUME NEW r \in Rows, ToggleHost(r) PROVE Tables'
  BY <1>3, <1>5 DEF ToggleHost
<1>6. ASSUME NEW r \in Rows, Delete(r) PROVE Tables'
  BY <1>3, <1>6 DEF Delete
<1>7. CASE Land
  <2>1. CASE flight' = None /\ UNCHANGED rows
    BY <1>2, <1>7, <2>1 DEF Land
  <2>2. CASE ~(flight' = None /\ UNCHANGED rows)
    <3>. DEFINE row == Updated(rows[flight.row], flight.input)
    <3>1. /\ Sent /\ flight.row \in Rows /\ flight' = Done /\ rows[flight.row] # Gone
          /\ rows' = [rows EXCEPT ![flight.row] = row]
          /\ ~(flight.what = "save" /\ Refused(flight.row, flight.input))
          /\ UNCHANGED <<kind, cache, fetch>> /\ flight.what # "delete"
      BY <1>7, <2>2 DEF Land, Sent, Tables
    <3>2. RowNamed(row)
      <4>1. CASE kind \notin {"user", "srr"}
        BY <4>1 DEF RowNamed
      <4>2. CASE kind \in {"user", "srr"}
        <5>1. flight.what = "save" /\ RowNamed(rows[flight.row])
          BY <3>1, <4>2 DEF Tables, Sent, TableNamed
        <5>2. row = Merge(rows[flight.row], flight.input)
          BY <4>2 DEF Updated, IsProfile, Protocols
        <5>3. kind = "user" => "name" \notin DOMAIN flight.input
          BY <3>1, <5>1 DEF Tables, Sent
        <5>4. kind = "srr" => flight.input.name # "" /\ flight.input.pattern # ""
          BY <3>1, <5>1 DEF Refused, SrrRefused, IsProfile, Protocols
        <5>. QED BY <4>2, <5>1, <5>2, <5>3, <5>4 DEF RowNamed, Merge
      <4>. QED BY <4>1, <4>2
    <3>. HIDE DEF row
    <3>. QED BY <3>1, <3>2, RowChanges
  <2>. QED BY <2>1, <2>2
<1>8. CASE LandDelete
  <2>1. CASE flight' = None /\ UNCHANGED rows
    BY <1>2, <1>8, <2>1 DEF LandDelete
  <2>2. CASE ~(flight' = None /\ UNCHANGED rows)
    BY <1>8, <2>2, RowChanges DEF LandDelete, Sent, Tables
  <2>. QED BY <2>1, <2>2
<1>9. CASE LandPartly
  <2>. DEFINE row == [rows[flight.row] EXCEPT !.name = flight.input.name]
  <2>1. /\ flight.row \in Rows /\ rows' = [rows EXCEPT ![flight.row] = row]
        /\ UNCHANGED <<kind, cache, fetch>> /\ flight' = None
        /\ kind = "meta"
    BY <1>9 DEF LandPartly, Sent, Tables
  <2>2. RowNamed(row)
    BY <2>1 DEF RowNamed
  <2>. HIDE DEF row
  <2>. QED BY <2>1, <2>2, RowChanges
<1>10. CASE Lose
  BY <1>2, <1>10 DEF Lose
<1>11. CASE Finish
  <2>1. flight' = None /\ UNCHANGED <<kind, rows, cache>> /\ fetch'.at = "asked"
    BY <1>11 DEF Finish, Invalidate
  <2>. QED BY <2>1 DEF Tables, TableNamed, RowNamed
<1>12. CASE ReadList
  <2>1. UNCHANGED <<kind, rows, cache, flight>> /\ fetch'.got = rows
    BY <1>12 DEF ReadList
  <2>. QED BY <2>1 DEF Tables, TableNamed, RowNamed
<1>13. CASE ListArrives
  <2>1. UNCHANGED <<kind, rows, flight>> /\ fetch'.at = "none" /\ cache' = fetch.got /\ fetch.at = "read"
    BY <1>13 DEF ListArrives, Idle
  <2>. QED BY <2>1 DEF Tables, TableNamed, RowNamed
<1>14. CASE FetchFails
  <2>1. UNCHANGED <<kind, rows, flight, cache>> /\ fetch'.at = "none"
    BY <1>14 DEF FetchFails, Idle
  <2>. QED BY <2>1 DEF Tables, TableNamed, RowNamed
<1>15. ASSUME NEW r \in Rows, ChangeElsewhere(r) PROVE Tables'
  <2>1. PICK f \in (DOMAIN Theirs \cap DOMAIN rows[r]) \ (IF kind = "user" THEN {"name"} ELSE {}) :
          rows' = [rows EXCEPT ![r][f] = Theirs[f]]
    BY <1>15 DEF ChangeElsewhere
  <2>. DEFINE row == [rows[r] EXCEPT ![f] = Theirs[f]]
  <2>2. rows' = [rows EXCEPT ![r] = row]
    BY <2>1
  <2>3. RowNamed(rows[r])
    BY <1>15 DEF ChangeElsewhere, Tables, TableNamed
  <2>4. f # "pattern" /\ Theirs[f] # "" /\ (kind = "user" => f # "name")
    <3>1. f \in {"name", "text", "status", "priority"}
      BY DEF Theirs
    <3>2. /\ Theirs["name"] = "theirs" /\ Theirs["text"] = "theirs"
          /\ Theirs["status"] = "limited" /\ Theirs["priority"] = "5"
      BY DEF Theirs
    <3>3. kind = "user" => f # "name"
      OBVIOUS
    <3>. QED BY <3>1, <3>2, <3>3
  <2>5. RowNamed(row)
    BY <2>3, <2>4 DEF RowNamed
  <2>. HIDE DEF row
  <2>6. flight' = flight /\ UNCHANGED <<kind, cache, fetch>>
    BY <1>15 DEF ChangeElsewhere
  <2>. QED BY <2>2, <2>5, <2>6, RowChanges
<1>16. ASSUME NEW r \in Rows, DeleteElsewhere(r) PROVE Tables'
  BY <1>16, RowChanges DEF DeleteElsewhere
<1>17. ASSUME NEW r \in Rows, OpenDialog(r) \/ EnterCard(r) PROVE Tables'
  BY <1>1, <1>17 DEF OpenDialog, EnterCard
<1>18. CASE Type \/ ChoosePreset \/ GenerateKeys \/ KeysAnswer \/ Cancel \/ Leave
  BY <1>1, <1>18 DEF Type, ChoosePreset, GenerateKeys, KeysAnswer, Cancel, Leave
<1>19. CASE UNCHANGED consoleVars
  BY <1>1, <1>19 DEF consoleVars
<1>. QED BY <1>4, <1>5, <1>6, <1>7, <1>8, <1>9, <1>10, <1>11, <1>12, <1>13, <1>14, <1>15,
        <1>16, <1>17, <1>18, <1>19 DEF ConsoleNext

(* A form that is as it was. *)
LEMMA FormsStay ==
  ASSUME Forms, kind' = kind, open' = open, snap' = snap, form' = form, gen' = gen,
         typed' = typed, told' = told
  PROVE  Forms'
<1>1. Fields' = Fields /\ (FillsOnOpen' <=> FillsOnOpen)
  BY DEF Fields, FillsOnOpen, IsProfile
<1>2. Shaped(form)' <=> Shaped(form)
  BY <1>1 DEF Shaped
<1>3. gen' # None => (Shaped(gen)' <=> Shaped(gen))
  BY <1>1 DEF Shaped
<1>4. NoForm' = NoForm
  BY DEF NoForm, Blank
<1>5. TypingExplained'
  BY DEF Forms, TypingExplained
<1>. QED BY <1>1, <1>2, <1>3, <1>4, <1>5 DEF Forms

(* A dialog that closes leaves nothing typed and, but for two pages, nothing *)
(* in its form.                                                             *)
LEMMA FormsClose ==
  ASSUME Forms, kind \in Pages, kind' = kind, gen' = gen, open' = None, typed' = Nothing,
         \/ form' = NoForm
         \/ form' = [form EXCEPT !.kept = TRUE] /\ kind \in {"user", "squad"}
  PROVE  Forms'
<1>1. Fields' = Fields /\ (FillsOnOpen' <=> FillsOnOpen) /\ NoForm' = NoForm
  BY DEF Fields, FillsOnOpen, IsProfile, NoForm, Blank
<1>2. gen' # None => (Shaped(gen)' <=> Shaped(gen))
  BY <1>1 DEF Shaped
<1>3. open' = None /\ DOMAIN typed' = {}
  BY DEF Nothing
<1>4. Shaped(form)' \/ FillsOnOpen'
  <2>1. CASE form' = [form EXCEPT !.kept = TRUE] /\ kind \in {"user", "squad"}
    <3>1. Shaped(form)
      BY <2>1 DEF Forms, FillsOnOpen, IsProfile, Protocols
    <3>2. form' = [values |-> form.values, of |-> form.of, kept |-> TRUE]
      BY <2>1, <3>1 DEF Shaped
    <3>. QED BY <1>1, <3>1, <3>2 DEF Shaped
  <2>2. CASE form' = NoForm
    BY <1>1, <2>2, BlankShaped DEF Shaped
  <2>. QED BY <2>1, <2>2
<1>5. kind = "srr" => form' = NoForm
  OBVIOUS
<1>6. TypingExplained'
  BY <1>3 DEF TypingExplained
<1>. QED BY <1>1, <1>2, <1>3, <1>4, <1>5, <1>6 DEF Forms

(* A dialog that opens has a form of its row. *)
LEMMA FormsOpen ==
  ASSUME Forms, kind \in Pages, kind' = kind, gen' = gen, open' \in Rows, typed' = Nothing,
         Shaped(form'),
         kind \in {"user", "srr"} => form'.values.name # "",
         kind = "srr" => form'.values.pattern # "",
         kind = "squad" => form'.values.name = snap'.name
  PROVE  Forms'
<1>1. Fields' = Fields /\ DOMAIN typed' = {}
  BY DEF Fields, Nothing
<1>2. gen' # None => (Shaped(gen)' <=> Shaped(gen))
  BY <1>1 DEF Shaped
<1>3. Shaped(form)'
  BY <1>1 DEF Shaped
<1>4. open' # None
  BY ConsoleAssumption
<1>5. TypingExplained'
  BY <1>1 DEF TypingExplained
<1>. QED BY <1>1, <1>2, <1>3, <1>4, <1>5 DEF Forms

(* Opening a dialog, or entering a card. *)
LEMMA OpenForms ==
  ASSUME TypedInv, NEW r \in Rows, OpenDialog(r) \/ EnterCard(r)
  PROVE  Forms'
<1>. USE DEF TypedInv
<1>0. kind \in Pages /\ kind' = kind /\ gen' = gen /\ open' = r /\ typed' = Nothing
  BY DEF OpenDialog, EnterCard, Tables
<1>1. CASE EnterCard(r)
  <2>1. kind \in Cards
    BY <1>1 DEF EnterCard, IsCard
  <2>2. kind \notin {"user", "srr", "squad"} /\ ~FillsOnOpen
    BY <2>1 DEF Cards, FillsOnOpen, IsProfile, Protocols
  <2>3. Shaped(NoForm) /\ Shaped(Fill(r, cache[r]))
    BY <1>0, <2>2, BlankShaped, FilledShaped
  <2>4. Shaped(form')
    BY <1>1, <2>3 DEF EnterCard
  <2>. QED BY <1>0, <2>2, <2>4, FormsOpen
<1>2. CASE OpenDialog(r)
  <2>. DEFINE row == cache[r]
  <2>1. /\ cache # Unknown /\ row # Gone /\ snap' = row /\ kind \notin Cards
        /\ open = None \/ (kind = "region" /\ open # r)
        /\ form' = IF FillsOnOpen THEN Fill(r, row) ELSE Drawn(form, r, row)
    BY <1>2 DEF OpenDialog, IsCard
  <2>2. RowNamed(row)
    BY <2>1 DEF Tables, TableNamed
  <2>. HIDE DEF row
  <2>3. Shaped(Fill(r, row)) /\ Fill(r, row).values = Filled(row)
    BY <1>0, FilledShaped
  <2>4. CASE FillsOnOpen
    <3>1. kind \notin {"user", "srr", "squad"}
      BY <2>4 DEF FillsOnOpen, IsProfile, Protocols
    <3>. QED BY <1>0, <2>1, <2>3, <2>4, <3>1, FormsOpen
  <2>5. CASE kind = "user"
    <3>1. ~FillsOnOpen
      BY <2>5 DEF FillsOnOpen, IsProfile, Protocols
    <3>2. form' = UserDrawn(form, r, row) /\ Shaped(form)
      BY <2>1, <2>5, <3>1 DEF Drawn, Forms
    <3>3. Filled(row).name = row.name
      BY <2>5 DEF Filled, UserForm, IsProfile, Protocols
    <3>4. Shaped(form') /\ form'.values.name # ""
      BY <2>2, <2>3, <2>5, <3>2, <3>3 DEF UserDrawn, RowNamed
    <3>. QED BY <1>0, <2>5, <3>4, FormsOpen
  <2>6. CASE kind = "squad"
    <3>1. ~FillsOnOpen
      BY <2>6 DEF FillsOnOpen, IsProfile, Protocols
    <3>2. form' = SquadDrawn(form, r, row) /\ Shaped(form)
      BY <2>1, <2>6, <3>1 DEF Drawn, Forms
    <3>3. Filled(row).name = row.name
      BY <2>6 DEF Filled, SquadForm, IsProfile, Protocols
    <3>4. Shaped(form') /\ form'.values.name = snap'.name
      BY <2>1, <2>3, <3>2, <3>3 DEF SquadDrawn
    <3>. QED BY <1>0, <2>6, <3>4, FormsOpen
  <2>7. CASE kind = "srr"
    <3>1. ~FillsOnOpen
      BY <2>7 DEF FillsOnOpen, IsProfile, Protocols
    <3>2. form' = SrrDrawn(form, r, row) /\ form = NoForm
      BY <2>1, <2>7, <3>1 DEF Drawn, Forms
    <3>3. Filled(row).name = row.name /\ Filled(row).pattern = row.pattern
      BY <2>7 DEF Filled, SrrForm, IsProfile, Protocols
    <3>4. form.values.name = "" /\ form.values.pattern = ""
      BY <2>7, <3>2 DEF NoForm, Blank, NoRule
    <3>5. form' = Fill(r, row)
      BY <3>2, <3>4 DEF SrrDrawn
    <3>6. row.name # "" /\ row.pattern # ""
      BY <2>2, <2>7 DEF RowNamed
    <3>. QED BY <1>0, <2>3, <2>7, <3>3, <3>5, <3>6, FormsOpen
  <2>. QED BY <1>0, <2>1, <2>4, <2>5, <2>6, <2>7 DEF FillsOnOpen, IsProfile, Pages, Cards
<1>. QED BY <1>1, <1>2

(* A field is typed: nothing but the service of a transport just chosen     *)
(* changes with it, unless the dialog takes its form for another's.         *)
LEMMA TypeForms ==
  ASSUME TypedInv, Type
  PROVE  Forms'
<1>. USE DEF TypedInv
<1>1. PICK f \in DOMAIN Typing(form.values) :
        \E x \in Typing(form.values)[f] \ {form.values[f]} :
          LET put == [form.values EXCEPT ![f] = x]
              vals == IF kind = "xray" THEN ServiceFilled(form.values, put) ELSE put
          IN /\ form' = Drawn([form EXCEPT !.values = vals], open, snap)
             /\ typed' = Over([g \in {f} |-> x], typed)
  BY DEF Type
<1>2. PICK x :
          LET put == [form.values EXCEPT ![f] = x]
              vals == IF kind = "xray" THEN ServiceFilled(form.values, put) ELSE put
          IN /\ form' = Drawn([form EXCEPT !.values = vals], open, snap)
             /\ typed' = Over([g \in {f} |-> x], typed)
  BY <1>1
<1>. DEFINE put == [form.values EXCEPT ![f] = x]
            vals == IF kind = "xray" THEN ServiceFilled(form.values, put) ELSE put
            next == [form EXCEPT !.values = vals]
<1>3. /\ form' = Drawn(next, open, snap)
      /\ typed' = Over([g \in {f} |-> x], typed)
      /\ open # None /\ UNCHANGED <<kind, open, snap, gen, told>>
  BY <1>2 DEF Type
<1>4. kind \in Pages /\ open \in Rows /\ Shaped(form)
  BY <1>3 DEF Tables, Forms
<1>5. f \in Fields \ {"preset"} /\ (kind = "user" => f # "name")
  BY <1>4, TypingFields
<1>6. /\ DOMAIN typed' = DOMAIN typed \cup {f}
      /\ \A g \in DOMAIN typed' : typed'[g] = IF g = f THEN x ELSE typed[g]
  BY <1>3 DEF Over
<1>7. put = [g \in Fields |-> IF g = f THEN x ELSE form.values[g]]
  BY <1>4, <1>5 DEF Shaped
<1>8. /\ vals = [g \in Fields |-> vals[g]]
      /\ \A g \in Fields : vals[g] = (IF g = f THEN x ELSE form.values[g])
                           \/ (kind = "xray" /\ g = "service" /\ put[g] = "")
  <2>1. CASE kind # "xray"
    BY <1>7, <2>1
  <2>2. CASE kind = "xray"
    <3>1. vals = put \/ (vals = [put EXCEPT !.service = "GunService"] /\ put["service"] = "")
      BY <2>2 DEF ServiceFilled
    <3>. HIDE DEF vals
    <3>2. CASE vals = put
      BY <1>7, <3>2
    <3>3. CASE vals = [put EXCEPT !.service = "GunService"] /\ put["service"] = ""
      <4>. HIDE DEF put
      <4>. QED BY <1>7, <2>2, <3>3
    <3>. QED BY <3>1, <3>2, <3>3
  <2>. QED BY <2>1, <2>2
<1>9. next.values = vals /\ Shaped(next)
  <2>. HIDE DEF vals
  <2>1. next = [values |-> vals, of |-> form.of, kept |-> form.kept]
    BY <1>4 DEF Shaped
  <2>. QED BY <1>8, <2>1 DEF Shaped
<1>. HIDE DEF put, vals, next
<1>10. Fields' = Fields
  BY <1>3 DEF Fields
<1>11. Shaped(form')
  <2>1. Shaped(Fill(open, snap))
    BY <1>4, FilledShaped
  <2>. QED BY <1>3, <1>9, <2>1 DEF Drawn, UserDrawn, SquadDrawn, SrrDrawn
<1>12. \A g \in DOMAIN typed' : g # f => g \in DOMAIN typed
  BY <1>6
<1>13. kind = "user" => form' = next /\ form'.values.name # ""
  <2>. SUFFICES ASSUME kind = "user" PROVE form' = next /\ form'.values.name # ""
    OBVIOUS
  <2>1. form.values.name # "" /\ "name" \in Fields
    BY <1>3 DEF Forms, Fields
  <2>2. next.values.name # ""
    BY <1>5, <1>8, <1>9, <2>1
  <2>. QED BY <1>3, <2>2 DEF Drawn, UserDrawn
<1>14. kind = "squad" => "name" \in DOMAIN typed' \/ (form' = next /\ form'.values.name = snap.name)
  <2>. SUFFICES ASSUME kind = "squad", "name" \notin DOMAIN typed'
                PROVE  form' = next /\ form'.values.name = snap.name
    OBVIOUS
  <2>1. form.values.name = snap.name /\ "name" \in Fields /\ f # "name"
    BY <1>3, <1>6 DEF Forms, Fields
  <2>2. next.values.name = snap.name
    BY <1>8, <1>9, <2>1
  <2>. QED BY <1>3, <2>2 DEF Drawn, SquadDrawn
<1>15. kind = "srr" => /\ {"name", "pattern"} \subseteq DOMAIN typed' \/ form' = next
                       /\ "name" \notin DOMAIN typed' => form'.values.name # ""
                       /\ "pattern" \notin DOMAIN typed' => form'.values.pattern # ""
  <2>. SUFFICES ASSUME kind = "srr", ~({"name", "pattern"} \subseteq DOMAIN typed')
                PROVE  /\ form' = next
                       /\ "name" \notin DOMAIN typed' => form'.values.name # ""
                       /\ "pattern" \notin DOMAIN typed' => form'.values.pattern # ""
    OBVIOUS
  <2>1. {"name", "pattern"} \subseteq Fields
    BY DEF Fields
  <2>2. \A g \in {"name", "pattern"} : g \notin DOMAIN typed' => next.values[g] # ""
    BY <1>3, <1>6, <1>8, <1>9, <2>1 DEF Forms
  <2>3. form' = next
    BY <1>3, <2>2 DEF Drawn, SrrDrawn
  <2>. QED BY <2>2, <2>3
<1>16. kind \notin {"user", "squad", "srr"} => form' = next
  BY <1>3 DEF Drawn
<1>17. TypingExplained'
  <2>. SUFFICES ASSUME NEW g \in DOMAIN typed',
                       ~(kind = "squad" /\ "name" \in DOMAIN typed'),
                       ~(kind = "srr" /\ {"name", "pattern"} \subseteq DOMAIN typed'),
                       told = {},
                       ~(kind = "xray" /\ g = "service" /\ typed'[g] = "")
                PROVE  form'.values[g] = typed'[g]
    BY <1>3 DEF TypingExplained
  <2>1. form' = next
    BY <1>13, <1>14, <1>15, <1>16
  <2>2. g \in Fields
    BY <1>5, <1>6 DEF Forms
  <2>3. g # f => form.values[g] = typed[g]
    <3>. SUFFICES ASSUME g # f PROVE form.values[g] = typed[g]
      OBVIOUS
    <3>1. g \in DOMAIN typed /\ typed'[g] = typed[g]
      BY <1>6
    <3>. QED BY <1>3, <1>6, <3>1 DEF Forms, TypingExplained
  <2>4. put[g] = typed'[g]
    BY <1>6, <1>7, <2>2, <2>3
  <2>5. next.values[g] = typed'[g]
    BY <1>6, <1>7, <1>8, <1>9, <2>2, <2>4
  <2>. QED BY <2>1, <2>5
<1>18. gen' # None => kind \in {"xray", "amneziawg"} /\ Shaped(gen)'
  BY <1>3, <1>10 DEF Forms, Shaped
<1>19. Shaped(form)'
  BY <1>10, <1>11 DEF Shaped
<1>20. open' \in Rows /\ open' # None
  BY <1>3, <1>4
<1>21. DOMAIN typed' \subseteq Fields \ {"preset"} /\ (kind = "user" => "name" \notin DOMAIN typed')
  BY <1>5, <1>6 DEF Forms
<1>. QED BY <1>3, <1>10, <1>13, <1>14, <1>15, <1>17, <1>18, <1>19, <1>20, <1>21 DEF Forms

(* A preset is typing several fields at once. *)
LEMMA PresetForms ==
  ASSUME TypedInv, ChoosePreset
  PROVE  Forms'
<1>. USE DEF TypedInv
<1>1. PICK p \in {"tspu", "custom"} :
        LET vals == Preset(form.values, p)
            changed == {f \in DOMAIN vals \ {"preset"} : vals[f] # form.values[f]}
        IN /\ form' = [form EXCEPT !.values = vals]
           /\ typed' = Over([f \in changed |-> vals[f]], typed)
  BY DEF ChoosePreset
<1>. DEFINE vals == Preset(form.values, p)
            changed == {f \in DOMAIN vals \ {"preset"} : vals[f] # form.values[f]}
<1>2. /\ form' = [form EXCEPT !.values = vals]
      /\ typed' = Over([f \in changed |-> vals[f]], typed)
      /\ kind = "amneziawg" /\ open # None /\ UNCHANGED <<kind, open, snap, gen, told>>
  BY <1>1 DEF ChoosePreset
<1>3. open \in Rows /\ Shaped(form) /\ kind \in Pages
  BY <1>2 DEF Tables, Forms
<1>4. vals = [f \in Fields |-> vals[f]]
  <2>1. form.values = [f \in Fields |-> form.values[f]]
    BY <1>3 DEF Shaped
  <2>. QED BY <2>1 DEF Preset
<1>. HIDE DEF vals
<1>5. /\ DOMAIN typed' = DOMAIN typed \cup changed
      /\ \A g \in DOMAIN typed' : typed'[g] = IF g \in changed THEN vals[g] ELSE typed[g]
  BY <1>2 DEF Over
<1>6. Fields' = Fields
  BY <1>2 DEF Fields
<1>7. form' = [values |-> vals, of |-> form.of, kept |-> form.kept]
  BY <1>2, <1>3 DEF Shaped
<1>8. Shaped(form)' /\ form'.values = vals
  BY <1>4, <1>6, <1>7 DEF Shaped
<1>9. changed \subseteq Fields \ {"preset"}
  BY <1>4
<1>10. TypingExplained'
  <2>. SUFFICES ASSUME NEW g \in DOMAIN typed', told = {} PROVE vals[g] = typed'[g]
    BY <1>2, <1>8 DEF TypingExplained
  <2>1. CASE g \in changed
    BY <1>5, <2>1
  <2>2. CASE g \notin changed
    <3>1. g \in DOMAIN typed /\ typed'[g] = typed[g]
      BY <1>5, <2>2
    <3>2. g \in Fields \ {"preset"} /\ form.values[g] = typed[g]
      BY <1>2, <3>1 DEF Forms, TypingExplained
    <3>3. vals[g] = form.values[g]
      BY <1>4, <2>2, <3>2
    <3>. QED BY <3>1, <3>2, <3>3
  <2>. QED BY <2>1, <2>2
<1>11. gen' # None => kind \in {"xray", "amneziawg"} /\ Shaped(gen)'
  BY <1>2, <1>6 DEF Forms, Shaped
<1>12. DOMAIN typed' \subseteq Fields \ {"preset"}
  BY <1>5, <1>9 DEF Forms
<1>. QED BY <1>2, <1>3, <1>6, <1>8, <1>10, <1>11, <1>12 DEF Forms

(* Keys that arrive in a form that has moved on are recorded as such. *)
LEMMA KeysForms ==
  ASSUME TypedInv, KeysAnswer
  PROVE  Forms'
<1>. USE DEF TypedInv
<1>1. gen # None /\ gen' = None /\ UNCHANGED <<kind, open, snap>>
      /\ kind \in {"xray", "amneziawg"} /\ Shaped(gen)
  BY DEF KeysAnswer, Forms
<1>2. Fields' = Fields /\ (FillsOnOpen' <=> FillsOnOpen)
  BY <1>1 DEF Fields, FillsOnOpen, IsProfile
<1>3. CASE UNCHANGED <<form, typed, told>>
  <2>1. Shaped(form)' <=> Shaped(form)
    BY <1>2, <1>3 DEF Shaped
  <2>2. TypingExplained'
    BY <1>1, <1>3 DEF Forms, TypingExplained
  <2>. QED BY <1>1, <1>2, <1>3, <2>1, <2>2 DEF Forms
<1>4. CASE /\ open # None /\ form' = [gen EXCEPT !.values.keys = "fresh"]
           /\ typed' = Over([keys |-> "fresh"], typed)
           /\ told' = IF gen # form THEN told \cup {"keys"} ELSE told
  <2>. DEFINE vals == [gen.values EXCEPT !.keys = "fresh"]
  <2>1. "keys" \in Fields
    BY <1>1 DEF Fields
  <2>2. form' = [values |-> vals, of |-> gen.of, kept |-> gen.kept]
    BY <1>1, <1>4 DEF Shaped
  <2>3. vals = [f \in Fields |-> IF f = "keys" THEN "fresh" ELSE gen.values[f]]
    BY <1>1, <2>1 DEF Shaped
  <2>. HIDE DEF vals
  <2>4. Shaped(form)' /\ form'.values = vals
    BY <1>2, <2>2, <2>3 DEF Shaped
  <2>5. /\ DOMAIN typed' = DOMAIN typed \cup {"keys"}
        /\ \A g \in DOMAIN typed' : typed'[g] = IF g = "keys" THEN "fresh" ELSE typed[g]
    BY <1>4 DEF Over
  <2>6. DOMAIN typed' \subseteq Fields \ {"preset"}
    BY <2>1, <2>5 DEF Forms
  <2>7. TypingExplained'
    <3>1. CASE gen # form
      BY <1>4, <3>1 DEF TypingExplained
    <3>2. CASE gen = form
      <4>. SUFFICES ASSUME NEW g \in DOMAIN typed', told = {},
                           ~(kind = "xray" /\ g = "service" /\ typed'[g] = "")
                    PROVE  vals[g] = typed'[g]
        BY <1>1, <1>4, <2>4, <3>2 DEF TypingExplained
      <4>1. g \in Fields
        BY <2>6
      <4>2. g # "keys" => form.values[g] = typed[g]
        BY <1>1, <1>4, <2>5 DEF Forms, TypingExplained
      <4>. QED BY <2>3, <2>5, <3>2, <4>1, <4>2
    <3>. QED BY <3>1, <3>2
  <2>. QED BY <1>1, <1>2, <1>4, <2>4, <2>6, <2>7 DEF Forms
<1>. QED BY <1>3, <1>4 DEF KeysAnswer

(* A list that arrives fills a card, and the history says so if something   *)
(* was typed there.                                                         *)
LEMMA ArriveForms ==
  ASSUME TypedInv, ListArrives
  PROVE  Forms'
<1>. USE DEF TypedInv
<1>1. kind \in Pages /\ UNCHANGED <<kind, gen>>
  BY DEF ListArrives, Tables
<1>2. CASE UNCHANGED <<open, snap, form, typed, told>>
  BY <1>1, <1>2, FormsStay
<1>3. CASE kind = "region" /\ Close(FALSE)
  BY <1>1, <1>3, FormsClose DEF Close
<1>4. CASE /\ open # None /\ Hydrates(form)
           /\ form' = Fill(open, fetch.got[open])
           /\ told' = IF DOMAIN typed # {} THEN told \cup {"hydrated"} ELSE told
           /\ UNCHANGED <<open, typed>>
  <2>1. kind \in Cards
    BY <1>4 DEF Hydrates, Cards
  <2>2. kind \notin {"user", "squad", "srr", "xray", "amneziawg"} /\ ~FillsOnOpen
    BY <2>1 DEF Cards, FillsOnOpen, IsProfile, Protocols
  <2>3. Fields' = Fields
    BY <1>1 DEF Fields
  <2>4. Shaped(form')
    BY <1>1, <1>4, FilledShaped
  <2>5. Shaped(form)'
    BY <2>3, <2>4 DEF Shaped
  <2>6. TypingExplained'
    BY <1>4 DEF TypingExplained
  <2>. QED BY <1>1, <1>4, <2>2, <2>3, <2>5, <2>6 DEF Forms
<1>. QED BY <1>2, <1>3, <1>4 DEF ListArrives

(* Every step, and a stutter. *)
LEMMA TypedSteps ==
  ASSUME TypedInv, [ConsoleNext]_consoleVars
  PROVE  TypedInv'
<1>1. Tables'
  BY TablesSteps
<1>. SUFFICES Forms'
  BY <1>1 DEF TypedInv
<1>2. Forms /\ kind \in Pages
  BY DEF TypedInv, Tables
<1>3. ASSUME kind' = kind, open' = open, snap' = snap, form' = form, gen' = gen,
             typed' = typed, told' = told
      PROVE  Forms'
  BY <1>2, <1>3, FormsStay
<1>4. ASSUME Close(FALSE), kind' = kind, gen' = gen PROVE Forms'
  <2>1. open' = None /\ typed' = Nothing /\ form' = NoForm
    BY <1>4 DEF Close
  <2>. QED BY <1>2, <1>4, <2>1, FormsClose
<1>5. CASE Cancel
  <2>1. /\ open' = None /\ typed' = Nothing /\ kind' = kind /\ gen' = gen
        /\ \/ form' = NoForm
           \/ form' = [form EXCEPT !.kept = TRUE] /\ kind \in {"user", "squad"}
    BY <1>5 DEF Cancel, Close
  <2>. QED BY <1>2, <2>1, FormsClose
<1>6. CASE Leave
  <2>1. Close(FALSE) /\ kind' = kind /\ gen' = gen
    BY <1>6 DEF Leave
  <2>. QED BY <1>4, <2>1
<1>7. ASSUME NEW r \in Rows, Delete(r) PROVE Forms'
  <2>1. kind' = kind /\ gen' = gen /\ (Close(FALSE) \/ UNCHANGED <<open, snap, form, typed, told>>)
    BY <1>7 DEF Delete
  <2>. QED BY <1>3, <1>4, <2>1
<1>8. CASE Finish
  <2>1. kind' = kind /\ gen' = gen /\ (Close(FALSE) \/ UNCHANGED <<open, snap, form, typed, told>>)
    BY <1>8 DEF Finish
  <2>. QED BY <1>3, <1>4, <2>1
<1>9. CASE GenerateKeys
  <2>1. /\ kind \in {"xray", "amneziawg"} /\ open # None /\ gen' = form
        /\ UNCHANGED <<kind, open, snap, form, typed, told>>
    BY <1>9 DEF GenerateKeys
  <2>2. Shaped(form) /\ Fields' = Fields
    BY <1>2, <2>1 DEF Forms, Fields
  <2>3. Shaped(form)' /\ Shaped(gen)'
    BY <2>1, <2>2 DEF Shaped
  <2>4. TypingExplained'
    BY <1>2, <2>1 DEF Forms, TypingExplained
  <2>. QED BY <1>2, <2>1, <2>2, <2>3, <2>4 DEF Forms
<1>10. ASSUME NEW r \in Rows, OpenDialog(r) \/ EnterCard(r) PROVE Forms'
  BY <1>10, OpenForms
<1>11. CASE Type \/ ChoosePreset \/ KeysAnswer \/ ListArrives
  BY <1>11, TypeForms, PresetForms, KeysForms, ArriveForms
<1>12. ASSUME NEW r \in Rows, ToggleHost(r) \/ ChangeElsewhere(r) \/ DeleteElsewhere(r) PROVE Forms'
  BY <1>3, <1>12 DEF ToggleHost, ChangeElsewhere, DeleteElsewhere
<1>13. CASE Submit \/ Land \/ LandDelete \/ LandPartly \/ Lose \/ ReadList \/ FetchFails
  BY <1>3, <1>13 DEF Submit, Land, LandDelete, LandPartly, Lose, ReadList, FetchFails
<1>14. CASE UNCHANGED consoleVars
  BY <1>3, <1>14 DEF consoleVars
<1>. QED BY <1>5, <1>6, <1>7, <1>8, <1>9, <1>10, <1>11, <1>12, <1>13, <1>14 DEF ConsoleNext

(* Nothing typed is lost while its dialog is open, whatever is fetched,     *)
(* changed elsewhere or answered meanwhile, but for the exceptions named    *)
(* (SquadFormModal.tsx:100, SrrFormModal.tsx:67, SettingsPage.tsx:486,      *)
(* ProfileFormModal.tsx:332).                                               *)
THEOREM TypingExplainedHolds == ConsoleSpec => []TypingExplained
<1>1. TypedInv => TypingExplained
  BY DEF TypedInv, Forms
<1>. QED BY <1>1, TypedStarts, TypedSteps, PTL DEF ConsoleSpec

------------------------------------------------------------------------------
(* The console: what a save writes. *)

(* The fields that are no text. *)
Lists == {"squads", "profiles", "ids", "enabled"}

(* The fields of a page's row: those of its form, but for the one choice    *)
(* that is not stored and the two that the form does not show.              *)
RowFields ==
  (Fields \ {"preset"}) \cup (IF kind = "shadowsocks" THEN {"psk"} ELSE {})
                        \cup (IF kind = "host" THEN {"priority"} ELSE {})

(* A row has the fields of its page, and none of its texts is blank: what   *)
(* is blank in a form is stored as null, takes a default or is refused.     *)
Sound(row) ==
  /\ row = [f \in RowFields |-> row[f]]
  /\ \A f \in RowFields \ Lists : row[f] # ""
SoundTable(t) == \A r \in Rows : t[r] = Gone \/ Sound(t[r])

(* What is chosen from a list is never blank. *)
Apt(v) == \A f \in Fields \cap {"status", "layer", "network", "method"} : v[f] # ""

LEMMA FilledApt ==
  ASSUME kind \in Pages, NEW row, Sound(row)
  PROVE  Apt(Filled(row))
<1>0. ASSUME NEW f \in RowFields \ Lists PROVE row[f] # ""
  BY <1>0 DEF Sound
<1>1. CASE kind = "user"
  <2>1. Fields \cap {"status", "layer", "network", "method"} = {"status"}
    BY <1>1 DEF Fields
  <2>2. "status" \in RowFields \ Lists
    BY <1>1 DEF Fields, RowFields, Lists
  <2>3. Filled(row).status = row.status
    BY <1>1 DEF Filled, UserForm, IsProfile, Protocols
  <2>. QED BY <1>0, <2>1, <2>2, <2>3 DEF Apt
<1>2. CASE kind = "host"
  <2>1. Fields \cap {"status", "layer", "network", "method"} = {"layer"}
    BY <1>2 DEF Fields
  <2>2. "layer" \in RowFields \ Lists
    BY <1>2 DEF Fields, RowFields, Lists
  <2>3. Filled(row).layer = row.layer
    BY <1>2 DEF Filled, HostForm, IsProfile, Protocols
  <2>. QED BY <1>0, <2>1, <2>2, <2>3 DEF Apt
<1>3. CASE kind = "xray"
  <2>1. Fields \cap {"status", "layer", "network", "method"} = {"network"}
    BY <1>3 DEF Fields
  <2>2. "network" \in RowFields \ Lists
    BY <1>3 DEF Fields, RowFields, Lists
  <2>3. Filled(row).network = row.network
    BY <1>3 DEF Filled, ProfileForm, ConfigForm, XrayForm, Over, IsProfile, Protocols
  <2>. QED BY <1>0, <2>1, <2>2, <2>3 DEF Apt
<1>4. CASE kind = "shadowsocks"
  <2>1. Fields \cap {"status", "layer", "network", "method"} = {"method"}
    BY <1>4 DEF Fields
  <2>2. "method" \in RowFields \ Lists
    BY <1>4 DEF Fields, RowFields, Lists
  <2>3. Filled(row).method = row.method
    BY <1>4 DEF Filled, ProfileForm, ConfigForm, Over, IsProfile, Protocols
  <2>. QED BY <1>0, <2>1, <2>2, <2>3 DEF Apt
<1>5. CASE kind \notin {"user", "host", "xray", "shadowsocks"}
  BY <1>5 DEF Apt, Fields, Pages, Protocols, Cards
<1>. QED BY <1>1, <1>2, <1>3, <1>4, <1>5

(* What a form stores in a field that it can carry. *)
Stored(f, v) == IF f \in Lists THEN v[f] ELSE OrNull(v[f])

(* A field that is filled from a row and not touched is stored as it was. *)
LEMMA FillStores ==
  ASSUME kind \in Pages, NEW row, NEW old, NEW f \in RowFields \cap Fields,
         Sound(row), old[f] = row[f], ~(kind = "node" /\ f = "port" /\ row.port = Null)
  PROVE  Stored(f, Filled(old)) = row[f]
<1>1. f \notin Lists => row[f] # ""
  BY DEF Sound
<1>2. Null # ""
  BY DEF Null
<1>3. f \notin Lists => OrNull(row[f]) = row[f] /\ OrNull(OrBlank(row[f])) = row[f]
  BY <1>1, <1>2 DEF OrNull, OrBlank
<1>4. SUFFICES IF f \in Lists THEN Filled(old)[f] = row[f]
               ELSE Filled(old)[f] \in {row[f], OrBlank(row[f])}
  BY <1>3 DEF Stored
<1>5. CASE kind = "user"
  BY <1>5 DEF RowFields, Lists, Fields, Filled, UserForm, IsProfile, Protocols
<1>6. CASE kind = "squad"
  BY <1>6 DEF RowFields, Lists, Fields, Filled, SquadForm, IsProfile, Protocols
<1>7. CASE kind = "node"
  <2>1. Filled(old) = NodeForm(old)
    BY <1>7 DEF Filled, IsProfile, Protocols
  <2>2. f \in {"name", "host", "port", "factor", "text"}
    BY <1>7 DEF Fields
  <2>. QED BY <1>7, <2>1, <2>2 DEF NodeForm, SplitAddress, Over, Lists
<1>8. CASE kind = "host"
  BY <1>8 DEF RowFields, Lists, Fields, Filled, HostForm, IsProfile, Protocols
<1>9. CASE kind \in {"region", "srr"} \cup Cards
  BY <1>9 DEF Cards, RowFields, Lists, Fields, Filled, RegionForm, SrrForm, MetaForm, IsProfile,
              Protocols
<1>10. CASE kind \in Protocols
  <2>1. Filled(old) = ProfileForm(old)
    BY <1>10 DEF Filled, IsProfile, Protocols
  <2>2. CASE kind = "hysteria"
    BY <2>1, <2>2 DEF ProfileForm, ConfigForm, HysteriaForm, Over, RowFields, Lists, Fields
  <2>3. CASE kind = "xray"
    BY <2>1, <2>3 DEF ProfileForm, ConfigForm, XrayForm, Over, RowFields, Lists, Fields
  <2>4. CASE kind = "amneziawg"
    BY <2>1, <2>4 DEF ProfileForm, ConfigForm, AwgForm, Over, RowFields, Lists, Fields
  <2>5. CASE kind = "naive"
    BY <2>1, <2>5 DEF ProfileForm, ConfigForm, Over, RowFields, Lists, Fields
  <2>6. CASE kind \in {"shadowsocks", "mtproto", "mieru"}
    BY <2>1, <2>6 DEF ProfileForm, ConfigForm, Over, RowFields, Lists, Fields
  <2>. QED BY <1>10, <2>2, <2>3, <2>4, <2>5, <2>6 DEF Protocols
<1>. QED BY <1>5, <1>6, <1>7, <1>8, <1>9, <1>10 DEF Pages, Cards

(* What the API makes of a form it does not say no to: a row of the page,   *)
(* which holds what the form has in each field that the form can carry.     *)
LEMMA SaveStores ==
  ASSUME kind \in Pages, NEW row, Sound(row), NEW v, v = [x \in Fields |-> v[x]], Apt(v),
         Complete(v), NEW r, ~Refused(r, Input(v))
  PROVE  /\ Sound(Updated(row, Input(v)))
         /\ \A f \in RowFields \cap Fields :
              \/ Updated(row, Input(v))[f] = Stored(f, v)
              \/ Lossy(r, f, v)
              \/ kind = "user" /\ f = "name" /\ Updated(row, Input(v))[f] = row[f]
<1>. DEFINE i == Input(v)
            new == Updated(row, i)
<1>1. row = [f \in RowFields |-> row[f]] /\ \A f \in RowFields \ Lists : row[f] # ""
  BY DEF Sound
<1>2. \A f \in Fields \cap {"status", "layer", "network", "method"} : v[f] # ""
  BY DEF Apt
<1>3. \A x : OrNull(x) # "" /\ (x # "" => OrNull(x) = x)
  BY DEF OrNull, Null
<1>4. SUFFICES /\ new = [f \in RowFields |-> new[f]]
               /\ \A f \in RowFields :
                    /\ f \notin Lists => new[f] # ""
                    /\ f \in Fields =>
                         \/ new[f] = Stored(f, v)
                         \/ Lossy(r, f, v)
                         \/ kind = "user" /\ f = "name" /\ new[f] = row[f]
  BY DEF Sound
<1>5. CASE kind = "user"
  <2>1. RowFields = {"name", "status", "limit", "text", "squads"} /\ Fields = {"name", "status", "limit", "text", "squads"}
    BY <1>5 DEF RowFields, Fields
  <2>2. new = Merge(row, i) /\ i = UserInput(v)
    BY <1>5 DEF Updated, Input, IsProfile, Protocols
  <2>. HIDE DEF i, new
  <2>4. new = [f \in RowFields |-> IF f \in DOMAIN i THEN i[f] ELSE row[f]]
    BY <1>1, <2>2 DEF Merge
  <2>5. /\ new.name = row.name
        /\ new.status = v.status
        /\ new.limit = OrNull(v.limit)
        /\ new.text = OrNull(v.text)
        /\ new.squads = v.squads
    BY <2>1, <2>2, <2>4 DEF UserInput
  <2>7. /\ new.name # ""
        /\ new.status # ""
        /\ new.limit # ""
        /\ new.text # ""
    BY <1>1, <1>2, <1>3, <2>1, <2>2, <2>5 DEF Lists, DefaultPort, UserInput
  <2>8. /\ new.status = Stored("status", v)
        /\ new.limit = Stored("limit", v)
        /\ new.text = Stored("text", v)
        /\ new.squads = Stored("squads", v)
    BY <1>1, <1>3, <2>5, <2>7 DEF Stored, Lists
  <2>9. new = [f \in RowFields |-> new[f]]
    BY <2>4
  <2>10. \A f \in RowFields \ Lists : new[f] # ""
    BY <2>1, <2>7 DEF Lists
  <2>11. ASSUME NEW f \in Fields
         PROVE  new[f] = Stored(f, v) \/ Lossy(r, f, v) \/ (f = "name" /\ new[f] = row[f])
    BY <2>1, <2>8, <2>5
  <2>. QED BY <1>5, <2>9, <2>10, <2>11
<1>6. CASE kind = "squad"
  <2>1. RowFields = {"name", "text", "profiles"} /\ Fields = {"name", "text", "profiles"}
    BY <1>6 DEF RowFields, Fields
  <2>2. new = Merge(row, i) /\ i = SquadInput(v)
    BY <1>6 DEF Updated, Input, IsProfile, Protocols
  <2>3. i.name # ""
    BY <1>6 DEF Refused, SquadRefused, IsProfile, Protocols
  <2>. HIDE DEF i, new
  <2>4. new = [f \in RowFields |-> IF f \in DOMAIN i THEN i[f] ELSE row[f]]
    BY <1>1, <2>2 DEF Merge
  <2>5. /\ new.name = v.name
        /\ new.text = OrNull(v.text)
        /\ new.profiles = v.profiles
    BY <2>1, <2>2, <2>4 DEF SquadInput
  <2>7. /\ new.name # ""
        /\ new.text # ""
    BY <1>1, <1>2, <1>3, <2>1, <2>2, <2>3, <2>5 DEF Lists, DefaultPort, SquadInput
  <2>8. /\ new.name = Stored("name", v)
        /\ new.text = Stored("text", v)
        /\ new.profiles = Stored("profiles", v)
    BY <1>1, <1>3, <2>5, <2>7 DEF Stored, Lists
  <2>9. new = [f \in RowFields |-> new[f]]
    BY <2>4
  <2>10. \A f \in RowFields \ Lists : new[f] # ""
    BY <2>1, <2>7 DEF Lists
  <2>11. ASSUME NEW f \in Fields
         PROVE  new[f] = Stored(f, v) \/ Lossy(r, f, v)
    BY <2>1, <2>8
  <2>. QED BY <1>6, <2>9, <2>10, <2>11
<1>7. CASE kind = "node"
  <2>1. RowFields = {"name", "host", "port", "factor", "text"} /\ Fields = {"name", "host", "port", "factor", "text"}
    BY <1>7 DEF RowFields, Fields
  <2>2. new = Merge(row, i) /\ i = NodeInput(v)
    BY <1>7 DEF Updated, Input, IsProfile, Protocols
  <2>3. i.name # "" /\ i.host # ""
    BY <1>7 DEF Refused, NodeRefused, IsProfile, Protocols
  <2>. HIDE DEF i, new
  <2>4. new = [f \in RowFields |-> IF f \in DOMAIN i THEN i[f] ELSE row[f]]
    BY <1>1, <2>2 DEF Merge
  <2>5. /\ new.name = v.name
        /\ new.host = v.host
        /\ new.port = (IF v.port = "" THEN DefaultPort ELSE v.port)
        /\ new.factor = (IF v.factor = "" THEN "1" ELSE v.factor)
        /\ new.text = OrNull(v.text)
    BY <2>1, <2>2, <2>4 DEF NodeInput
  <2>6. /\ v.port = "" => Lossy(r, "port", v)
        /\ v.factor = "" => Lossy(r, "factor", v)
    BY <1>7 DEF Lossy
  <2>7. /\ new.name # ""
        /\ new.host # ""
        /\ new.port # ""
        /\ new.factor # ""
        /\ new.text # ""
    BY <1>1, <1>2, <1>3, <2>1, <2>2, <2>3, <2>5 DEF Lists, DefaultPort, NodeInput
  <2>8. /\ new.name = Stored("name", v)
        /\ new.host = Stored("host", v)
        /\ new.port = Stored("port", v) \/ Lossy(r, "port", v)
        /\ new.factor = Stored("factor", v) \/ Lossy(r, "factor", v)
        /\ new.text = Stored("text", v)
    BY <1>1, <1>3, <2>5, <2>6, <2>7 DEF Stored, Lists
  <2>9. new = [f \in RowFields |-> new[f]]
    BY <2>4
  <2>10. \A f \in RowFields \ Lists : new[f] # ""
    BY <2>1, <2>7 DEF Lists
  <2>11. ASSUME NEW f \in Fields
         PROVE  new[f] = Stored(f, v) \/ Lossy(r, f, v)
    BY <2>1, <2>8
  <2>. QED BY <1>7, <2>9, <2>10, <2>11
<1>8. CASE kind = "region"
  <2>1. RowFields = {"name", "code"} /\ Fields = {"name", "code"}
    BY <1>8 DEF RowFields, Fields
  <2>2. new = Merge(row, i) /\ i = v
    BY <1>8 DEF Updated, Input, IsProfile, Protocols
  <2>3. i.name # "" /\ i.code # ""
    BY <1>8 DEF Refused, RegionRefused, IsProfile, Protocols
  <2>. HIDE DEF i, new
  <2>4. new = [f \in RowFields |-> IF f \in DOMAIN i THEN i[f] ELSE row[f]]
    BY <1>1, <2>2 DEF Merge
  <2>5. /\ new.name = v.name
        /\ new.code = v.code
    BY <2>1, <2>2, <2>4
  <2>7. /\ new.name # ""
        /\ new.code # ""
    BY <1>1, <1>2, <1>3, <2>1, <2>2, <2>3, <2>5 DEF Lists, DefaultPort
  <2>8. /\ new.name = Stored("name", v)
        /\ new.code = Stored("code", v)
    BY <1>1, <1>3, <2>5, <2>7 DEF Stored, Lists
  <2>9. new = [f \in RowFields |-> new[f]]
    BY <2>4
  <2>10. \A f \in RowFields \ Lists : new[f] # ""
    BY <2>1, <2>7 DEF Lists
  <2>11. ASSUME NEW f \in Fields
         PROVE  new[f] = Stored(f, v) \/ Lossy(r, f, v)
    BY <2>1, <2>8
  <2>. QED BY <1>8, <2>9, <2>10, <2>11
<1>9. CASE kind = "srr"
  <2>1. RowFields = {"name", "pattern", "priority"} /\ Fields = {"name", "pattern", "priority"}
    BY <1>9 DEF RowFields, Fields
  <2>2. new = Merge(row, i) /\ i = SrrInput(v)
    BY <1>9 DEF Updated, Input, IsProfile, Protocols
  <2>3. i.name # "" /\ i.pattern # ""
    BY <1>9 DEF Refused, SrrRefused, IsProfile, Protocols
  <2>. HIDE DEF i, new
  <2>4. new = [f \in RowFields |-> IF f \in DOMAIN i THEN i[f] ELSE row[f]]
    BY <1>1, <2>2 DEF Merge
  <2>5. /\ new.name = v.name
        /\ new.pattern = v.pattern
        /\ new.priority = (IF v.priority = "" THEN row.priority ELSE v.priority)
    BY <2>1, <2>2, <2>4 DEF SrrInput, Given, Over
  <2>6. /\ v.priority = "" => Lossy(r, "priority", v)
    BY <1>9 DEF Lossy
  <2>7. /\ new.name # ""
        /\ new.pattern # ""
        /\ new.priority # ""
    BY <1>1, <1>2, <1>3, <2>1, <2>2, <2>3, <2>5 DEF Lists, DefaultPort, SrrInput, Given, Over
  <2>8. /\ new.name = Stored("name", v)
        /\ new.pattern = Stored("pattern", v)
        /\ new.priority = Stored("priority", v) \/ Lossy(r, "priority", v)
    BY <1>1, <1>3, <2>5, <2>6, <2>7 DEF Stored, Lists
  <2>9. new = [f \in RowFields |-> new[f]]
    BY <2>4
  <2>10. \A f \in RowFields \ Lists : new[f] # ""
    BY <2>1, <2>7 DEF Lists
  <2>11. ASSUME NEW f \in Fields
         PROVE  new[f] = Stored(f, v) \/ Lossy(r, f, v)
    BY <2>1, <2>8
  <2>. QED BY <1>9, <2>9, <2>10, <2>11
<1>10. CASE kind = "brand"
  <2>1. RowFields = {"name"} /\ Fields = {"name"}
    BY <1>10 DEF RowFields, Fields
  <2>2. new = Merge(row, i) /\ i = BrandInput(v)
    BY <1>10 DEF Updated, Input, IsProfile, Protocols
  <2>. HIDE DEF i, new
  <2>4. new = [f \in RowFields |-> IF f \in DOMAIN i THEN i[f] ELSE row[f]]
    BY <1>1, <2>2 DEF Merge
  <2>5. /\ new.name = (IF v.name = "" THEN "Ice-Panel" ELSE v.name)
    BY <2>1, <2>2, <2>4 DEF BrandInput
  <2>6. /\ v.name = "" => Lossy(r, "name", v)
    BY <1>10 DEF Lossy
  <2>7. /\ new.name # ""
    BY <1>1, <1>2, <1>3, <2>1, <2>2, <2>5 DEF Lists, DefaultPort, BrandInput
  <2>8. /\ new.name = Stored("name", v) \/ Lossy(r, "name", v)
    BY <1>1, <1>3, <2>5, <2>6, <2>7 DEF Stored, Lists
  <2>9. new = [f \in RowFields |-> new[f]]
    BY <2>4
  <2>10. \A f \in RowFields \ Lists : new[f] # ""
    BY <2>1, <2>7 DEF Lists
  <2>11. ASSUME NEW f \in Fields
         PROVE  new[f] = Stored(f, v) \/ Lossy(r, f, v)
    BY <2>1, <2>8
  <2>. QED BY <1>10, <2>9, <2>10, <2>11
<1>11. CASE kind = "meta"
  <2>1. RowFields = {"name", "hours"} /\ Fields = {"name", "hours"}
    BY <1>11 DEF RowFields, Fields
  <2>2. new = Merge(row, i) /\ i = MetaInput(v)
    BY <1>11 DEF Updated, Input, IsProfile, Protocols
  <2>. HIDE DEF i, new
  <2>4. new = [f \in RowFields |-> IF f \in DOMAIN i THEN i[f] ELSE row[f]]
    BY <1>1, <2>2 DEF Merge
  <2>5. /\ new.name = OrNull(v.name)
        /\ new.hours = (IF v.hours = "" THEN "24" ELSE v.hours)
    BY <2>1, <2>2, <2>4 DEF MetaInput
  <2>6. /\ v.hours = "" => Lossy(r, "hours", v)
    BY <1>11 DEF Lossy
  <2>7. /\ new.name # ""
        /\ new.hours # ""
    BY <1>1, <1>2, <1>3, <2>1, <2>2, <2>5 DEF Lists, DefaultPort, MetaInput
  <2>8. /\ new.name = Stored("name", v)
        /\ new.hours = Stored("hours", v) \/ Lossy(r, "hours", v)
    BY <1>1, <1>3, <2>5, <2>6, <2>7 DEF Stored, Lists
  <2>9. new = [f \in RowFields |-> new[f]]
    BY <2>4
  <2>10. \A f \in RowFields \ Lists : new[f] # ""
    BY <2>1, <2>7 DEF Lists
  <2>11. ASSUME NEW f \in Fields
         PROVE  new[f] = Stored(f, v) \/ Lossy(r, f, v)
    BY <2>1, <2>8
  <2>. QED BY <1>11, <2>9, <2>10, <2>11
<1>12. CASE kind = "host"
  <2>1. /\ RowFields = {"name", "enabled", "text", "layer", "priority"}
        /\ Fields = {"name", "enabled", "text", "layer"}
    BY <1>12 DEF RowFields, Fields
  <2>2. new = HostUpdate(row, i) /\ i = HostInput(v)
    BY <1>12 DEF Updated, Input, IsProfile, Protocols
  <2>3. v.name # ""
    BY <1>12 DEF Complete, IsProfile, Protocols
  <2>. HIDE DEF i, new
  <2>4. new = [f \in RowFields |-> IF f \in DOMAIN Over(i, HostDefaults) THEN Over(i, HostDefaults)[f] ELSE row[f]]
    BY <1>1, <2>2 DEF HostUpdate, Merge
  <2>5. /\ new.name = v.name
        /\ new.enabled = v.enabled
        /\ new.text = OrNull(v.text)
        /\ new.layer = v.layer
        /\ new.priority = "0"
    BY <1>12, <2>1, <2>2, <2>4 DEF HostInput, HostDefaults, Over
  <2>7. /\ new.name # ""
        /\ new.text # ""
        /\ new.layer # ""
        /\ new.priority # ""
    BY <1>1, <1>2, <1>3, <2>1, <2>3, <2>5 DEF Null
  <2>8. /\ new.name = Stored("name", v)
        /\ new.enabled = Stored("enabled", v)
        /\ new.text = Stored("text", v)
        /\ new.layer = Stored("layer", v)
    BY <1>1, <1>3, <2>3, <2>5, <2>7 DEF Stored, Lists
  <2>9. new = [f \in RowFields |-> new[f]]
    BY <2>4
  <2>10. \A f \in RowFields \ Lists : new[f] # ""
    BY <2>1, <2>7 DEF Lists
  <2>11. ASSUME NEW f \in RowFields \cap Fields
         PROVE  new[f] = Stored(f, v) \/ Lossy(r, f, v)
    BY <2>1, <2>8
  <2>. QED BY <1>12, <2>9, <2>10, <2>11
<1>13. CASE kind = "hysteria"
  <2>1. /\ RowFields = {"name", "text", "obfs", "hopStart", "hopEnd"}
        /\ Fields = {"name", "text", "obfs", "hopStart", "hopEnd"}
    BY <1>13 DEF RowFields, Fields
  <2>2. new = ProfileUpdate(row, i) /\ i = ProfileInput(v)
    BY <1>13 DEF Updated, Input, IsProfile, Protocols
  <2>3. v.name # ""
    BY <1>13 DEF Complete, IsProfile, Protocols
  <2>. HIDE DEF i, new
  <2>4. new = [f \in RowFields |-> IF f \in DOMAIN i THEN i[f] ELSE Null]
    BY <1>1, <2>2 DEF ProfileUpdate
  <2>5. /\ new.name = v.name
        /\ new.text = OrNull(v.text)
        /\ new.obfs = OrNull(v.obfs)
        /\ new.hopStart = (IF "" \in {v.hopStart, v.hopEnd} THEN Null ELSE v.hopStart)
        /\ new.hopEnd = (IF "" \in {v.hopStart, v.hopEnd} THEN Null ELSE v.hopEnd)
    BY <1>13, <2>1, <2>2, <2>4 DEF ProfileInput, ConfigInput, Over, Given, OrNull, HysteriaInput
  <2>6. /\ "" \in {v.hopStart, v.hopEnd} => Lossy(r, "hopStart", v)
        /\ "" \in {v.hopStart, v.hopEnd} => Lossy(r, "hopEnd", v)
    BY <1>13 DEF Lossy
  <2>7. /\ new.name # ""
        /\ new.text # ""
        /\ new.obfs # ""
        /\ new.hopStart # ""
        /\ new.hopEnd # ""
    BY <1>1, <1>2, <1>3, <2>1, <2>3, <2>5 DEF Null
  <2>8. /\ new.name = Stored("name", v)
        /\ new.text = Stored("text", v)
        /\ new.obfs = Stored("obfs", v)
        /\ new.hopStart = Stored("hopStart", v) \/ Lossy(r, "hopStart", v)
        /\ new.hopEnd = Stored("hopEnd", v) \/ Lossy(r, "hopEnd", v)
    BY <1>1, <1>3, <2>3, <2>5, <2>6, <2>7 DEF Stored, Lists
  <2>9. new = [f \in RowFields |-> new[f]]
    BY <2>4
  <2>10. \A f \in RowFields \ Lists : new[f] # ""
    BY <2>1, <2>7 DEF Lists
  <2>11. ASSUME NEW f \in RowFields \cap Fields
         PROVE  new[f] = Stored(f, v) \/ Lossy(r, f, v)
    BY <2>1, <2>8
  <2>. QED BY <1>13, <2>9, <2>10, <2>11
<1>14. CASE kind = "xray"
  <2>1. /\ RowFields = {"name", "text", "ids", "keys", "network", "service"}
        /\ Fields = {"name", "text", "ids", "keys", "network", "service"}
    BY <1>14 DEF RowFields, Fields
  <2>2. new = ProfileUpdate(row, i) /\ i = ProfileInput(v)
    BY <1>14 DEF Updated, Input, IsProfile, Protocols
  <2>3. v.name # "" /\ v.keys # ""
    BY <1>14 DEF Complete, IsProfile, Protocols
  <2>. HIDE DEF i, new
  <2>4. new = [f \in RowFields |-> IF f \in DOMAIN i THEN i[f] ELSE Null]
    BY <1>1, <2>2 DEF ProfileUpdate
  <2>5. /\ new.name = v.name
        /\ new.text = OrNull(v.text)
        /\ new.ids = v.ids
        /\ new.keys = v.keys
        /\ new.network = v.network
        /\ new.service = OrNull(v.service)
    BY <1>14, <2>1, <2>2, <2>4 DEF ProfileInput, ConfigInput, Over, Given, OrNull, XrayInput
  <2>7. /\ new.name # ""
        /\ new.text # ""
        /\ new.keys # ""
        /\ new.network # ""
        /\ new.service # ""
    BY <1>1, <1>2, <1>3, <2>1, <2>3, <2>5 DEF Null
  <2>8. /\ new.name = Stored("name", v)
        /\ new.text = Stored("text", v)
        /\ new.ids = Stored("ids", v)
        /\ new.keys = Stored("keys", v)
        /\ new.network = Stored("network", v)
        /\ new.service = Stored("service", v)
    BY <1>1, <1>3, <2>3, <2>5, <2>7 DEF Stored, Lists
  <2>9. new = [f \in RowFields |-> new[f]]
    BY <2>4
  <2>10. \A f \in RowFields \ Lists : new[f] # ""
    BY <2>1, <2>7 DEF Lists
  <2>11. ASSUME NEW f \in RowFields \cap Fields
         PROVE  new[f] = Stored(f, v) \/ Lossy(r, f, v)
    BY <2>1, <2>8
  <2>. QED BY <1>14, <2>9, <2>10, <2>11
<1>15. CASE kind = "amneziawg"
  <2>1. /\ RowFields = {"name", "text", "keys", "s3", "h1", "h2"}
        /\ Fields = {"name", "text", "keys", "s3", "h1", "h2", "preset"}
    BY <1>15 DEF RowFields, Fields
  <2>2. new = ProfileUpdate(row, i) /\ i = ProfileInput(v)
    BY <1>15 DEF Updated, Input, IsProfile, Protocols
  <2>3. v.name # "" /\ v.keys # "" /\ "0" \notin {i.h1, i.h2}
    BY <1>15 DEF Complete, Refused, ProfileRefused, ConfigRefused, IsProfile, Protocols
  <2>. HIDE DEF i, new
  <2>4. new = [f \in RowFields |-> IF f \in DOMAIN i THEN i[f] ELSE Null]
    BY <1>1, <2>2 DEF ProfileUpdate
  <2>5. /\ new.name = v.name
        /\ new.text = OrNull(v.text)
        /\ new.keys = v.keys
        /\ new.s3 = (IF v.s3 = "" THEN "32" ELSE v.s3)
        /\ new.h1 = (IF v.h1 = "" THEN "0" ELSE v.h1)
        /\ new.h2 = (IF v.h2 = "" THEN "0" ELSE v.h2)
    BY <1>15, <2>1, <2>2, <2>4 DEF ProfileInput, ConfigInput, Over, Given, OrNull, AwgInput
  <2>6. /\ v.s3 = "" => Lossy(r, "s3", v)
    BY <1>15 DEF Lossy
  <2>12. i.h1 = (IF v.h1 = "" THEN "0" ELSE v.h1) /\ i.h2 = (IF v.h2 = "" THEN "0" ELSE v.h2)
    BY <1>15, <2>2 DEF ProfileInput, ConfigInput, Over, AwgInput
  <2>7. /\ new.name # ""
        /\ new.text # ""
        /\ new.keys # ""
        /\ new.s3 # ""
        /\ new.h1 # ""
        /\ new.h2 # ""
    BY <1>1, <1>2, <1>3, <2>1, <2>3, <2>5, <2>12 DEF Null
  <2>8. /\ new.name = Stored("name", v)
        /\ new.text = Stored("text", v)
        /\ new.keys = Stored("keys", v)
        /\ new.s3 = Stored("s3", v) \/ Lossy(r, "s3", v)
        /\ new.h1 = Stored("h1", v)
        /\ new.h2 = Stored("h2", v)
    BY <1>1, <1>3, <2>3, <2>5, <2>6, <2>7, <2>12 DEF Stored, Lists
  <2>9. new = [f \in RowFields |-> new[f]]
    BY <2>4
  <2>10. \A f \in RowFields \ Lists : new[f] # ""
    BY <2>1, <2>7 DEF Lists
  <2>11. ASSUME NEW f \in RowFields \cap Fields
         PROVE  new[f] = Stored(f, v) \/ Lossy(r, f, v)
    BY <2>1, <2>8
  <2>. QED BY <1>15, <2>9, <2>10, <2>11
<1>16. CASE kind = "naive"
  <2>1. /\ RowFields = {"name", "text", "host", "root"}
        /\ Fields = {"name", "text", "host", "root"}
    BY <1>16 DEF RowFields, Fields
  <2>2. new = ProfileUpdate(row, i) /\ i = ProfileInput(v)
    BY <1>16 DEF Updated, Input, IsProfile, Protocols
  <2>3. v.name # "" /\ v.host # "" /\ i.root # ""
    BY <1>16 DEF Complete, Refused, ProfileRefused, ConfigRefused, IsProfile, Protocols
  <2>. HIDE DEF i, new
  <2>4. new = [f \in RowFields |-> IF f \in DOMAIN i THEN i[f] ELSE Null]
    BY <1>1, <2>2 DEF ProfileUpdate
  <2>5. /\ new.name = v.name
        /\ new.text = OrNull(v.text)
        /\ new.host = v.host
        /\ new.root = v.root
    BY <1>16, <2>1, <2>2, <2>4 DEF ProfileInput, ConfigInput, Over, Given, OrNull
  <2>12. i.root = v.root
    BY <1>16, <2>2 DEF ProfileInput, ConfigInput, Over
  <2>7. /\ new.name # ""
        /\ new.text # ""
        /\ new.host # ""
        /\ new.root # ""
    BY <1>1, <1>2, <1>3, <2>1, <2>3, <2>5, <2>12 DEF Null
  <2>8. /\ new.name = Stored("name", v)
        /\ new.text = Stored("text", v)
        /\ new.host = Stored("host", v)
        /\ new.root = Stored("root", v)
    BY <1>1, <1>3, <2>3, <2>5, <2>7, <2>12 DEF Stored, Lists
  <2>9. new = [f \in RowFields |-> new[f]]
    BY <2>4
  <2>10. \A f \in RowFields \ Lists : new[f] # ""
    BY <2>1, <2>7 DEF Lists
  <2>11. ASSUME NEW f \in RowFields \cap Fields
         PROVE  new[f] = Stored(f, v) \/ Lossy(r, f, v)
    BY <2>1, <2>8
  <2>. QED BY <1>16, <2>9, <2>10, <2>11
<1>17. CASE kind = "shadowsocks"
  <2>1. /\ RowFields = {"name", "text", "method", "psk"}
        /\ Fields = {"name", "text", "method"}
    BY <1>17 DEF RowFields, Fields
  <2>2. new = ProfileUpdate(row, i) /\ i = ProfileInput(v)
    BY <1>17 DEF Updated, Input, IsProfile, Protocols
  <2>3. v.name # ""
    BY <1>17 DEF Complete, IsProfile, Protocols
  <2>. HIDE DEF i, new
  <2>4. new = [f \in RowFields |-> IF f \in DOMAIN i THEN i[f] ELSE Null]
    BY <1>1, <2>2 DEF ProfileUpdate
  <2>5. /\ new.name = v.name
        /\ new.text = OrNull(v.text)
        /\ new.method = v.method
        /\ new.psk = Null
    BY <1>17, <2>1, <2>2, <2>4 DEF ProfileInput, ConfigInput, Over, Given, OrNull
  <2>7. /\ new.name # ""
        /\ new.text # ""
        /\ new.method # ""
        /\ new.psk # ""
    BY <1>1, <1>2, <1>3, <2>1, <2>3, <2>5 DEF Null
  <2>8. /\ new.name = Stored("name", v)
        /\ new.text = Stored("text", v)
        /\ new.method = Stored("method", v)
    BY <1>1, <1>3, <2>3, <2>5, <2>7 DEF Stored, Lists
  <2>9. new = [f \in RowFields |-> new[f]]
    BY <2>4
  <2>10. \A f \in RowFields \ Lists : new[f] # ""
    BY <2>1, <2>7 DEF Lists
  <2>11. ASSUME NEW f \in RowFields \cap Fields
         PROVE  new[f] = Stored(f, v) \/ Lossy(r, f, v)
    BY <2>1, <2>8
  <2>. QED BY <1>17, <2>9, <2>10, <2>11
<1>18. CASE kind = "mtproto"
  <2>1. /\ RowFields = {"name", "text", "domain"}
        /\ Fields = {"name", "text", "domain"}
    BY <1>18 DEF RowFields, Fields
  <2>2. new = ProfileUpdate(row, i) /\ i = ProfileInput(v)
    BY <1>18 DEF Updated, Input, IsProfile, Protocols
  <2>3. v.name # "" /\ v.domain # ""
    BY <1>18 DEF Complete, IsProfile, Protocols
  <2>. HIDE DEF i, new
  <2>4. new = [f \in RowFields |-> IF f \in DOMAIN i THEN i[f] ELSE Null]
    BY <1>1, <2>2 DEF ProfileUpdate
  <2>5. /\ new.name = v.name
        /\ new.text = OrNull(v.text)
        /\ new.domain = v.domain
    BY <1>18, <2>1, <2>2, <2>4 DEF ProfileInput, ConfigInput, Over, Given, OrNull
  <2>7. /\ new.name # ""
        /\ new.text # ""
        /\ new.domain # ""
    BY <1>1, <1>2, <1>3, <2>1, <2>3, <2>5 DEF Null
  <2>8. /\ new.name = Stored("name", v)
        /\ new.text = Stored("text", v)
        /\ new.domain = Stored("domain", v)
    BY <1>1, <1>3, <2>3, <2>5, <2>7 DEF Stored, Lists
  <2>9. new = [f \in RowFields |-> new[f]]
    BY <2>4
  <2>10. \A f \in RowFields \ Lists : new[f] # ""
    BY <2>1, <2>7 DEF Lists
  <2>11. ASSUME NEW f \in RowFields \cap Fields
         PROVE  new[f] = Stored(f, v) \/ Lossy(r, f, v)
    BY <2>1, <2>8
  <2>. QED BY <1>18, <2>9, <2>10, <2>11
<1>19. CASE kind = "mieru"
  <2>1. /\ RowFields = {"name", "text", "mtu"}
        /\ Fields = {"name", "text", "mtu"}
    BY <1>19 DEF RowFields, Fields
  <2>2. new = ProfileUpdate(row, i) /\ i = ProfileInput(v)
    BY <1>19 DEF Updated, Input, IsProfile, Protocols
  <2>3. v.name # ""
    BY <1>19 DEF Complete, IsProfile, Protocols
  <2>. HIDE DEF i, new
  <2>4. new = [f \in RowFields |-> IF f \in DOMAIN i THEN i[f] ELSE Null]
    BY <1>1, <2>2 DEF ProfileUpdate
  <2>5. /\ new.name = v.name
        /\ new.text = OrNull(v.text)
        /\ new.mtu = (IF v.mtu = "" THEN "1400" ELSE v.mtu)
    BY <1>19, <2>1, <2>2, <2>4 DEF ProfileInput, ConfigInput, Over, Given, OrNull, MieruInput
  <2>6. /\ v.mtu = "" => Lossy(r, "mtu", v)
    BY <1>19 DEF Lossy
  <2>7. /\ new.name # ""
        /\ new.text # ""
        /\ new.mtu # ""
    BY <1>1, <1>2, <1>3, <2>1, <2>3, <2>5 DEF Null
  <2>8. /\ new.name = Stored("name", v)
        /\ new.text = Stored("text", v)
        /\ new.mtu = Stored("mtu", v) \/ Lossy(r, "mtu", v)
    BY <1>1, <1>3, <2>3, <2>5, <2>6, <2>7 DEF Stored, Lists
  <2>9. new = [f \in RowFields |-> new[f]]
    BY <2>4
  <2>10. \A f \in RowFields \ Lists : new[f] # ""
    BY <2>1, <2>7 DEF Lists
  <2>11. ASSUME NEW f \in RowFields \cap Fields
         PROVE  new[f] = Stored(f, v) \/ Lossy(r, f, v)
    BY <2>1, <2>8
  <2>. QED BY <1>19, <2>9, <2>10, <2>11
<1>. QED BY <1>5, <1>6, <1>7, <1>8, <1>9, <1>10, <1>11, <1>12, <1>13, <1>14, <1>15, <1>16, <1>17,
        <1>18, <1>19 DEF Pages, Cards, Protocols

(* The rows of the page, of its list and of a list that was read are sound, *)
(* and a card is of a row that is there.                                    *)
SoundTables ==
  /\ SoundTable(rows)
  /\ cache # Unknown => SoundTable(cache)
  /\ fetch.at = "read" => SoundTable(fetch.got)
  /\ IsCard /\ open # None => Sound(rows[open])
  /\ IsCard /\ Sent => Sound(rows[flight.row])

(* A field nobody touched in a dialog is as the dialog's object has it, but *)
(* for the service that comes with a transport.  A form that a cancelled    *)
(* dialog left, one that was never filled and one that a key generation     *)
(* overwrote are of another object.                                         *)
Faithful(fm, object, touched, happened) ==
  ~fm.kept /\ fm.of # None /\ "keys" \notin happened =>
    \A f \in Fields \ ({"preset"} \cup DOMAIN touched) :
      \/ fm.values[f] = Filled(object)[f]
      \/ kind = "xray" /\ f = "service" /\ fm.values[f] = "GunService"

(* A dialog that is closed left its form blank or, where Cancel keeps it,   *)
(* with what was typed; one that is open shows an object.                   *)
Dialogs ==
  /\ form.of \in Rows \cup {None}
  /\ open = None => snap = None /\ (form = NoForm \/ (form.kept /\ form.of # None))
  /\ open # None /\ ~IsCard => snap # None /\ form.of # None
  /\ open # None => Faithful(form, snap, typed, told)
  /\ open # None \/ ~FillsOnOpen => Apt(form.values)
  /\ gen # None => Apt(gen.values) /\ gen.of \in Rows

(* What is sent is made of a form that is complete. *)
Sends ==
  Sent =>
    /\ flight.what = "save" =>
         /\ Shaped(flight.form) /\ Apt(flight.form.values) /\ Complete(flight.form.values)
         /\ flight.input = Input(flight.form.values)
         /\ Faithful(flight.form, flight.snap, flight.typed, flight.told)
         /\ DOMAIN flight.typed \subseteq Fields \ {"preset"}
         /\ kind = "user" => "name" \notin DOMAIN flight.typed
    /\ flight.what = "toggle" => flight.input = [enabled |-> flight.input.enabled]
    /\ IsCard => flight.what = "save"

SavedInv == SoundTables /\ Dialogs /\ Sends

(* What a switch sends leaves a row of the page. *)
LEMMA ToggleSound ==
  ASSUME kind = "host", NEW row, Sound(row), NEW b
  PROVE  Sound(Updated(row, [enabled |-> b]))
<1>. DEFINE i == Over([enabled |-> b], HostDefaults)
            new == Updated(row, [enabled |-> b])
<1>1. RowFields = {"name", "enabled", "text", "layer", "priority"}
  BY DEF RowFields, Fields
<1>2. row = [f \in RowFields |-> row[f]] /\ row.text # ""
  BY <1>1 DEF Sound, Lists
<1>3. new = Merge(row, i)
  BY DEF Updated, HostUpdate, IsProfile, Protocols
<1>4. /\ DOMAIN i = {"name", "priority", "enabled", "layer"}
      /\ i.name = "Default" /\ i.priority = "0" /\ i.layer = "default"
  BY DEF Over, HostDefaults
<1>. HIDE DEF i, new
<1>5. new = [f \in RowFields |-> IF f \in DOMAIN i THEN i[f] ELSE row[f]]
  BY <1>2, <1>3 DEF Merge
<1>6. new.name = "Default" /\ new.priority = "0" /\ new.layer = "default" /\ new.text = row.text
  BY <1>1, <1>4, <1>5
<1>7. \A f \in RowFields \ Lists : new[f] # ""
  BY <1>1, <1>2, <1>6 DEF Lists
<1>8. Sound(new)
  BY <1>5, <1>7 DEF Sound
<1>. QED BY <1>8 DEF new

(* A text that is written into a field leaves a row of the page. *)
LEMMA FieldSound ==
  ASSUME NEW row, Sound(row), NEW f \in DOMAIN row, NEW x, x # ""
  PROVE  Sound([row EXCEPT ![f] = x])
BY DEF Sound

(* A row stays as it is, is deleted, or is a row of the page again. *)
LEMMA RowSteps ==
  ASSUME TypedInv, SavedInv, [ConsoleNext]_consoleVars, NEW r \in Rows
  PROVE  \/ rows'[r] = rows[r]
         \/ rows'[r] = Gone /\ ~IsCard
         \/ Sound(rows'[r])
<1>. USE DEF TypedInv, SavedInv
<1>1. ASSUME NEW q \in Rows, NEW row, rows' = [rows EXCEPT ![q] = row],
             (row = Gone /\ ~IsCard) \/ Sound(row)
      PROVE  \/ rows'[r] = rows[r] \/ (rows'[r] = Gone /\ ~IsCard) \/ Sound(rows'[r])
  <2>1. rows'[r] = IF r = q THEN row ELSE rows[r]
    BY <1>1 DEF Tables
  <2>. QED BY <1>1, <2>1
<1>2. CASE rows' = rows
  BY <1>2
<1>3. CASE Land
  <2>. DEFINE row == Updated(rows[flight.row], flight.input)
  <2>1. CASE rows' = rows
    BY <2>1
  <2>2. CASE rows' # rows
    <3>1. /\ Sent /\ flight.row \in Rows /\ rows[flight.row] # Gone
          /\ rows' = [rows EXCEPT ![flight.row] = row]
          /\ ~(flight.what = "save" /\ Refused(flight.row, flight.input))
          /\ flight.what \in {"save", "toggle"} /\ kind \in Pages
      BY <1>3, <2>2 DEF Land, Sent, Tables
    <3>2. Sound(rows[flight.row])
      BY <3>1 DEF SoundTables, SoundTable
    <3>3. CASE flight.what = "save"
      <4>1. /\ flight.input = Input(flight.form.values) /\ Apt(flight.form.values)
            /\ Complete(flight.form.values) /\ Shaped(flight.form)
        BY <3>1, <3>3 DEF Sends
      <4>2. flight.form.values = [x \in Fields |-> flight.form.values[x]]
        BY <4>1 DEF Shaped
      <4>3. Sound(row)
        BY <3>1, <3>2, <3>3, <4>1, <4>2, SaveStores
      <4>. HIDE DEF row
      <4>. QED BY <1>1, <3>1, <4>3
    <3>4. CASE flight.what = "toggle"
      <4>1. kind = "host" /\ flight.input = [enabled |-> flight.input.enabled]
        BY <3>1, <3>4 DEF Sends, Tables, Sent
      <4>2. Sound(row)
        BY <3>2, <4>1, ToggleSound
      <4>. HIDE DEF row
      <4>. QED BY <1>1, <3>1, <4>2
    <3>. QED BY <3>1, <3>3, <3>4
  <2>. QED BY <2>1, <2>2
<1>4. CASE LandDelete
  <2>1. CASE rows' = rows
    BY <2>1
  <2>2. CASE rows' # rows
    <3>1. Sent /\ flight.what = "delete" /\ rows' = [rows EXCEPT ![flight.row] = Gone]
      BY <1>4, <2>2 DEF LandDelete
    <3>2. flight.row \in Rows /\ ~IsCard
      BY <3>1 DEF Sends, Tables, Sent
    <3>. QED BY <1>1, <3>1, <3>2
  <2>. QED BY <2>1, <2>2
<1>5. CASE LandPartly
  <2>. DEFINE row == [rows[flight.row] EXCEPT !.name = flight.input.name]
  <2>1. Sent /\ kind = "meta" /\ rows' = [rows EXCEPT ![flight.row] = row]
    BY <1>5 DEF LandPartly
  <2>2. flight.row \in Rows /\ IsCard /\ flight.what = "save"
    <3>1. flight.row \in Rows
      BY <2>1 DEF Tables, Sent
    <3>2. IsCard
      BY <2>1 DEF IsCard, Cards
    <3>. QED BY <2>1, <3>1, <3>2 DEF Sends
  <2>3. flight.input = MetaInput(flight.form.values)
    <3>1. flight.input = Input(flight.form.values)
      BY <2>1, <2>2 DEF Sends
    <3>2. ASSUME NEW v PROVE Input(v) = MetaInput(v)
      BY <2>1 DEF Input, IsProfile, Protocols
    <3>. QED BY <3>1, <3>2
  <2>4. flight.input.name # ""
    <3>1. ASSUME NEW v PROVE MetaInput(v).name # ""
      BY DEF MetaInput, OrNull, Null
    <3>. QED BY <2>3, <3>1
  <2>5. Sound(rows[flight.row])
    BY <2>1, <2>2 DEF SoundTables
  <2>6. "name" \in DOMAIN rows[flight.row]
    BY <2>1, <2>5 DEF Sound, RowFields, Fields
  <2>7. Sound(row)
    BY <2>4, <2>5, <2>6, FieldSound
  <2>. HIDE DEF row
  <2>. QED BY <1>1, <2>1, <2>2, <2>7
<1>6. ASSUME NEW q \in Rows, ChangeElsewhere(q)
      PROVE  \/ rows'[r] = rows[r] \/ (rows'[r] = Gone /\ ~IsCard) \/ Sound(rows'[r])
  <2>1. PICK f \in (DOMAIN Theirs \cap DOMAIN rows[q]) \ (IF kind = "user" THEN {"name"} ELSE {}) :
          rows' = [rows EXCEPT ![q][f] = Theirs[f]]
    BY <1>6 DEF ChangeElsewhere
  <2>. DEFINE row == [rows[q] EXCEPT ![f] = Theirs[f]]
  <2>2. rows' = [rows EXCEPT ![q] = row]
    BY <2>1
  <2>3. Sound(rows[q])
    BY <1>6 DEF ChangeElsewhere, SoundTables, SoundTable
  <2>4. Theirs[f] # ""
    <3>1. f \in {"name", "text", "status", "priority"}
      BY DEF Theirs
    <3>2. /\ Theirs["name"] = "theirs" /\ Theirs["text"] = "theirs"
          /\ Theirs["status"] = "limited" /\ Theirs["priority"] = "5"
      BY DEF Theirs
    <3>. QED BY <3>1, <3>2
  <2>5. Sound(row)
    BY <2>3, <2>4, FieldSound
  <2>. HIDE DEF row
  <2>. QED BY <1>1, <2>2, <2>5
<1>7. ASSUME NEW q \in Rows, DeleteElsewhere(q)
      PROVE  \/ rows'[r] = rows[r] \/ (rows'[r] = Gone /\ ~IsCard) \/ Sound(rows'[r])
  BY <1>1, <1>7 DEF DeleteElsewhere
<1>8. CASE UNCHANGED consoleVars
  BY <1>8 DEF consoleVars
<1>9. ASSUME NEW q \in Rows, OpenDialog(q) \/ EnterCard(q) \/ ToggleHost(q) \/ Delete(q)
      PROVE  rows' = rows
  BY <1>9 DEF OpenDialog, EnterCard, ToggleHost, Delete
<1>10. CASE Type \/ ChoosePreset \/ GenerateKeys \/ KeysAnswer \/ Cancel \/ Leave \/ Submit
            \/ Lose \/ Finish \/ ReadList \/ ListArrives \/ FetchFails
  BY <1>2, <1>10 DEF Type, ChoosePreset, GenerateKeys, KeysAnswer, Cancel, Leave, Submit, Lose,
                     Finish, ReadList, ListArrives, FetchFails
<1>. QED BY <1>2, <1>3, <1>4, <1>5, <1>6, <1>7, <1>8, <1>9, <1>10 DEF ConsoleNext

(* A page keeps what its rows are made of. *)
LEMMA SamePage ==
  ASSUME kind' = kind
  PROVE  /\ Fields' = Fields /\ RowFields' = RowFields /\ (IsCard' <=> IsCard)
         /\ (FillsOnOpen' <=> FillsOnOpen) /\ NoForm' = NoForm
BY DEF Fields, RowFields, IsCard, FillsOnOpen, IsProfile, NoForm, Blank

(* The tables, when nothing of them changes but some rows, and a list is    *)
(* read or arrives.                                                         *)
LEMMA SoundSteps ==
  ASSUME TypedInv, SavedInv, [ConsoleNext]_consoleVars
  PROVE  SoundTables'
<1>. USE DEF TypedInv, SavedInv
<1>1. kind' = kind
  BY DEF ConsoleNext, consoleVars, OpenDialog, EnterCard, ToggleHost, Delete, ChangeElsewhere,
         DeleteElsewhere, Type, ChoosePreset, GenerateKeys, KeysAnswer, Cancel, Leave, Submit, Land,
         LandDelete, LandPartly, Lose, Finish, ReadList, ListArrives, FetchFails
<1>2. RowFields' = RowFields /\ (IsCard' <=> IsCard)
  BY <1>1, SamePage
<1>3. \A r \in Rows : rows'[r] = Gone \/ Sound(rows'[r])
  BY RowSteps DEF SoundTables, SoundTable
<1>4. /\ cache' = cache \/ (fetch.at = "read" /\ cache' = fetch.got)
      /\ fetch' = fetch \/ fetch'.at # "read" \/ fetch'.got = rows
  <2>1. CASE ListArrives
    BY <2>1 DEF ListArrives, Idle
  <2>2. CASE ReadList
    BY <2>2 DEF ReadList
  <2>3. CASE FetchFails \/ Finish
    <3>1. cache' = cache /\ (fetch' = Idle \/ Invalidate)
      BY <2>3 DEF FetchFails, Finish
    <3>. QED BY <3>1 DEF Idle, Invalidate
  <2>4. CASE UNCHANGED <<cache, fetch>>
    BY <2>4
  <2>5. ASSUME NEW r \in Rows, OpenDialog(r) \/ EnterCard(r) \/ ToggleHost(r) \/ Delete(r)
                              \/ ChangeElsewhere(r) \/ DeleteElsewhere(r)
        PROVE  UNCHANGED <<cache, fetch>>
    BY <2>5 DEF OpenDialog, EnterCard, ToggleHost, Delete, ChangeElsewhere, DeleteElsewhere
  <2>6. CASE Type \/ ChoosePreset \/ GenerateKeys \/ KeysAnswer \/ Cancel \/ Leave \/ Submit
             \/ Land \/ LandDelete \/ LandPartly \/ Lose
    BY <2>6 DEF Type, ChoosePreset, GenerateKeys, KeysAnswer, Cancel, Leave, Submit, Land,
                LandDelete, LandPartly, Lose
  <2>7. CASE UNCHANGED consoleVars
    BY <2>7 DEF consoleVars
  <2>. QED BY <2>1, <2>2, <2>3, <2>4, <2>5, <2>6, <2>7 DEF ConsoleNext
<1>5. ASSUME IsCard
      PROVE  /\ open' # None => Sound(rows'[open'])
             /\ Sent' => Sound(rows'[flight'.row])
  <2>1. ASSUME NEW r \in Rows, Sound(rows[r]) PROVE Sound(rows'[r])
    BY <1>5, <2>1, RowSteps
  <2>2. open' = open \/ open' = None \/ (\E r \in Rows : open' = r /\ rows[r] # Gone)
    <3>1. ASSUME NEW r \in Rows, OpenDialog(r) \/ EnterCard(r) \/ ToggleHost(r) \/ Delete(r)
                              \/ ChangeElsewhere(r) \/ DeleteElsewhere(r)
          PROVE  open' = open \/ open' = None \/ (open' = r /\ rows[r] # Gone)
      BY <1>5, <3>1 DEF OpenDialog, EnterCard, ToggleHost, Delete, ChangeElsewhere, DeleteElsewhere, Close
    <3>2. CASE Type \/ ChoosePreset \/ GenerateKeys \/ KeysAnswer \/ Cancel \/ Leave \/ Submit
               \/ Land \/ LandDelete \/ LandPartly \/ Lose
      BY <3>2 DEF Type, ChoosePreset, GenerateKeys, KeysAnswer, Cancel, Leave, Submit, Land,
                  LandDelete, LandPartly, Lose, Close
    <3>3. CASE Finish \/ ReadList \/ ListArrives \/ FetchFails \/ UNCHANGED consoleVars
      BY <3>3 DEF Finish, ReadList, ListArrives, FetchFails, Close, consoleVars
    <3>. QED BY <3>1, <3>2, <3>3 DEF ConsoleNext
  <2>3. open' # None => Sound(rows'[open'])
    BY <1>5, <2>1, <2>2 DEF SoundTables, SoundTable, Forms
  <2>4. Sent' => (Sent /\ flight' = flight) \/ (open # None /\ flight'.row = open)
    <3>1. ASSUME NEW r \in Rows, OpenDialog(r) \/ EnterCard(r) \/ ToggleHost(r) \/ Delete(r)
                              \/ ChangeElsewhere(r) \/ DeleteElsewhere(r)
          PROVE  flight' = flight
      BY <1>5, <3>1 DEF OpenDialog, EnterCard, ToggleHost, Delete, ChangeElsewhere, DeleteElsewhere,
                        IsCard, Cards
    <3>2. CASE Submit
      BY <3>2 DEF Submit, Request
    <3>3. CASE Type \/ ChoosePreset \/ GenerateKeys \/ KeysAnswer \/ Cancel \/ Leave
               \/ ReadList \/ ListArrives \/ FetchFails \/ UNCHANGED consoleVars
      <4>1. flight' = flight
        BY <3>3 DEF Type, ChoosePreset, GenerateKeys, KeysAnswer, Cancel, Leave, ReadList, ListArrives,
                    FetchFails, consoleVars
      <4>. QED BY <4>1 DEF Sent
    <3>4. CASE Land \/ LandDelete \/ LandPartly \/ Lose \/ Finish
      <4>1. flight' = None \/ flight' = Done
        BY <3>4 DEF Land, LandDelete, LandPartly, Lose, Finish
      <4>2. ~Sent'
        BY <4>1 DEF Done, Sent
      <4>. QED BY <4>2
    <3>5. (Sent' /\ flight' = flight) => Sent
      BY DEF Sent
    <3>. QED BY <3>1, <3>2, <3>3, <3>4, <3>5 DEF ConsoleNext
  <2>5. Sent' => Sound(rows'[flight'.row])
    <3>1. CASE Sent /\ flight' = flight
      BY <1>5, <2>1, <3>1 DEF SoundTables, Tables, Sent
    <3>2. CASE open # None /\ flight'.row = open
      BY <1>5, <2>1, <3>2 DEF SoundTables, Forms
    <3>. QED BY <2>4, <3>1, <3>2
  <2>. QED BY <2>3, <2>5
<1>6. \A x : Sound(x)' <=> Sound(x)
  BY <1>2 DEF Sound
<1>7. SoundTable(rows)'
  BY <1>2, <1>3 DEF SoundTable, Sound
<1>8. cache' # Unknown => SoundTable(cache)'
  <2>1. CASE cache' = cache
    BY <1>2, <2>1 DEF SoundTables, SoundTable, Sound
  <2>2. CASE fetch.at = "read" /\ cache' = fetch.got
    BY <1>2, <2>2 DEF SoundTables, SoundTable, Sound
  <2>. QED BY <1>4, <2>1, <2>2
<1>9. fetch'.at = "read" => SoundTable(fetch.got)'
  <2>1. CASE fetch' = fetch
    BY <1>2, <2>1 DEF SoundTables, SoundTable, Sound
  <2>2. CASE fetch'.got = rows
    BY <1>2, <2>2 DEF SoundTables, SoundTable, Sound
  <2>. QED BY <1>4, <2>1, <2>2
<1>10. IsCard' /\ open' # None => Sound(rows[open])'
  BY <1>2, <1>5 DEF Sound
<1>11. IsCard' /\ Sent' => Sound(rows[flight.row])'
  BY <1>2, <1>5 DEF Sound
<1>. QED BY <1>7, <1>8, <1>9, <1>10, <1>11 DEF SoundTables

(* What a page makes of values depends on nothing but the page. *)
LEMMA SameMeaning ==
  ASSUME kind' = kind
  PROVE  /\ \A x : Filled(x)' = Filled(x)
         /\ \A x : Input(x)' = Input(x)
         /\ \A x : Complete(x)' <=> Complete(x)
<1>1. \A x : Filled(x)' = Filled(x)
  BY DEF Filled, UserForm, SquadForm, ProfileForm, NodeForm, HostForm, RegionForm, SrrForm, MetaForm,
         ConfigForm, IsProfile
<1>2. \A x : Input(x)' = Input(x)
  BY DEF Input, UserInput, SquadInput, ProfileInput, ConfigInput, NodeInput, HostInput, SrrInput,
         BrandInput, MetaInput, IsProfile
<1>3. \A x : Complete(x)' <=> Complete(x)
  BY DEF Complete
<1>. QED BY <1>1, <1>2, <1>3

LEMMA SameForms ==
  ASSUME kind' = kind
  PROVE  /\ \A x : Apt(x)' <=> Apt(x)
         /\ \A x : Shaped(x)' <=> Shaped(x)
         /\ \A fm, object, touched, happened :
              Faithful(fm, object, touched, happened)' <=> Faithful(fm, object, touched, happened)
<1>1. Fields' = Fields
  BY SamePage
<1>2. \A x : Apt(x)' <=> Apt(x)
  BY <1>1 DEF Apt
<1>3. \A x : Shaped(x)' <=> Shaped(x)
  BY <1>1 DEF Shaped
<1>4. ASSUME NEW fm, NEW object, NEW touched, NEW happened
      PROVE  Faithful(fm, object, touched, happened)' <=> Faithful(fm, object, touched, happened)
  BY <1>1, SameMeaning DEF Faithful
<1>. QED BY <1>2, <1>3, <1>4

(* A form just filled is faithful, whatever happened before. *)
LEMMA FillFaithful ==
  ASSUME kind \in Pages, NEW r, NEW row, NEW touched, NEW happened
  PROVE  /\ Faithful(Fill(r, row), row, touched, happened)
         /\ Fill(r, row).of = r /\ Fill(r, row).values = Filled(row) /\ Fill(r, row).kept = FALSE
BY FilledShaped DEF Fill, Faithful

LEMMA BlankApt ==
  ASSUME kind \in Pages, ~FillsOnOpen
  PROVE  Apt(NoForm.values) /\ NoForm.of = None /\ NoForm.kept = FALSE
<1>1. NoForm.values = Blank /\ NoForm.of = None /\ NoForm.kept = FALSE
  BY DEF NoForm
<1>2. CASE kind = "user"
  <2>1. Fields \cap {"status", "layer", "network", "method"} = {"status"}
    BY <1>2 DEF Fields
  <2>2. Blank.status = "active"
    BY <1>2 DEF Blank, NoUser
  <2>. QED BY <1>1, <2>1, <2>2 DEF Apt
<1>3. CASE kind # "user"
  BY <1>1, <1>3 DEF Apt, Fields, FillsOnOpen, IsProfile, Pages, Protocols, Cards
<1>. QED BY <1>1, <1>2, <1>3

LEMMA DialogsStay ==
  ASSUME Dialogs, UNCHANGED <<kind, open, snap, form, gen, typed, told>>
  PROVE  Dialogs'
BY SamePage, SameForms DEF Dialogs

LEMMA DialogsClose ==
  ASSUME TypedInv, Dialogs, NEW keep \in BOOLEAN, Close(keep), UNCHANGED <<kind, gen>>,
         keep => kind \in {"user", "squad"} /\ open # None
  PROVE  Dialogs'
<1>1. /\ open' = None /\ snap' = None /\ kind \in Pages
      /\ form' = IF keep THEN [form EXCEPT !.kept = TRUE] ELSE NoForm
  BY DEF Close, TypedInv, Tables
<1>2. gen' # None => (Apt(gen.values) /\ gen.of \in Rows)'
  BY SameForms DEF Dialogs
<1>3. CASE keep
  <2>1. Shaped(form) /\ ~IsCard /\ form.of # None /\ form.of \in Rows \cup {None} /\ Apt(form.values)
    BY <1>3 DEF TypedInv, Forms, Dialogs, IsCard, Cards
  <2>2. form' = [values |-> form.values, of |-> form.of, kept |-> TRUE]
    BY <1>1, <1>3, <2>1 DEF Shaped
  <2>3. Apt(form.values)'
    BY <2>1, <2>2, SameForms
  <2>. QED BY <1>1, <1>2, <2>1, <2>2, <2>3 DEF Dialogs
<1>4. CASE ~keep
  <2>1. form' = NoForm /\ NoForm' = NoForm /\ (FillsOnOpen' <=> FillsOnOpen)
    BY <1>1, <1>4, SamePage
  <2>2. NoForm.of = None
    BY DEF NoForm
  <2>3. ~FillsOnOpen => Apt(form.values)'
    BY <1>1, <2>1, BlankApt, SameForms
  <2>. QED BY <1>1, <1>2, <2>1, <2>2, <2>3 DEF Dialogs
<1>. QED BY <1>3, <1>4

LEMMA DialogsOpen ==
  ASSUME TypedInv, SavedInv, NEW r \in Rows, OpenDialog(r) \/ EnterCard(r)
  PROVE  Dialogs'
<1>. USE DEF TypedInv, SavedInv
<1>0. /\ kind \in Pages /\ open' = r /\ r # None /\ typed' = Nothing /\ told' = {}
      /\ UNCHANGED <<kind, gen>>
  BY ConsoleAssumption DEF OpenDialog, EnterCard, Tables
<1>1. gen' # None => (Apt(gen.values) /\ gen.of \in Rows)'
  BY <1>0, SameForms DEF Dialogs
<1>2. ASSUME form'.of \in Rows \cup {None}, ~IsCard => snap' # None /\ form'.of # None,
             Faithful(form', snap', typed', told'), Apt(form'.values)
      PROVE  Dialogs'
  <2>1. Faithful(form, snap, typed, told)' /\ Apt(form.values)' /\ (IsCard' <=> IsCard)
    BY <1>0, <1>2, SameForms, SamePage
  <2>. QED BY <1>0, <1>1, <1>2, <2>1 DEF Dialogs
<1>3. CASE EnterCard(r)
  <2>1. IsCard /\ ~FillsOnOpen
    BY <1>3 DEF EnterCard, IsCard, Cards, FillsOnOpen, IsProfile, Protocols
  <2>2. \A v : Apt(v)
    BY <2>1 DEF Apt, Fields, IsCard, Cards
  <2>3. CASE form' = NoForm
    <3>1. NoForm.of = None
      BY DEF NoForm
    <3>. QED BY <1>2, <2>1, <2>2, <2>3, <3>1 DEF Faithful
  <2>4. CASE form' = Fill(r, cache[r]) /\ snap' = cache[r]
    <3>1. Faithful(form', snap', typed', told') /\ form'.of = r
      BY <1>0, <2>4, FillFaithful
    <3>. QED BY <1>2, <2>1, <2>2, <3>1
  <2>. QED BY <1>3, <2>3, <2>4 DEF EnterCard
<1>4. CASE OpenDialog(r)
  <2>. DEFINE row == cache[r]
  <2>1. /\ cache # Unknown /\ row # None /\ snap' = row /\ ~IsCard
        /\ open = None \/ (kind = "region" /\ open # r)
        /\ form' = IF FillsOnOpen THEN Fill(r, row) ELSE Drawn(form, r, row)
    BY <1>4 DEF OpenDialog, Gone
  <2>2. Sound(row)
    BY <2>1 DEF SoundTables, SoundTable, Gone
  <2>. HIDE DEF row
  <2>3. Apt(Filled(row))
    BY <1>0, <2>2, FilledApt
  <2>4. CASE form' = Fill(r, row)
    <3>1. Faithful(form', snap', typed', told') /\ form'.of = r /\ form'.values = Filled(row)
      <4>1. Faithful(Fill(r, row), row, typed', told') /\ Fill(r, row).of = r
            /\ Fill(r, row).values = Filled(row)
        BY <1>0, FillFaithful
      <4>2. snap' = row
        BY <2>1
      <4>. QED BY <2>4, <4>1, <4>2
    <3>. QED BY <1>0, <1>2, <2>1, <2>3, <3>1
  <2>5. CASE form' = form /\ ~FillsOnOpen /\ form # NoForm
    <3>1. open = None
      BY <2>1, <2>5 DEF FillsOnOpen
    <3>2. form.kept /\ form.of # None /\ form.of \in Rows \cup {None} /\ Apt(form.values)
      BY <2>5, <3>1 DEF Dialogs
    <3>3. Faithful(form', snap', typed', told')
      BY <2>5, <3>2 DEF Faithful
    <3>. QED BY <1>2, <2>1, <2>5, <3>2, <3>3
  <2>6. CASE ~FillsOnOpen /\ form # NoForm
    BY <2>1, <2>4, <2>5, <2>6 DEF Drawn, UserDrawn, SquadDrawn, SrrDrawn
  <2>7. CASE ~FillsOnOpen /\ form = NoForm
    <3>1. kind \in {"user", "squad", "srr"}
      BY <1>0, <2>1, <2>7 DEF FillsOnOpen, IsCard, Pages, IsProfile
    <3>2. form.values.name = "" /\ (kind = "srr" => form.values.pattern = "")
      BY <2>7, <3>1 DEF NoForm, Blank, NoUser, NoSquad, NoRule
    <3>3. row.name # ""
      <4>1. "name" \in RowFields \ Lists
        BY <3>1 DEF RowFields, Fields, Lists
      <4>. QED BY <2>2, <4>1 DEF Sound
    <3>4. form' = Fill(r, row)
      BY <2>1, <2>7, <3>1, <3>2, <3>3 DEF Drawn, UserDrawn, SquadDrawn, SrrDrawn
    <3>. QED BY <2>4, <3>4
  <2>. QED BY <2>1, <2>4, <2>6, <2>7
<1>. QED BY <1>3, <1>4

(* What typing does to the form: one field and the service that comes with  *)
(* a transport, or the form is filled anew.                                 *)
LEMMA TypeEffect ==
  ASSUME TypedInv, Type
  PROVE  \E f \in DOMAIN Typing(form.values) : \E x \in Typing(form.values)[f] :
           /\ DOMAIN typed' = DOMAIN typed \cup {f}
           /\ \/ kind \in {"squad", "srr"} /\ form' = Fill(open, snap)
              \/ /\ form'.of = form.of /\ form'.kept = form.kept
                 /\ \A g \in Fields :
                      \/ form'.values[g] = (IF g = f THEN x ELSE form.values[g])
                      \/ kind = "xray" /\ g = "service" /\ form'.values[g] = "GunService"
<1>. USE DEF TypedInv
<1>1. PICK f \in DOMAIN Typing(form.values) :
        \E x \in Typing(form.values)[f] \ {form.values[f]} :
          LET put == [form.values EXCEPT ![f] = x]
              vals == IF kind = "xray" THEN ServiceFilled(form.values, put) ELSE put
          IN /\ form' = Drawn([form EXCEPT !.values = vals], open, snap)
             /\ typed' = Over([g \in {f} |-> x], typed)
  BY DEF Type
<1>2. PICK x \in Typing(form.values)[f] \ {form.values[f]} :
          LET put == [form.values EXCEPT ![f] = x]
              vals == IF kind = "xray" THEN ServiceFilled(form.values, put) ELSE put
          IN /\ form' = Drawn([form EXCEPT !.values = vals], open, snap)
             /\ typed' = Over([g \in {f} |-> x], typed)
  BY <1>1
<1>. DEFINE put == [form.values EXCEPT ![f] = x]
            vals == IF kind = "xray" THEN ServiceFilled(form.values, put) ELSE put
            next == [form EXCEPT !.values = vals]
<1>3. form' = Drawn(next, open, snap) /\ typed' = Over([g \in {f} |-> x], typed)
  BY <1>2
<1>4. /\ kind \in Pages /\ open \in Rows /\ open # None /\ Shaped(form)
      /\ kind = "user" => form.values.name # ""
  BY DEF Type, Tables, Forms
<1>5. f \in Fields /\ (kind = "user" => f # "name")
  BY <1>4, TypingFields
<1>6. DOMAIN typed' = DOMAIN typed \cup {f}
  BY <1>3 DEF Over
<1>7. put = [g \in Fields |-> IF g = f THEN x ELSE form.values[g]]
  BY <1>4, <1>5 DEF Shaped
<1>8. \A g \in Fields :
        \/ vals[g] = (IF g = f THEN x ELSE form.values[g])
        \/ kind = "xray" /\ g = "service" /\ vals[g] = "GunService"
  <2>1. CASE kind # "xray"
    BY <1>7, <2>1
  <2>2. CASE kind = "xray"
    <3>1. vals = put \/ vals = [put EXCEPT !.service = "GunService"]
      BY <2>2 DEF ServiceFilled
    <3>. HIDE DEF vals
    <3>2. CASE vals = put
      BY <1>7, <3>2
    <3>3. CASE vals = [put EXCEPT !.service = "GunService"]
      <4>. HIDE DEF put
      <4>. QED BY <1>7, <2>2, <3>3
    <3>. QED BY <3>1, <3>2, <3>3
  <2>. QED BY <2>1, <2>2
<1>. HIDE DEF vals
<1>9. next.values = vals /\ next.of = form.of /\ next.kept = form.kept
  <2>1. form = [values |-> form.values, of |-> form.of, kept |-> form.kept]
    BY <1>4 DEF Shaped
  <2>2. next = [values |-> vals, of |-> form.of, kept |-> form.kept]
    BY <2>1
  <2>. HIDE DEF next
  <2>. QED BY <2>2
<1>. HIDE DEF put, next
<1>10. (kind \in {"squad", "srr"} /\ form' = Fill(open, snap)) \/ form' = next
  <2>1. CASE kind = "user"
    <3>1. next.values.name # ""
      BY <1>4, <1>5, <1>8, <1>9, <2>1 DEF Fields
    <3>. QED BY <1>3, <2>1, <3>1 DEF Drawn, UserDrawn
  <2>2. CASE kind # "user"
    BY <1>3, <2>2 DEF Drawn, SquadDrawn, SrrDrawn
  <2>. QED BY <2>1, <2>2
<1>11. \/ kind \in {"squad", "srr"} /\ form' = Fill(open, snap)
       \/ /\ form'.of = form.of /\ form'.kept = form.kept
          /\ \A g \in Fields :
               \/ form'.values[g] = (IF g = f THEN x ELSE form.values[g])
               \/ kind = "xray" /\ g = "service" /\ form'.values[g] = "GunService"
  <2>1. CASE kind \in {"squad", "srr"} /\ form' = Fill(open, snap)
    BY <2>1
  <2>2. CASE form' = next
    <3>1. form'.values = vals /\ form'.of = form.of /\ form'.kept = form.kept
      BY <1>9, <2>2
    <3>. QED BY <1>8, <3>1
  <2>. QED BY <1>10, <2>1, <2>2
<1>12. x \in Typing(form.values)[f]
  BY <1>2
<1>. QED BY <1>6, <1>11, <1>12

(* What is offered is never blank where it is chosen from a list. *)
LEMMA TypingApt ==
  ASSUME kind \in Pages, NEW v, NEW f \in Fields \cap {"status", "layer", "network", "method"},
         NEW x \in Typing(v)[f]
  PROVE  x # ""
<1>1. CASE kind = "user"
  <2>1. f = "status" /\ Typing(v) = UserTyping(v)
    BY <1>1 DEF Fields, Typing, IsProfile, Protocols
  <2>2. UserTyping(v)["status"] = {"active", "disabled"}
    BY DEF UserTyping
  <2>. QED BY <2>1, <2>2
<1>2. CASE kind = "host"
  <2>1. f = "layer" /\ Typing(v) = HostTyping
    BY <1>2 DEF Fields, Typing, IsProfile, Protocols
  <2>2. HostTyping["layer"] = {"default", "none"}
    BY DEF HostTyping
  <2>. QED BY <2>1, <2>2
<1>3. CASE kind = "xray"
  <2>1. f = "network" /\ Typing(v) = ProfileTyping(v)
    BY <1>3 DEF Fields, Typing, IsProfile, Protocols
  <2>2. ProfileTyping(v)["network"] = {"raw", "grpc"}
    BY <1>3 DEF ProfileTyping, ConfigTyping, XrayTyping, Over
  <2>. QED BY <2>1, <2>2
<1>4. CASE kind = "shadowsocks"
  <2>1. f = "method" /\ Typing(v) = ProfileTyping(v)
    BY <1>4 DEF Fields, Typing, IsProfile, Protocols
  <2>2. ProfileTyping(v)["method"] = {"aes128", "aes256"}
    BY <1>4 DEF ProfileTyping, ConfigTyping, ShadowsocksTyping, Over
  <2>. QED BY <2>1, <2>2
<1>5. kind \in {"user", "host", "xray", "shadowsocks"}
  BY DEF Fields, Pages, Protocols, Cards
<1>. QED BY <1>1, <1>2, <1>3, <1>4, <1>5

(* A dialog that stays open. *)
LEMMA DialogsMove ==
  ASSUME TypedInv, Dialogs, UNCHANGED <<kind, open, snap>>, open # None,
         form'.of \in Rows \cup {None}, ~IsCard => form'.of # None,
         Faithful(form', snap', typed', told'), Apt(form'.values),
         gen' # None => gen' = gen
  PROVE  Dialogs'
<1>1. /\ Faithful(form, snap, typed, told)' /\ Apt(form.values)' /\ (IsCard' <=> IsCard)
      /\ gen' # None => (Apt(gen.values))'
  BY SameForms, SamePage DEF Dialogs
<1>. QED BY <1>1 DEF Dialogs

LEMMA TypeDialogs ==
  ASSUME TypedInv, Dialogs, Type
  PROVE  Dialogs'
<1>. USE DEF TypedInv
<1>1. /\ kind \in Pages /\ open # None /\ open \in Rows /\ UNCHANGED <<kind, open, snap, gen, told>>
      /\ Apt(form.values) /\ Faithful(form, snap, typed, told)
  BY DEF Type, Tables, Forms, Dialogs
<1>2. PICK f \in DOMAIN Typing(form.values) : \E x \in Typing(form.values)[f] :
        /\ DOMAIN typed' = DOMAIN typed \cup {f}
        /\ \/ kind \in {"squad", "srr"} /\ form' = Fill(open, snap)
           \/ /\ form'.of = form.of /\ form'.kept = form.kept
              /\ \A g \in Fields :
                   \/ form'.values[g] = (IF g = f THEN x ELSE form.values[g])
                   \/ kind = "xray" /\ g = "service" /\ form'.values[g] = "GunService"
  BY TypeEffect
<1>5. PICK x \in Typing(form.values)[f] :
        /\ DOMAIN typed' = DOMAIN typed \cup {f}
        /\ \/ kind \in {"squad", "srr"} /\ form' = Fill(open, snap)
           \/ /\ form'.of = form.of /\ form'.kept = form.kept
              /\ \A g \in Fields :
                   \/ form'.values[g] = (IF g = f THEN x ELSE form.values[g])
                   \/ kind = "xray" /\ g = "service" /\ form'.values[g] = "GunService"
  BY <1>2
<1>3. CASE kind \in {"squad", "srr"} /\ form' = Fill(open, snap)
  <2>1. Apt(form'.values)
    BY <1>3 DEF Apt, Fields
  <2>2. Faithful(Fill(open, snap), snap, typed', told') /\ Fill(open, snap).of = open
    BY <1>1, FillFaithful
  <2>. QED BY <1>1, <1>3, <2>1, <2>2, DialogsMove
<1>4. CASE /\ form'.of = form.of /\ form'.kept = form.kept
           /\ \A g \in Fields :
                \/ form'.values[g] = (IF g = f THEN x ELSE form.values[g])
                \/ kind = "xray" /\ g = "service" /\ form'.values[g] = "GunService"
  <2>1. Apt(form'.values)
    <3>. SUFFICES ASSUME NEW g \in Fields \cap {"status", "layer", "network", "method"}
                  PROVE  form'.values[g] # ""
      BY DEF Apt
    <3>1. CASE g = f
      <4>1. x # ""
        BY <1>1, <3>1, TypingApt
      <4>. QED BY <1>4, <3>1, <4>1
    <3>2. CASE g # f
      BY <1>1, <1>4, <3>2 DEF Apt
    <3>. QED BY <3>1, <3>2
  <2>2. Faithful(form', snap', typed', told')
    BY <1>1, <1>5, <1>4 DEF Faithful
  <2>. QED BY <1>1, <1>4, <2>1, <2>2, DialogsMove DEF Dialogs
<1>. QED BY <1>5, <1>3, <1>4

LEMMA PresetDialogs ==
  ASSUME TypedInv, Dialogs, ChoosePreset
  PROVE  Dialogs'
<1>. USE DEF TypedInv
<1>1. PICK p \in {"tspu", "custom"} :
        LET vals == Preset(form.values, p)
            changed == {f \in DOMAIN vals \ {"preset"} : vals[f] # form.values[f]}
        IN /\ form' = [form EXCEPT !.values = vals]
           /\ typed' = Over([f \in changed |-> vals[f]], typed)
  BY DEF ChoosePreset
<1>. DEFINE vals == Preset(form.values, p)
            changed == {f \in DOMAIN vals \ {"preset"} : vals[f] # form.values[f]}
<1>2. /\ form' = [form EXCEPT !.values = vals]
      /\ typed' = Over([f \in changed |-> vals[f]], typed)
      /\ kind = "amneziawg" /\ open # None /\ UNCHANGED <<kind, open, snap, gen, told>>
  BY <1>1 DEF ChoosePreset
<1>3. Shaped(form) /\ Faithful(form, snap, typed, told)
  BY <1>2 DEF Forms, Dialogs
<1>4. vals = [f \in Fields |-> vals[f]]
  <2>1. form.values = [f \in Fields |-> form.values[f]]
    BY <1>3 DEF Shaped
  <2>. QED BY <2>1 DEF Preset
<1>. HIDE DEF vals
<1>5. form' = [values |-> vals, of |-> form.of, kept |-> form.kept]
  BY <1>2, <1>3 DEF Shaped
<1>6. DOMAIN typed' = DOMAIN typed \cup changed
  BY <1>2 DEF Over
<1>7. \A f \in Fields \ ({"preset"} \cup DOMAIN typed') : vals[f] = form.values[f]
  BY <1>4, <1>6
<1>8. Apt(form'.values)
  BY <1>2 DEF Apt, Fields
<1>9. Faithful(form', snap', typed', told')
  BY <1>2, <1>3, <1>5, <1>6, <1>7 DEF Faithful
<1>. QED BY <1>2, <1>5, <1>8, <1>9, DialogsMove DEF Dialogs

LEMMA KeysDialogs ==
  ASSUME TypedInv, Dialogs, KeysAnswer
  PROVE  Dialogs'
<1>. USE DEF TypedInv
<1>1. gen # None /\ gen' = None /\ UNCHANGED <<kind, open, snap>>
      /\ kind \in {"xray", "amneziawg"} /\ Shaped(gen) /\ Apt(gen.values) /\ gen.of \in Rows
  BY DEF KeysAnswer, Forms, Dialogs
<1>2. CASE UNCHANGED <<form, typed, told>>
  BY <1>1, <1>2, SamePage, SameForms DEF Dialogs
<1>3. CASE /\ open # None /\ form' = [gen EXCEPT !.values.keys = "fresh"]
           /\ typed' = Over([keys |-> "fresh"], typed)
           /\ told' = IF gen # form THEN told \cup {"keys"} ELSE told
  <2>. DEFINE vals == [gen.values EXCEPT !.keys = "fresh"]
  <2>1. form' = [values |-> vals, of |-> gen.of, kept |-> gen.kept]
    BY <1>1, <1>3 DEF Shaped
  <2>2. \A f \in Fields : f # "keys" => vals[f] = gen.values[f]
    BY <1>1 DEF Shaped
  <2>. HIDE DEF vals
  <2>3. DOMAIN typed' = DOMAIN typed \cup {"keys"}
    BY <1>3 DEF Over
  <2>4. Apt(form'.values)
    BY <1>1, <2>1, <2>2 DEF Apt
  <2>5. gen.of # None
    BY <1>1, ConsoleAssumption
  <2>6. Faithful(form', snap', typed', told')
    <3>1. CASE gen # form
      BY <1>3, <3>1 DEF Faithful
    <3>2. CASE gen = form
      <4>1. Faithful(gen, snap, typed, told)
        BY <1>3, <3>2 DEF Dialogs
      <4>. QED BY <1>1, <1>3, <2>1, <2>2, <2>3, <3>2, <4>1 DEF Faithful
    <3>. QED BY <3>1, <3>2
  <2>. QED BY <1>1, <1>3, <2>1, <2>4, <2>5, <2>6, DialogsMove
<1>. QED BY <1>2, <1>3 DEF KeysAnswer

LEMMA ArriveDialogs ==
  ASSUME TypedInv, Dialogs, ListArrives
  PROVE  Dialogs'
<1>. USE DEF TypedInv
<1>1. kind \in Pages /\ UNCHANGED <<kind, gen>> /\ open \in Rows \cup {None}
  BY DEF ListArrives, Tables, Forms
<1>2. CASE UNCHANGED <<open, snap, form, typed, told>>
  BY <1>1, <1>2, DialogsStay
<1>3. CASE kind = "region" /\ Close(FALSE)
  BY <1>1, <1>3, DialogsClose
<1>4. CASE /\ open # None /\ Hydrates(form)
           /\ form' = Fill(open, fetch.got[open]) /\ snap' = fetch.got[open]
           /\ UNCHANGED <<open, typed>>
  <2>1. IsCard
    BY <1>4 DEF Hydrates, IsCard, Cards
  <2>2. Apt(form'.values)
    BY <2>1 DEF Apt, Fields, IsCard, Cards
  <2>3. Faithful(form', snap', typed', told') /\ form'.of = open
    BY <1>1, <1>4, FillFaithful
  <2>4. Faithful(form, snap, typed, told)' /\ Apt(form.values)' /\ (IsCard' <=> IsCard)
        /\ (gen' # None => (Apt(gen.values))')
    BY <1>1, <2>2, <2>3, SameForms, SamePage DEF Dialogs
  <2>. QED BY <1>1, <1>4, <2>1, <2>3, <2>4 DEF Dialogs
<1>. QED BY <1>2, <1>3, <1>4 DEF ListArrives

(* The rows the page starts with. *)
LEMMA StartsSound ==
  ASSUME kind \in Pages, NEW r \in Rows, NEW row \in InitialRows(r)
  PROVE  Sound(row)
<1>1. r # "" /\ Null # ""
  BY ConsoleAssumption DEF Null
<1>2. CASE kind = "user"
  <2>1. RowFields = {"name", "status", "limit", "text", "squads"}
    BY <1>2 DEF RowFields, Fields
  <2>2. row \in UserRows(r)
    BY <1>2 DEF InitialRows, IsProfile, Protocols
  <2>3. row = [f \in RowFields |-> row[f]]
    BY <2>1, <2>2 DEF UserRows
  <2>4. row.name # "" /\ row.status # "" /\ row.limit # "" /\ row.text # ""
    BY <1>1, <2>2 DEF UserRows
  <2>. QED BY <2>1, <2>3, <2>4 DEF Sound, Lists
<1>3. CASE kind = "squad"
  <2>1. RowFields = {"name", "text", "profiles"}
    BY <1>3 DEF RowFields, Fields
  <2>2. row \in SquadRows(r)
    BY <1>3 DEF InitialRows, IsProfile, Protocols
  <2>3. row = [f \in RowFields |-> row[f]]
    BY <2>1, <2>2 DEF SquadRows
  <2>4. row.name # "" /\ row.text # ""
    BY <1>1, <2>2 DEF SquadRows
  <2>. QED BY <2>1, <2>3, <2>4 DEF Sound, Lists
<1>4. CASE kind = "node"
  <2>1. RowFields = {"name", "host", "port", "factor", "text"}
    BY <1>4 DEF RowFields, Fields
  <2>2. row \in NodeRows(r)
    BY <1>4 DEF InitialRows, IsProfile, Protocols
  <2>3. row = [f \in RowFields |-> row[f]]
    BY <2>1, <2>2 DEF NodeRows
  <2>4. row.name # "" /\ row.host # "" /\ row.port # "" /\ row.factor # "" /\ row.text # ""
    BY <1>1, <2>2 DEF NodeRows
  <2>. QED BY <2>1, <2>3, <2>4 DEF Sound, Lists
<1>5. CASE kind = "host"
  <2>1. RowFields = {"name", "priority", "enabled", "text", "layer"}
    BY <1>5 DEF RowFields, Fields
  <2>2. row \in HostRows(r)
    BY <1>5 DEF InitialRows, IsProfile, Protocols
  <2>3. row = [f \in RowFields |-> row[f]]
    BY <2>1, <2>2 DEF HostRows
  <2>4. row.name # "" /\ row.priority # "" /\ row.text # "" /\ row.layer # ""
    BY <1>1, <2>2 DEF HostRows
  <2>. QED BY <2>1, <2>3, <2>4 DEF Sound, Lists
<1>6. CASE kind = "region"
  <2>1. RowFields = {"name", "code"}
    BY <1>6 DEF RowFields, Fields
  <2>2. row \in [name : {r}, code : {r}]
    BY <1>6 DEF InitialRows, IsProfile, Protocols
  <2>3. row = [f \in RowFields |-> row[f]]
    BY <2>1, <2>2
  <2>4. row.name # "" /\ row.code # ""
    BY <1>1, <2>2
  <2>. QED BY <2>1, <2>3, <2>4 DEF Sound, Lists
<1>7. CASE kind = "srr"
  <2>1. RowFields = {"name", "pattern", "priority"}
    BY <1>7 DEF RowFields, Fields
  <2>2. row \in [name : {r}, pattern : {r}, priority : {"10"}]
    BY <1>7 DEF InitialRows, IsProfile, Protocols
  <2>3. row = [f \in RowFields |-> row[f]]
    BY <2>1, <2>2
  <2>4. row.name # "" /\ row.pattern # "" /\ row.priority # ""
    BY <1>1, <2>2
  <2>. QED BY <2>1, <2>3, <2>4 DEF Sound, Lists
<1>8. CASE kind = "brand"
  <2>1. RowFields = {"name"}
    BY <1>8 DEF RowFields, Fields
  <2>2. row \in [name : {r}]
    BY <1>8 DEF InitialRows, IsProfile, Protocols
  <2>3. row = [f \in RowFields |-> row[f]]
    BY <2>1, <2>2
  <2>4. row.name # ""
    BY <1>1, <2>2
  <2>. QED BY <2>1, <2>3, <2>4 DEF Sound, Lists
<1>9. CASE kind = "meta"
  <2>1. RowFields = {"name", "hours"}
    BY <1>9 DEF RowFields, Fields
  <2>2. row \in [name : {r}, hours : {"12"}]
    BY <1>9 DEF InitialRows, IsProfile, Protocols
  <2>3. row = [f \in RowFields |-> row[f]]
    BY <2>1, <2>2
  <2>4. row.name # "" /\ row.hours # ""
    BY <1>1, <2>2
  <2>. QED BY <2>1, <2>3, <2>4 DEF Sound, Lists
<1>10. CASE kind \in Protocols
  <2>1. PICK c \in ConfigRows(r) : row = Over([name |-> r, text |-> r], c)
    <3>1. InitialRows(r) = ProfileRows(r)
      BY <1>10 DEF InitialRows, IsProfile, Protocols
    <3>. QED BY <3>1 DEF ProfileRows
  <2>2. CASE kind = "hysteria"
    <3>1. RowFields = {"name", "text", "obfs", "hopStart", "hopEnd"}
      BY <2>2 DEF RowFields, Fields
    <3>2. c \in HysteriaConfig(r)
      BY <2>2 DEF ConfigRows
    <3>3. DOMAIN c = {"obfs", "hopStart", "hopEnd"} /\ c.obfs # "" /\ c.hopStart # "" /\ c.hopEnd # ""
      BY <1>1, <3>2 DEF HysteriaConfig
    <3>4. /\ row = [f \in RowFields |-> row[f]] /\ row.name = r /\ row.text = r
          /\ row.obfs = c.obfs /\ row.hopStart = c.hopStart /\ row.hopEnd = c.hopEnd
      BY <2>1, <3>1, <3>3 DEF Over
    <3>. QED BY <1>1, <3>1, <3>3, <3>4 DEF Sound, Lists
  <2>3. CASE kind = "xray"
    <3>1. RowFields = {"name", "text", "ids", "keys", "network", "service"}
      BY <2>3 DEF RowFields, Fields
    <3>2. c \in XrayConfig(r)
      BY <2>3 DEF ConfigRows
    <3>3. DOMAIN c = {"ids", "keys", "network", "service"} /\ c.keys # "" /\ c.network # "" /\ c.service # ""
      BY <1>1, <3>2 DEF XrayConfig
    <3>4. /\ row = [f \in RowFields |-> row[f]] /\ row.name = r /\ row.text = r
          /\ row.ids = c.ids /\ row.keys = c.keys /\ row.network = c.network /\ row.service = c.service
      BY <2>1, <3>1, <3>3 DEF Over
    <3>. QED BY <1>1, <3>1, <3>3, <3>4 DEF Sound, Lists
  <2>4. CASE kind = "amneziawg"
    <3>1. RowFields = {"name", "text", "keys", "s3", "h1", "h2"}
      BY <2>4 DEF RowFields, Fields
    <3>2. c \in AwgConfig(r)
      BY <2>4 DEF ConfigRows
    <3>3. DOMAIN c = {"keys", "s3", "h1", "h2"} /\ c.keys # "" /\ c.s3 # "" /\ c.h1 # "" /\ c.h2 # ""
      BY <1>1, <3>2 DEF AwgConfig
    <3>4. /\ row = [f \in RowFields |-> row[f]] /\ row.name = r /\ row.text = r
          /\ row.keys = c.keys /\ row.s3 = c.s3 /\ row.h1 = c.h1 /\ row.h2 = c.h2
      BY <2>1, <3>1, <3>3 DEF Over
    <3>. QED BY <1>1, <3>1, <3>3, <3>4 DEF Sound, Lists
  <2>5. CASE kind = "naive"
    <3>1. RowFields = {"name", "text", "host", "root"}
      BY <2>5 DEF RowFields, Fields
    <3>2. c \in NaiveConfig(r)
      BY <2>5 DEF ConfigRows
    <3>3. DOMAIN c = {"host", "root"} /\ c.host # "" /\ c.root # ""
      BY <1>1, <3>2 DEF NaiveConfig
    <3>4. /\ row = [f \in RowFields |-> row[f]] /\ row.name = r /\ row.text = r
          /\ row.host = c.host /\ row.root = c.root
      BY <2>1, <3>1, <3>3 DEF Over
    <3>. QED BY <1>1, <3>1, <3>3, <3>4 DEF Sound, Lists
  <2>6. CASE kind = "shadowsocks"
    <3>1. RowFields = {"name", "text", "method", "psk"}
      BY <2>6 DEF RowFields, Fields
    <3>2. c \in ShadowsocksConfig(r)
      BY <2>6 DEF ConfigRows
    <3>3. DOMAIN c = {"method", "psk"} /\ c.method # "" /\ c.psk # ""
      BY <1>1, <3>2 DEF ShadowsocksConfig
    <3>4. /\ row = [f \in RowFields |-> row[f]] /\ row.name = r /\ row.text = r
          /\ row.method = c.method /\ row.psk = c.psk
      BY <2>1, <3>1, <3>3 DEF Over
    <3>. QED BY <1>1, <3>1, <3>3, <3>4 DEF Sound, Lists
  <2>7. CASE kind = "mtproto"
    <3>1. RowFields = {"name", "text", "domain"}
      BY <2>7 DEF RowFields, Fields
    <3>2. c \in [domain : {r}]
      BY <2>7 DEF ConfigRows
    <3>3. DOMAIN c = {"domain"} /\ c.domain # ""
      BY <1>1, <3>2
    <3>4. /\ row = [f \in RowFields |-> row[f]] /\ row.name = r /\ row.text = r
          /\ row.domain = c.domain
      BY <2>1, <3>1, <3>3 DEF Over
    <3>. QED BY <1>1, <3>1, <3>3, <3>4 DEF Sound, Lists
  <2>8. CASE kind = "mieru"
    <3>1. RowFields = {"name", "text", "mtu"}
      BY <2>8 DEF RowFields, Fields
    <3>2. c \in [mtu : {"1400"}]
      BY <2>8 DEF ConfigRows
    <3>3. DOMAIN c = {"mtu"} /\ c.mtu # ""
      BY <1>1, <3>2
    <3>4. /\ row = [f \in RowFields |-> row[f]] /\ row.name = r /\ row.text = r
          /\ row.mtu = c.mtu
      BY <2>1, <3>1, <3>3 DEF Over
    <3>. QED BY <1>1, <3>1, <3>3, <3>4 DEF Sound, Lists
  <2>. QED BY <1>10, <2>2, <2>3, <2>4, <2>5, <2>6, <2>7, <2>8 DEF Protocols
<1>. QED BY <1>2, <1>3, <1>4, <1>5, <1>6, <1>7, <1>8, <1>9, <1>10 DEF Pages, Cards

LEMMA SavedStarts ==
  ASSUME ConsoleInit
  PROVE  SavedInv
<1>1. /\ kind \in Pages /\ cache = None /\ fetch.at = "asked" /\ flight = None /\ gen = None
      /\ open = None /\ snap = None /\ form = NoForm
      /\ \A r \in Rows : rows[r] \in InitialRows(r) \cup (IF IsCard THEN {Gone} ELSE {})
  BY ConsoleAssumption DEF ConsoleInit, Unknown
<1>2. SoundTable(rows)
  BY <1>1, StartsSound DEF SoundTable
<1>3. SoundTables
  BY <1>1, <1>2 DEF SoundTables, Unknown, Sent
<1>4. Dialogs
  <2>1. NoForm.of = None
    BY DEF NoForm
  <2>. QED BY <1>1, <2>1, BlankApt DEF Dialogs
<1>. QED BY <1>1, <1>3, <1>4 DEF SavedInv, Sends, Sent

LEMMA DialogsSteps ==
  ASSUME TypedInv, SavedInv, [ConsoleNext]_consoleVars
  PROVE  Dialogs'
<1>. USE DEF TypedInv, SavedInv
<1>1. ASSUME UNCHANGED <<kind, open, snap, form, gen, typed, told>> PROVE Dialogs'
  BY <1>1, DialogsStay
<1>2. ASSUME Close(FALSE), UNCHANGED <<kind, gen>> PROVE Dialogs'
  BY <1>2, DialogsClose
<1>3. CASE Cancel
  <2>1. Close(kind \in {"user", "squad"}) /\ open # None /\ UNCHANGED <<kind, gen>>
    BY <1>3 DEF Cancel
  <2>2. CASE kind \in {"user", "squad"}
    <3>1. Close(TRUE)
      BY <2>1, <2>2 DEF Close
    <3>. QED BY <2>1, <2>2, <3>1, DialogsClose
  <2>3. CASE kind \notin {"user", "squad"}
    <3>1. Close(FALSE)
      BY <2>1, <2>3 DEF Close
    <3>. QED BY <1>2, <2>1, <3>1
  <2>. QED BY <2>2, <2>3
<1>4. CASE Leave \/ Finish \/ \E r \in Rows : Delete(r)
  <2>1. UNCHANGED <<kind, gen>> /\ (Close(FALSE) \/ UNCHANGED <<open, snap, form, typed, told>>)
    BY <1>4 DEF Leave, Finish, Delete
  <2>. QED BY <1>1, <1>2, <2>1
<1>5. CASE GenerateKeys
  <2>1. /\ kind \in {"xray", "amneziawg"} /\ open # None /\ gen' = form
        /\ UNCHANGED <<kind, open, snap, form, typed, told>>
    BY <1>5 DEF GenerateKeys
  <2>2. Apt(form.values) /\ form.of \in Rows
    BY <2>1 DEF Dialogs, IsCard, Cards
  <2>3. Apt(gen.values)' /\ Apt(form.values)' /\ Faithful(form, snap, typed, told)'
        /\ (IsCard' <=> IsCard)
    BY <2>1, <2>2, SameForms, SamePage DEF Dialogs
  <2>. QED BY <2>1, <2>2, <2>3 DEF Dialogs
<1>6. ASSUME NEW r \in Rows, OpenDialog(r) \/ EnterCard(r) PROVE Dialogs'
  BY <1>6, DialogsOpen
<1>7. CASE Type \/ ChoosePreset \/ KeysAnswer \/ ListArrives
  BY <1>7, TypeDialogs, PresetDialogs, KeysDialogs, ArriveDialogs
<1>8. ASSUME NEW r \in Rows, ToggleHost(r) \/ ChangeElsewhere(r) \/ DeleteElsewhere(r)
      PROVE  Dialogs'
  BY <1>1, <1>8 DEF ToggleHost, ChangeElsewhere, DeleteElsewhere
<1>9. CASE Submit \/ Land \/ LandDelete \/ LandPartly \/ Lose \/ ReadList \/ FetchFails
  BY <1>1, <1>9 DEF Submit, Land, LandDelete, LandPartly, Lose, ReadList, FetchFails
<1>10. CASE UNCHANGED consoleVars
  BY <1>1, <1>10 DEF consoleVars
<1>. QED BY <1>3, <1>4, <1>5, <1>6, <1>7, <1>8, <1>9, <1>10 DEF ConsoleNext

LEMMA SendsSteps ==
  ASSUME TypedInv, SavedInv, [ConsoleNext]_consoleVars
  PROVE  Sends'
<1>. USE DEF TypedInv, SavedInv
<1>0. kind \in Pages
  BY DEF Tables
<1>1. ASSUME flight' = flight, kind' = kind PROVE Sends'
  <2>1. (Sent' <=> Sent) /\ (IsCard' <=> IsCard) /\ Fields' = Fields
    BY <1>1, SamePage DEF Sent
  <2>. QED BY <1>1, <2>1, SameForms, SameMeaning DEF Sends
<1>2. ASSUME ~Sent' PROVE Sends'
  BY <1>2 DEF Sends
<1>3. CASE Submit
  <2>1. /\ open # None /\ Complete(form.values) /\ kind' = kind
        /\ flight' = Request("save", open, Input(form.values))
    BY <1>3 DEF Submit
  <2>2. /\ flight'.what = "save" /\ flight'.form = form /\ flight'.snap = snap
        /\ flight'.typed = typed /\ flight'.told = told /\ flight'.input = Input(form.values)
    BY <2>1 DEF Request
  <2>3. /\ Shaped(form) /\ Apt(form.values) /\ Faithful(form, snap, typed, told)
        /\ DOMAIN typed \subseteq Fields \ {"preset"}
        /\ kind = "user" => "name" \notin DOMAIN typed
    BY <2>1 DEF Forms, Dialogs
  <2>4. /\ Shaped(flight.form)' /\ Apt(flight.form.values)' /\ Complete(flight.form.values)'
        /\ Input(flight.form.values)' = Input(form.values)
        /\ Faithful(flight.form, flight.snap, flight.typed, flight.told)'
        /\ Fields' = Fields
    BY <2>1, <2>2, <2>3, SamePage, SameForms, SameMeaning
  <2>. QED BY <2>1, <2>2, <2>3, <2>4 DEF Sends
<1>4. ASSUME NEW r \in Rows, ToggleHost(r) PROVE Sends'
  <2>1. /\ flight' = Request("toggle", r, [enabled |-> ~cache[r].enabled]) /\ kind' = "host"
    BY <1>4 DEF ToggleHost
  <2>2. flight'.what = "toggle" /\ flight'.input = [enabled |-> flight'.input.enabled]
    BY <2>1 DEF Request
  <2>. QED BY <2>1, <2>2 DEF Sends, IsCard, Cards
<1>5. ASSUME NEW r \in Rows, Delete(r) PROVE Sends'
  <2>1. ~IsCard /\ kind' = kind /\ flight' = Request("delete", r, Nothing)
    BY <1>5 DEF Delete
  <2>2. flight'.what = "delete" /\ ~IsCard'
    BY <2>1, SamePage DEF Request
  <2>. QED BY <2>2 DEF Sends
<1>6. CASE Land \/ LandDelete \/ LandPartly \/ Lose \/ Finish
  <2>1. flight' = None \/ flight' = Done
    BY <1>6 DEF Land, LandDelete, LandPartly, Lose, Finish
  <2>. QED BY <1>2, <2>1 DEF Done, Sent
<1>7. ASSUME NEW r \in Rows, OpenDialog(r) \/ EnterCard(r) \/ ChangeElsewhere(r) \/ DeleteElsewhere(r)
      PROVE  Sends'
  BY <1>1, <1>7 DEF OpenDialog, EnterCard, ChangeElsewhere, DeleteElsewhere
<1>8. CASE Type \/ ChoosePreset \/ GenerateKeys \/ KeysAnswer \/ Cancel \/ Leave
           \/ ReadList \/ ListArrives \/ FetchFails
  BY <1>1, <1>8 DEF Type, ChoosePreset, GenerateKeys, KeysAnswer, Cancel, Leave, ReadList,
                    ListArrives, FetchFails
<1>9. CASE UNCHANGED consoleVars
  BY <1>1, <1>9 DEF consoleVars
<1>. QED BY <1>3, <1>4, <1>5, <1>6, <1>7, <1>8, <1>9 DEF ConsoleNext

LEMMA SavedSteps ==
  ASSUME TypedInv, SavedInv, [ConsoleNext]_consoleVars
  PROVE  SavedInv'
BY SoundSteps, DialogsSteps, SendsSteps DEF SavedInv

(* A save that lands. *)
LEMMA SaveLands ==
  ASSUME TypedInv, SavedInv, [ConsoleNext]_consoleVars, Sent, flight.what = "save", Answered'
  PROVE  /\ flight.row \in Rows /\ rows[flight.row] # Gone
         /\ ~Refused(flight.row, flight.input)
         /\ rows'[flight.row] = Updated(rows[flight.row], flight.input)
<1>. USE DEF TypedInv, SavedInv
<1>1. ASSUME flight' = flight PROVE FALSE
  BY <1>1 DEF Sent, Answered
<1>2. ASSUME flight' = None PROVE FALSE
  BY <1>2 DEF Answered
<1>3. CASE Land
  BY <1>2, <1>3 DEF Land, Tables, Sent
<1>4. CASE Submit \/ LandDelete \/ LandPartly \/ Lose \/ Finish
  BY <1>2, <1>4 DEF Submit, LandDelete, LandPartly, Lose, Finish, Sent
<1>5. ASSUME NEW r \in Rows, ToggleHost(r) \/ Delete(r) PROVE FALSE
  BY <1>5 DEF ToggleHost, Delete, Sent
<1>6. ASSUME NEW r \in Rows, OpenDialog(r) \/ EnterCard(r) \/ ChangeElsewhere(r) \/ DeleteElsewhere(r)
      PROVE  FALSE
  BY <1>1, <1>6 DEF OpenDialog, EnterCard, ChangeElsewhere, DeleteElsewhere
<1>7. CASE Type \/ ChoosePreset \/ GenerateKeys \/ KeysAnswer \/ Cancel \/ Leave
           \/ ReadList \/ ListArrives \/ FetchFails
  BY <1>1, <1>7 DEF Type, ChoosePreset, GenerateKeys, KeysAnswer, Cancel, Leave, ReadList,
                    ListArrives, FetchFails
<1>8. CASE UNCHANGED consoleVars
  BY <1>1, <1>8 DEF consoleVars
<1>. QED BY <1>3, <1>4, <1>5, <1>6, <1>7, <1>8 DEF ConsoleNext

LEMMA SaveStep ==
  ASSUME TypedInv, SavedInv, [ConsoleNext]_consoleVars, Sent, flight.what = "save", Answered',
         NEW f \in DOMAIN rows[flight.row]
  PROVE  \/ rows'[flight.row][f] = Wanted(f)
         \/ flight.form.kept \/ flight.form.of = None \/ "keys" \in flight.told
         \/ f \notin DOMAIN flight.typed /\ flight.snap[f] # rows[flight.row][f]
         \/ f \in DOMAIN flight.typed /\ flight.form.values[f] # flight.typed[f]
         \/ Lossy(flight.row, f, flight.form.values)
<1>. DEFINE r == flight.row
            row == rows[r]
            v == flight.form.values
            new == Updated(row, Input(v))
<1>1. /\ kind \in Pages /\ r \in Rows /\ Sound(row) /\ ~Refused(r, Input(v)) /\ rows'[r] = new
      /\ Shaped(flight.form) /\ Apt(v) /\ Complete(v)
      /\ Faithful(flight.form, flight.snap, flight.typed, flight.told)
      /\ DOMAIN flight.typed \subseteq Fields \ {"preset"}
      /\ kind = "user" => "name" \notin DOMAIN flight.typed
  BY SaveLands DEF TypedInv, SavedInv, Tables, Sends, SoundTables, SoundTable
<1>. SUFFICES ASSUME ~flight.form.kept, flight.form.of # None, "keys" \notin flight.told,
                     f \notin DOMAIN flight.typed => flight.snap[f] = row[f],
                     f \in DOMAIN flight.typed => v[f] = flight.typed[f],
                     ~Lossy(r, f, v)
              PROVE  new[f] = Wanted(f)
  BY <1>1
<1>2. v = [x \in Fields |-> v[x]]
  BY <1>1 DEF Shaped
<1>3. f \in RowFields
  BY <1>1 DEF Sound
<1>4. f \in Fields \ {"preset"}
  <2>1. ~(kind = "shadowsocks" /\ f = "psk") /\ ~(kind = "host" /\ f = "priority")
    BY DEF Lossy
  <2>. QED BY <1>3, <2>1 DEF RowFields
<1>5. new[f] = Stored(f, v) \/ (kind = "user" /\ f = "name" /\ new[f] = row[f])
  <2>. HIDE DEF v, row, r
  <2>. QED BY <1>1, <1>2, <1>3, <1>4, SaveStores
<1>6. CASE kind = "user" /\ f = "name" /\ new[f] = row[f]
  BY <1>1, <1>6 DEF Wanted
<1>7. CASE new[f] = Stored(f, v) /\ f \in DOMAIN flight.typed
  BY <1>7 DEF Wanted, Stored, Lists
<1>8. CASE new[f] = Stored(f, v) /\ f \notin DOMAIN flight.typed
  <2>1. v[f] = Filled(flight.snap)[f]
    <3>1. ~(kind = "xray" /\ f = "service" /\ v[f] = "GunService")
      BY DEF Lossy
    <3>. QED BY <1>1, <1>4, <1>8, <3>1 DEF Faithful
  <2>2. ~(kind = "node" /\ f = "port" /\ row.port = Null)
    BY DEF Lossy
  <2>3. Stored(f, Filled(flight.snap)) = row[f]
    <3>1. flight.snap[f] = row[f]
      BY <1>8
    <3>. HIDE DEF row, r
    <3>. QED BY <1>1, <1>3, <1>4, <2>2, <3>1, FillStores
  <2>4. Stored(f, v) = row[f]
    BY <2>1, <2>3 DEF Stored
  <2>. QED BY <1>8, <2>4 DEF Wanted
<1>. QED BY <1>5, <1>6, <1>7, <1>8

(* The dialogs (UserFormModal.tsx:437, SquadFormModal.tsx:364,              *)
(* ProfileFormModal.tsx:351 and 476, SettingsPage.tsx:579): a save that     *)
(* succeeds leaves in each field what the admin typed into it, and what was *)
(* there where nothing was typed, but for the reasons named.                *)
THEOREM SaveExplainedHolds == ConsoleSpec => SaveExplained
<1>1. ASSUME TypedInv, SavedInv, [ConsoleNext]_consoleVars
      PROVE  [Sent /\ flight.what = "save" /\ Answered' =>
                \A f \in DOMAIN rows[flight.row] :
                  \/ rows'[flight.row][f] = Wanted(f)
                  \/ flight.form.kept \/ flight.form.of = None \/ "keys" \in flight.told
                  \/ f \notin DOMAIN flight.typed /\ flight.snap[f] # rows[flight.row][f]
                  \/ f \in DOMAIN flight.typed /\ flight.form.values[f] # flight.typed[f]
                  \/ Lossy(flight.row, f, flight.form.values)]_consoleVars
  BY <1>1, SaveStep
<1>. QED
  BY <1>1, TypedStarts, TypedSteps, SavedStarts, SavedSteps, PTL DEF ConsoleSpec, SaveExplained

(* Whatever has a field in the form can be typed, but for the name of a     *)
(* user and a preset, which is chosen.                                      *)
LEMMA FieldsTyped ==
  ASSUME kind \in Pages, NEW v, NEW f \in Fields \ {"preset"}, ~(kind = "user" /\ f = "name")
  PROVE  f \in DOMAIN Typing(v)
<1>1. CASE kind \in {"user", "squad", "node", "host", "region", "srr"} \cup Cards
  BY <1>1 DEF Cards, Protocols, Typing, Fields, UserTyping, SquadTyping, NodeTyping, HostTyping,
              RegionTyping, SrrTyping, IsProfile
<1>2. CASE kind \in Protocols
  <2>1. Typing(v) = ProfileTyping(v)
    BY <1>2 DEF Protocols, Typing, IsProfile
  <2>2. DOMAIN Typing(v) = {"name", "text"} \cup DOMAIN ConfigTyping(v)
    BY <2>1 DEF ProfileTyping, Over
  <2>3. Fields \ {"preset"} \subseteq {"name", "text"} \cup DOMAIN ConfigTyping(v)
    BY <1>2 DEF Protocols, ConfigTyping, HysteriaTyping, XrayTyping, AwgTyping, NaiveTyping,
                ShadowsocksTyping, MtprotoTyping, MieruTyping, Fields
  <2>. QED BY <2>2, <2>3
<1>. QED BY <1>1, <1>2 DEF Pages

(* What is left of the types. *)
Marks ==
  /\ kind \in Kinds
  /\ fetch.at \in {"none", "asked", "read"}
  /\ told \subseteq {"keys", "hydrated"}

LEMMA MarksSteps ==
  ASSUME Marks, [ConsoleNext]_consoleVars
  PROVE  Marks'
<1>. USE DEF Marks
<1>1. ASSUME NEW r \in Rows, OpenDialog(r) \/ EnterCard(r) \/ ToggleHost(r) \/ Delete(r)
                          \/ ChangeElsewhere(r) \/ DeleteElsewhere(r)
      PROVE  Marks'
  BY <1>1 DEF OpenDialog, EnterCard, ToggleHost, Delete, ChangeElsewhere, DeleteElsewhere, Close
<1>2. CASE Type \/ ChoosePreset \/ GenerateKeys \/ KeysAnswer \/ Cancel \/ Leave \/ Submit
  BY <1>2 DEF Type, ChoosePreset, GenerateKeys, KeysAnswer, Cancel, Leave, Submit, Close
<1>3. CASE Land \/ LandDelete \/ LandPartly \/ Lose \/ Finish
  BY <1>3 DEF Land, LandDelete, LandPartly, Lose, Finish, Invalidate, Close
<1>4. CASE ReadList \/ ListArrives \/ FetchFails
  BY <1>4 DEF ReadList, ListArrives, FetchFails, Idle, Close
<1>5. CASE UNCHANGED consoleVars
  BY <1>5 DEF consoleVars
<1>. QED BY <1>1, <1>2, <1>3, <1>4, <1>5 DEF ConsoleNext

(* The bookkeeping of a page: a dialog that is open shows an object in a    *)
(* form that was filled, and nothing is typed into a closed one.            *)
THEOREM ConsoleTypeCorrect == ConsoleSpec => []ConsoleTypeOK
<1>1. ConsoleInit => Marks
  BY DEF ConsoleInit, Marks
<1>2. TypedInv /\ SavedInv /\ Marks => ConsoleTypeOK
  <2>. SUFFICES ASSUME TypedInv, SavedInv, Marks PROVE ConsoleTypeOK
    OBVIOUS
  <2>1. kind \in Pages /\ DOMAIN typed \subseteq Fields \ {"preset"}
        /\ (kind = "user" => "name" \notin DOMAIN typed)
    BY DEF TypedInv, Tables, Forms
  <2>2. DOMAIN typed \subseteq DOMAIN Typing(form.values)
    BY <2>1, FieldsTyped
  <2>. QED BY <2>2 DEF TypedInv, Forms, SavedInv, Dialogs, Marks, ConsoleTypeOK
<1>. QED
  BY <1>1, <1>2, TypedStarts, TypedSteps, SavedStarts, SavedSteps, MarksSteps, PTL DEF ConsoleSpec

------------------------------------------------------------------------------
(* The panel.  Its parts share no state, so that what each promises by      *)
(* itself holds of them together.                                           *)

(* Whatever the panel does is a behaviour of each of its parts. *)
THEOREM PartsCompose ==
  PanelSpec => /\ AdmissionSpec /\ ConsoleSpec /\ DeploySpec
               /\ SessionSpec /\ OverviewSpec /\ ProbesSpec
<1>1. PanelInit => /\ AdmissionInit /\ ConsoleInit /\ DeployInit
                   /\ SessionInit /\ OverviewInit /\ ProbesInit
  BY DEF PanelInit
<1>2. [PanelNext]_panelVars => [AdmissionNext]_admissionVars
  BY DEF PanelNext, Others, panelVars
<1>3. [PanelNext]_panelVars => [ConsoleNext]_consoleVars
  BY DEF PanelNext, Others, panelVars
<1>4. [PanelNext]_panelVars => [DeployNext]_deployVars
  BY DEF PanelNext, Others, panelVars
<1>5. [PanelNext]_panelVars => [SessionNext]_sessionVars
  BY DEF PanelNext, Others, panelVars
<1>6. [PanelNext]_panelVars => [OverviewNext]_overviewVars
  BY DEF PanelNext, Others, panelVars
<1>7. [PanelNext]_panelVars => [ProbesNext]_probesVars
  BY DEF PanelNext, Others, panelVars
<1>. QED
  BY <1>1, <1>2, <1>3, <1>4, <1>5, <1>6, <1>7, PTL
     DEF PanelSpec, AdmissionSpec, ConsoleSpec, DeploySpec, SessionSpec, OverviewSpec, ProbesSpec

(* The types of all parts, whichever of them moves. *)
THEOREM PanelTypeCorrect == PanelSpec => []PanelTypeOK
<1>1. PanelTypeOK <=> /\ AdmissionTypeOK /\ ConsoleTypeOK /\ DeployTypeOK
                      /\ SessionTypeOK /\ OverviewTypeOK /\ ProbesTypeOK
  BY DEF PanelTypeOK
<1>. QED
  BY <1>1, PartsCompose, TypeCorrect, ConsoleTypeCorrect, DeployTypeCorrect, SessionTypeCorrect,
     OverviewTypeCorrect, ProbesTypeCorrect, PTL
===============================================================================

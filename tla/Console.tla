------------------------------- MODULE Console -------------------------------
(***************************************************************************)
(* The admin's console: a page with a list read from the API, a dialog     *)
(* that edits one row of it, and the requests that save or delete the row. *)
(*                                                                         *)
(* Every page is built alike - a cached query, a dialog whose form is      *)
(* filled from the object the list held when it was opened, a mutation     *)
(* that invalidates the query - and each differs in when the form is       *)
(* filled and reset, in what the form makes of the row, and in what the    *)
(* API makes of the form.  A behaviour is about one page, its kind: users, *)
(* squads, nodes, hosts, regions, response rules, the two cards of the     *)
(* settings, or the profiles of one protocol.  Other tabs, scripts and     *)
(* timers change the rows meanwhile.                                       *)
(***************************************************************************)
EXTENDS Naturals, FiniteSets

CONSTANTS
  Rows,           \* the rows of the list
  None,           \* no row, no request, no list
  Kinds,          \* the pages looked at
  MaxEvents       \* bound: dialogs opened, fields edited, requests, changes elsewhere

Protocols == {"hysteria", "xray", "amneziawg", "naive", "shadowsocks", "mtproto", "mieru"}
Cards == {"brand", "meta"}
Pages == {"user", "squad", "node", "host", "region", "srr"} \cup Cards \cup Protocols

ASSUME ConsoleAssumption ==
  /\ IsFiniteSet(Rows) /\ Rows # {} /\ Kinds \subseteq Pages
  /\ None \notin Rows \cup [what : {"save", "toggle", "delete"}, at : {"answered"}]
  /\ "" \notin Rows
  /\ MaxEvents \in Nat

VARIABLES
  kind,        \* the page this behaviour is about
  rows,        \* the table: the fields of each row, or Gone
  cache,       \* what the page's query holds, or Unknown
  fetch,       \* the fetch of the query: [at, got]
  open,        \* the row whose dialog is open
  snap,        \* the object the dialog was opened with
  form,        \* the form: [values, of], of being the row it was filled from
  flight,      \* the request under way
  gen,         \* the form a key generation was started with
  typed,       \* history: what the admin typed in this dialog, by field
  told,        \* history: what happened to this dialog
  unseen,      \* history: a change the page was not told of
  events       \* counter of the bound

consoleVars ==
  <<kind, rows, cache, fetch, open, snap, form, flight, gen, typed, told, unseen, events>>

Null == "null"
Gone == None
Unknown == None
Nothing == [f \in {} |-> Null]

(* The fields of x, and those of y that x has not. *)
Over(x, y) == [f \in DOMAIN x \cup DOMAIN y |-> IF f \in DOMAIN x THEN x[f] ELSE y[f]]

(* A text field shows null as the empty text and stores that as null. *)
OrBlank(x) == IF x = Null THEN "" ELSE x
OrNull(x) == IF x = "" THEN Null ELSE x
Text == {"", "typed"}
Toggled(S, x) == (S \ {x}) \cup ({x} \ S)

(* An update writes the fields it is given and keeps the others. *)
Merge(row, input) == [f \in DOMAIN row |-> IF f \in DOMAIN input THEN input[f] ELSE row[f]]
NameTaken(r, name) == \E q \in Rows \ {r} : rows[q] # Gone /\ rows[q].name = name

------------------------------------------------------------------------------
(* Users.  One text stands for the description, the tag, the e-mail and    *)
(* the Telegram id.                                                        *)

UserRows(r) == [name : {r}, status : {"active", "limited"}, limit : {"1"}, text : {r},
                squads : {{"s1"}}]

UserForm(row) == [name |-> row.name, status |-> row.status, limit |-> OrBlank(row.limit),
                  text |-> OrBlank(row.text), squads |-> row.squads]
NoUser == [name |-> "", status |-> "active", limit |-> "", text |-> "", squads |-> {}]

(* The name of a user is not offered, and of the states only two are. *)
UserTyping(v) == [status |-> {"active", "disabled"}, limit |-> {"", "0", "2"},
                  text |-> Text, squads |-> {Toggled(v.squads, "s1")}]

(* MUTANT: an emptied field is sent as the empty text. *)
UserInput_Empty(v) == [status |-> v.status, limit |-> OrNull(v.limit), text |-> v.text,
                       squads |-> v.squads]
UserInput(v) == [status |-> v.status, limit |-> OrNull(v.limit), text |-> OrNull(v.text),
                 squads |-> v.squads]
UserRefused(i) == i.status \notin {"active", "disabled"} \/ i.limit = "0"

------------------------------------------------------------------------------
(* Squads. *)

SquadRows(r) == [name : {r}, text : {r}, profiles : {{"p1"}}]
SquadForm(row) == [name |-> row.name, text |-> OrBlank(row.text), profiles |-> row.profiles]
NoSquad == [name |-> "", text |-> "", profiles |-> {}]
SquadTyping(v) == [name |-> Text, text |-> Text,
                   profiles |-> {Toggled(v.profiles, p) : p \in {"p1", "p2"}}]
SquadInput(v) == [name |-> v.name, text |-> OrNull(v.text), profiles |-> v.profiles]
SquadRefused(r, i) == i.name = "" \/ NameTaken(r, i.name)

------------------------------------------------------------------------------
(* Profiles: a name, a text, and the configuration of the protocol.  An    *)
(* update replaces the whole configuration: what the form leaves out is    *)
(* gone.                                                                   *)

(* The fields of F that are not blank. *)
Given(v, F) == [f \in {g \in F : v[g] # ""} |-> v[f]]

HysteriaConfig(r) == [obfs : {r}, hopStart : {r}, hopEnd : {r}]
HysteriaForm(row) == [obfs |-> OrBlank(row.obfs), hopStart |-> OrBlank(row.hopStart),
                      hopEnd |-> OrBlank(row.hopEnd)]
HysteriaTyping == [obfs |-> Text, hopStart |-> Text, hopEnd |-> Text]
(* The two ends of the port range are stored together or not at all. *)
HysteriaInput(v) ==
  Given(v, {"obfs"} \cup (IF "" \in {v.hopStart, v.hopEnd} THEN {} ELSE {"hopStart", "hopEnd"}))

(* The keys stand for the key pair, the short ids for every list.  A       *)
(* transport the form does not offer stays until another one is chosen.    *)
XrayConfig(r) == [ids : {{"i1"}}, keys : {r}, network : {"ws"}, service : {Null}]
XrayForm(row) == [ids |-> row.ids, keys |-> row.keys, network |-> row.network,
                  service |-> OrBlank(row.service)]
XrayTyping(v) ==
  [ids |-> {{}, {"i1", "i2"}}, keys |-> Text, network |-> {"raw", "grpc"},
   service |-> IF v.network = "grpc" THEN Text ELSE {}]
(* Choosing gRPC fills in the name of its service. *)
ServiceFilled(old, v) ==
  IF v.network = "grpc" /\ old.network # "grpc" /\ v.service = ""
  THEN [v EXCEPT !.service = "GunService"] ELSE v
XrayInput(v) ==
  Over([ids |-> v.ids, keys |-> v.keys, network |-> v.network], Given(v, {"service"}))

(* h1 and h2 stand for the four headers, s3 for the numbers.               *)
AwgConfig(r) == [keys : {r}, s3 : {"0"}, h1 : {r}, h2 : {r}]
AwgForm(row) == [preset |-> "custom", keys |-> row.keys, s3 |-> row.s3, h1 |-> row.h1,
                 h2 |-> row.h2]
AwgTyping == [keys |-> Text, s3 |-> {"", "8"}, h1 |-> Text, h2 |-> Text]
(* A preset rolls new headers; "custom" does so only when all are blank. *)
Preset(v, p) ==
  IF p # "custom" THEN [v EXCEPT !.preset = p, !.s3 = "0", !.h1 = "rolled", !.h2 = "rolled"]
  ELSE IF v.h1 = "" /\ v.h2 = "" THEN [v EXCEPT !.preset = p, !.h1 = "rolled", !.h2 = "rolled"]
  ELSE [v EXCEPT !.preset = p]
AwgInput(v) == [keys |-> v.keys, s3 |-> IF v.s3 = "" THEN "32" ELSE v.s3,
                h1 |-> IF v.h1 = "" THEN "0" ELSE v.h1, h2 |-> IF v.h2 = "" THEN "0" ELSE v.h2]

NaiveConfig(r) == [host : {r}, root : {r}]
NaiveTyping == [host |-> Text, root |-> Text]

(* The form knows no server key. *)
ShadowsocksConfig(r) == [method : {"aes256"}, psk : {r}]
ShadowsocksTyping == [method |-> {"aes128", "aes256"}]

MtprotoTyping == [domain |-> Text]
MieruTyping == [mtu |-> {"", "1280"}]
MieruInput(v) == [mtu |-> IF v.mtu = "" THEN "1400" ELSE v.mtu]

ConfigRows(r) ==
  CASE kind = "hysteria" -> HysteriaConfig(r)
    [] kind = "xray" -> XrayConfig(r)
    [] kind = "amneziawg" -> AwgConfig(r)
    [] kind = "naive" -> NaiveConfig(r)
    [] kind = "shadowsocks" -> ShadowsocksConfig(r)
    [] kind = "mtproto" -> [domain : {r}]
    [] kind = "mieru" -> [mtu : {"1400"}]
ProfileRows(r) == {Over([name |-> r, text |-> r], c) : c \in ConfigRows(r)}

ConfigForm(row) ==
  CASE kind = "hysteria" -> HysteriaForm(row)
    [] kind = "xray" -> XrayForm(row)
    [] kind = "amneziawg" -> AwgForm(row)
    [] kind = "naive" -> [host |-> row.host, root |-> row.root]
    [] kind = "shadowsocks" -> [method |-> row.method]
    [] kind = "mtproto" -> [domain |-> row.domain]
    [] kind = "mieru" -> [mtu |-> row.mtu]
ProfileForm(row) == Over([name |-> row.name, text |-> OrBlank(row.text)], ConfigForm(row))

ConfigTyping(v) ==
  CASE kind = "hysteria" -> HysteriaTyping
    [] kind = "xray" -> XrayTyping(v)
    [] kind = "amneziawg" -> AwgTyping
    [] kind = "naive" -> NaiveTyping
    [] kind = "shadowsocks" -> ShadowsocksTyping
    [] kind = "mtproto" -> MtprotoTyping
    [] kind = "mieru" -> MieruTyping
ProfileTyping(v) == Over([name |-> Text, text |-> Text], ConfigTyping(v))

ConfigInput(v) ==
  CASE kind = "hysteria" -> HysteriaInput(v)
    [] kind = "xray" -> XrayInput(v)
    [] kind = "amneziawg" -> AwgInput(v)
    [] kind = "naive" -> [host |-> v.host, root |-> v.root]
    [] kind = "shadowsocks" -> [method |-> v.method]
    [] kind = "mtproto" -> [domain |-> v.domain]
    [] kind = "mieru" -> MieruInput(v)
ProfileInput(v) == Over([name |-> v.name, text |-> OrNull(v.text)], ConfigInput(v))
ProfileUpdate(row, i) == [f \in DOMAIN row |-> IF f \in DOMAIN i THEN i[f] ELSE Null]

(* What the schema of the protocol says no to. *)
ConfigRefused(i) ==
  CASE kind = "xray" -> i.ids = {}
    [] kind = "amneziawg" -> "0" \in {i.h1, i.h2}
    [] kind = "naive" -> i.root = ""
    [] OTHER -> FALSE
ProfileRefused(r, i) == NameTaken(r, i.name) \/ ConfigRefused(i)

------------------------------------------------------------------------------
(* Nodes.  An address may have been registered without a port.             *)

DefaultPort == "8443"
NodeRows(r) == [name : {r}, host : {r}, port : {Null, "9000"}, factor : {"2"}, text : {r}]
SplitAddress(row) == [host |-> row.host, port |-> IF row.port = Null THEN DefaultPort ELSE row.port]
NodeForm(row) ==
  Over([name |-> row.name, factor |-> row.factor, text |-> OrBlank(row.text)], SplitAddress(row))
NodeTyping == [name |-> Text, host |-> Text, port |-> {"", "7000"},
               factor |-> {"", "0.5"}, text |-> Text]
NodeInput(v) == [name |-> v.name, host |-> v.host, port |-> IF v.port = "" THEN DefaultPort ELSE v.port,
                 factor |-> IF v.factor = "" THEN "1" ELSE v.factor, text |-> OrNull(v.text)]
NodeRefused(r, i) ==
  \/ i.name = "" \/ i.host = "" \/ i.factor = "0.5"
  \/ NameTaken(r, i.name)
  \/ \E q \in Rows \ {r} : rows[q] # Gone /\ rows[q].host = i.host /\ rows[q].port = i.port

------------------------------------------------------------------------------
(* Hosts of a binding.  The form has no priority, and the schema of an     *)
(* update is that of a creation made partial: a field left out takes its   *)
(* default.                                                                *)

HostRows(r) == [name : {r}, priority : {"1"}, enabled : {TRUE}, text : {r}, layer : {"tls"}]
HostForm(row) == [name |-> row.name, enabled |-> row.enabled, text |-> OrBlank(row.text),
                  layer |-> row.layer]
HostTyping == [name |-> Text, enabled |-> BOOLEAN, text |-> Text, layer |-> {"default", "none"}]
HostInput(v) == [name |-> v.name, enabled |-> v.enabled, text |-> OrNull(v.text), layer |-> v.layer]
HostDefaults == [name |-> "Default", priority |-> "0", enabled |-> TRUE, layer |-> "default"]
HostUpdate(row, i) == Merge(row, Over(i, HostDefaults))

------------------------------------------------------------------------------
(* Regions, subscription response rules, and the two cards of the settings. *)

RegionForm(row) == [name |-> row.name, code |-> row.code]
RegionTyping == [name |-> Text, code |-> Text]
RegionRefused(r, i) == i.name = "" \/ i.code = "" \/ NameTaken(r, i.name)

SrrForm(row) == [name |-> row.name, pattern |-> row.pattern, priority |-> row.priority]
NoRule == [name |-> "", pattern |-> "", priority |-> "100"]
SrrTyping == [name |-> Text, pattern |-> Text, priority |-> {"", "100"}]
(* A blank priority is left out of the request. *)
SrrInput(v) == Over([name |-> v.name, pattern |-> v.pattern], Given(v, {"priority"}))
SrrRefused(r, i) == i.name = "" \/ i.pattern = "" \/ NameTaken(r, i.name)

BrandInput(v) == [name |-> IF v.name = "" THEN "Ice-Panel" ELSE v.name]
MetaForm(row) == [name |-> OrBlank(row.name), hours |-> row.hours]
NoMeta == [name |-> "", hours |-> "24"]
MetaInput(v) == [name |-> OrNull(v.name), hours |-> IF v.hours = "" THEN "24" ELSE v.hours]

------------------------------------------------------------------------------
(* The page: what its form, its inputs and its API do. *)

IsProfile == kind \in Protocols

InitialRows(r) ==
  CASE kind = "user" -> UserRows(r)
    [] kind = "squad" -> SquadRows(r)
    [] IsProfile -> ProfileRows(r)
    [] kind = "node" -> NodeRows(r)
    [] kind = "host" -> HostRows(r)
    [] kind = "region" -> [name : {r}, code : {r}]
    [] kind = "srr" -> [name : {r}, pattern : {r}, priority : {"10"}]
    [] kind = "brand" -> [name : {r}]
    [] kind = "meta" -> [name : {r}, hours : {"12"}]

Filled(row) ==
  CASE kind = "user" -> UserForm(row)
    [] kind = "squad" -> SquadForm(row)
    [] IsProfile -> ProfileForm(row)
    [] kind = "node" -> NodeForm(row)
    [] kind = "host" -> HostForm(row)
    [] kind = "region" -> RegionForm(row)
    [] kind = "srr" -> SrrForm(row)
    [] kind = "brand" -> [name |-> row.name]
    [] kind = "meta" -> MetaForm(row)

(* What reset() leaves, for the forms that look at it before they are      *)
(* filled; the others are filled whenever they open.                       *)
Blank ==
  CASE kind = "user" -> NoUser
    [] kind = "squad" -> NoSquad
    [] kind = "srr" -> NoRule
    [] kind = "brand" -> [name |-> ""]
    [] kind = "meta" -> NoMeta
    [] OTHER -> Nothing

Typing(v) ==
  CASE kind = "user" -> UserTyping(v)
    [] kind = "squad" -> SquadTyping(v)
    [] IsProfile -> ProfileTyping(v)
    [] kind = "node" -> NodeTyping
    [] kind = "host" -> HostTyping
    [] kind = "region" -> RegionTyping
    [] kind = "srr" -> SrrTyping
    [] kind = "brand" -> [name |-> Text]
    [] kind = "meta" -> [name |-> Text, hours |-> {"", "48"}]

Input(v) ==
  CASE kind = "user" -> UserInput(v)
    [] kind = "squad" -> SquadInput(v)
    [] IsProfile -> ProfileInput(v)
    [] kind = "node" -> NodeInput(v)
    [] kind = "host" -> HostInput(v)
    [] kind = "region" -> v
    [] kind = "srr" -> SrrInput(v)
    [] kind = "brand" -> BrandInput(v)
    [] kind = "meta" -> MetaInput(v)

Refused(r, i) ==
  CASE kind = "user" -> UserRefused(i)
    [] kind = "squad" -> SquadRefused(r, i)
    [] IsProfile -> ProfileRefused(r, i)
    [] kind = "node" -> NodeRefused(r, i)
    [] kind = "region" -> RegionRefused(r, i)
    [] kind = "srr" -> SrrRefused(r, i)
    [] OTHER -> FALSE

Updated(row, i) ==
  CASE IsProfile -> ProfileUpdate(row, i)
    [] kind = "host" -> HostUpdate(row, i)
    [] OTHER -> Merge(row, i)

(* What the dialog itself demands: required inputs and validators. *)
Complete(v) ==
  CASE kind \in {"squad", "host", "hysteria", "shadowsocks", "mieru"} -> v.name # ""
    [] kind = "srr" -> v.name # "" /\ v.pattern # ""
    [] kind = "xray" -> v.name # "" /\ v.keys # "" /\ (v.network = "grpc" => v.service # "")
    [] kind = "amneziawg" -> v.name # "" /\ v.keys # ""
    [] kind = "naive" -> v.name # "" /\ v.host # ""
    [] kind = "mtproto" -> v.name # "" /\ v.domain # ""
    [] OTHER -> TRUE

------------------------------------------------------------------------------
(* The form. *)

IsCard == kind \in Cards
FillsOnOpen == IsProfile \/ kind \in {"node", "host", "region"}
NoForm == [values |-> Blank, of |-> None, kept |-> FALSE]
Fill(r, row) == [values |-> Filled(row), of |-> r, kept |-> FALSE]

(* MUTANT: the form is filled each time. *)
UserDrawn_Always(f, r, row) == Fill(r, row)

(* What a dialog that is open does to its form each time it is drawn. *)
UserDrawn(f, r, row) == IF f.values.name = "" THEN Fill(r, row) ELSE f
SquadDrawn(f, r, row) == IF f.values.name # row.name THEN Fill(r, row) ELSE f
SrrDrawn(f, r, row) ==
  IF f.values.name = "" /\ f.values.pattern = "" THEN Fill(r, row) ELSE f
Drawn(f, r, row) ==
  CASE kind = "user" -> UserDrawn(f, r, row)
    [] kind = "squad" -> SquadDrawn(f, r, row)
    [] kind = "srr" -> SrrDrawn(f, r, row)
    [] OTHER -> f

(* A card takes its values from the query once they are there: the brand   *)
(* whenever its field is blank, the other card once.                       *)
BrandHydrates(f) == f.values.name = ""
MetaHydrates(f) == f.of = None
Hydrates(f) == (kind = "brand" /\ BrandHydrates(f)) \/ (kind = "meta" /\ MetaHydrates(f))

Count == events < MaxEvents /\ events' = events + 1

OpenDialog(r) ==
  /\ ~IsCard /\ cache # Unknown /\ cache[r] # Gone
  /\ open = None \/ (kind = "region" /\ open # r)
  /\ Count
  /\ open' = r /\ snap' = cache[r]
  /\ form' = IF FillsOnOpen THEN Fill(r, cache[r]) ELSE Drawn(form, r, cache[r])
  /\ typed' = Nothing /\ told' = {}
  /\ UNCHANGED <<kind, rows, cache, fetch, flight, gen, unseen>>

(* The settings page is entered: its cards start blank. *)
EnterCard(r) ==
  /\ IsCard /\ open = None /\ rows[r] # Gone
  /\ Count
  /\ open' = r
  /\ IF cache = Unknown THEN form' = NoForm /\ snap' = None
                        ELSE form' = Fill(r, cache[r]) /\ snap' = cache[r]
  /\ typed' = Nothing /\ told' = {}
  /\ UNCHANGED <<kind, rows, cache, fetch, flight, gen, unseen>>

Type ==
  /\ open # None /\ Count
  /\ \E f \in DOMAIN Typing(form.values) :
       \E x \in Typing(form.values)[f] \ {form.values[f]} :
         LET put == [form.values EXCEPT ![f] = x]
             now == IF kind = "xray" THEN ServiceFilled(form.values, put) ELSE put
         IN /\ form' = Drawn([form EXCEPT !.values = now], open, snap)
            /\ typed' = Over([g \in {f} |-> x], typed)
  /\ UNCHANGED <<kind, rows, cache, fetch, open, snap, flight, gen, told, unseen>>

(* A preset is chosen: what it overwrites is as good as typed. *)
ChoosePreset ==
  /\ kind = "amneziawg" /\ open # None /\ Count
  /\ \E p \in {"tspu", "custom"} :
       LET now == Preset(form.values, p)
           changed == {f \in DOMAIN now \ {"preset"} : now[f] # form.values[f]}
       IN /\ form' = [form EXCEPT !.values = now]
          /\ typed' = Over([f \in changed |-> now[f]], typed)
  /\ UNCHANGED <<kind, rows, cache, fetch, open, snap, flight, gen, told, unseen>>

(* A key pair is asked of the API, and the answer is put into the form as  *)
(* it was when the button was pressed, whatever dialog shows by then.      *)
GenerateKeys ==
  /\ kind \in {"xray", "amneziawg"} /\ open # None /\ gen = None
  /\ Count
  /\ gen' = form
  /\ UNCHANGED <<kind, rows, cache, fetch, open, snap, form, flight, typed, told, unseen>>

KeysAnswer ==
  /\ gen # None /\ gen' = None
  /\ \/ UNCHANGED <<form, typed, told>>
     \/ open = None /\ UNCHANGED <<form, typed, told>>
     \/ /\ open # None
        /\ form' = [gen EXCEPT !.values.keys = "fresh"]
        /\ typed' = Over([keys |-> "fresh"], typed)
        /\ told' = IF gen # form THEN told \cup {"keys"} ELSE told
  /\ UNCHANGED <<kind, rows, cache, fetch, open, snap, flight, unseen, events>>

(* A dialog closes. Only the forms that look before they fill keep         *)
(* anything that matters: with Cancel those of the users and the squads do. *)
Close(kept) ==
  /\ open' = None /\ snap' = None
  /\ form' = IF kept THEN [form EXCEPT !.kept = TRUE] ELSE NoForm
  /\ typed' = Nothing /\ told' = {}

Saving == flight # None /\ flight.what = "save"

Cancel ==
  /\ open # None /\ kind \notin {"srr"} \cup Cards
  /\ kind \in {"node", "host", "region"} \/ ~Saving
  /\ Close(kind \in {"user", "squad"})
  /\ UNCHANGED <<kind, rows, cache, fetch, flight, gen, unseen, events>>

(* The cross of the dialog, which resets the form; or the card is left. *)
Leave ==
  /\ open # None /\ kind # "region"
  /\ Close(FALSE)
  /\ UNCHANGED <<kind, rows, cache, fetch, flight, gen, unseen, events>>

------------------------------------------------------------------------------
(* The requests. *)

Request(what, r, input) ==
  [what |-> what, at |-> "sent", row |-> r, input |-> input, form |-> form, snap |-> snap,
   typed |-> typed, told |-> told]
Loading == cache = Unknown /\ fetch.at # "none"

Submit ==
  /\ open # None /\ flight = None /\ Count
  /\ Complete(form.values) /\ ~(IsCard /\ Loading)
  /\ flight' = Request("save", open, Input(form.values))
  /\ UNCHANGED <<kind, rows, cache, fetch, open, snap, form, gen, typed, told, unseen>>

(* The switch in a host's line sends one field. *)
ToggleHost(r) ==
  /\ kind = "host" /\ open = None /\ cache # Unknown /\ cache[r] # Gone
  /\ flight = None /\ Count
  /\ flight' = Request("toggle", r, [enabled |-> ~cache[r].enabled])
  /\ UNCHANGED <<kind, rows, cache, fetch, open, snap, form, gen, typed, told, unseen>>

(* Deletion is asked from the list, for a node from its dialog. *)
Delete(r) ==
  /\ ~IsCard /\ cache # Unknown /\ cache[r] # Gone
  /\ open = None \/ (kind = "node" /\ open = r) \/ (kind = "region" /\ open # r)
  /\ flight = None /\ Count
  /\ flight' = Request("delete", r, Nothing)
  /\ IF kind = "node" THEN Close(FALSE) ELSE UNCHANGED <<open, snap, form, typed, told>>
  /\ UNCHANGED <<kind, rows, cache, fetch, gen, unseen>>

Done == [what |-> flight.what, at |-> "answered"]
Sent == flight # None /\ flight.at = "sent"
Answered == flight # None /\ flight.at = "answered"

(* The API writes the row, or says no and the page shows why. *)
Land ==
  /\ Sent /\ flight.what # "delete"
  /\ IF rows[flight.row] = Gone \/ (flight.what = "save" /\ Refused(flight.row, flight.input))
     THEN flight' = None /\ UNCHANGED rows
     ELSE /\ rows' = [rows EXCEPT ![flight.row] = Updated(@, flight.input)]
          /\ flight' = Done
  /\ UNCHANGED <<kind, cache, fetch, open, snap, form, gen, typed, told, unseen, events>>

LandDelete ==
  /\ Sent /\ flight.what = "delete"
  /\ IF rows[flight.row] = Gone
     THEN flight' = None /\ UNCHANGED rows
     ELSE /\ rows' = [rows EXCEPT ![flight.row] = Gone]
          /\ flight' = Done
  /\ UNCHANGED <<kind, cache, fetch, open, snap, form, gen, typed, told, unseen, events>>

(* The settings are written key by key: an error leaves the first ones. *)
LandPartly ==
  /\ Sent /\ kind = "meta"
  /\ rows' = [rows EXCEPT ![flight.row].name = flight.input.name]
  /\ flight' = None /\ unseen' = TRUE
  /\ UNCHANGED <<kind, cache, fetch, open, snap, form, gen, typed, told, events>>

(* The request or its answer is lost: the page shows an error and asks for *)
(* nothing.                                                                *)
Lose ==
  /\ flight # None
  /\ flight' = None /\ unseen' = (unseen \/ Answered)
  /\ UNCHANGED <<kind, rows, cache, fetch, open, snap, form, gen, typed, told, events>>

(* Invalidation: a fetch under way is dropped for a new one. *)
(* MUTANT: the mutation does not invalidate the list. *)
Invalidate_Never == UNCHANGED fetch
Invalidate == fetch' = [at |-> "asked", got |-> Unknown]

(* The answer of a save closes the dialog that is open by then, whichever  *)
(* row it shows.                                                           *)
Finish ==
  /\ Answered /\ flight' = None
  /\ Invalidate
  /\ IF flight.what = "delete" \/ IsCard \/ open = None
     THEN UNCHANGED <<open, snap, form, typed, told>>
     ELSE Close(FALSE)
  /\ UNCHANGED <<kind, rows, cache, gen, unseen, events>>

------------------------------------------------------------------------------
(* The query: fetched when the page is entered, looked at again or told. *)

(* A fetch nobody waits for begins where the API reads the table. *)
ReadList ==
  /\ fetch.at \in {"none", "asked"} /\ fetch' = [at |-> "read", got |-> rows]
  /\ UNCHANGED <<kind, rows, cache, open, snap, form, flight, gen, typed, told, unseen, events>>

Idle == [at |-> "none", got |-> Unknown]

(* The list arrives. It fills a card that waits for it, and takes away the *)
(* line of a region that is being edited and no longer there.              *)
ListArrives ==
  /\ fetch.at = "read" /\ fetch' = Idle
  /\ cache' = fetch.got
  /\ unseen' = (unseen /\ fetch.got # rows)
  /\ \/ /\ open # None /\ Hydrates(form)
        /\ form' = Fill(open, fetch.got[open]) /\ snap' = fetch.got[open]
        /\ told' = IF DOMAIN typed # {} THEN told \cup {"hydrated"} ELSE told
        /\ UNCHANGED <<open, typed>>
     \/ kind = "region" /\ open # None /\ fetch.got[open] = Gone /\ Close(FALSE)
     \/ /\ ~(open # None /\ Hydrates(form))
        /\ ~(kind = "region" /\ open # None /\ fetch.got[open] = Gone)
        /\ UNCHANGED <<open, snap, form, typed, told>>
  /\ UNCHANGED <<kind, rows, flight, gen, events>>

FetchFails ==
  /\ fetch.at # "none" /\ fetch' = Idle
  /\ unseen' = TRUE
  /\ UNCHANGED <<kind, rows, cache, open, snap, form, flight, gen, typed, told, events>>

------------------------------------------------------------------------------
(* Elsewhere: another tab, a script with a token, a timer of the back end. *)

Theirs == [name |-> "theirs", text |-> "theirs", status |-> "limited", priority |-> "5"]

ChangeElsewhere(r) ==
  /\ rows[r] # Gone /\ Count
  /\ \E f \in (DOMAIN Theirs \cap DOMAIN rows[r]) \ (IF kind = "user" THEN {"name"} ELSE {}) :
       /\ f = "name" => ~NameTaken(r, "theirs")
       /\ rows' = [rows EXCEPT ![r][f] = Theirs[f]]
  /\ unseen' = TRUE
  /\ UNCHANGED <<kind, cache, fetch, open, snap, form, flight, gen, typed, told>>

DeleteElsewhere(r) ==
  /\ ~IsCard /\ rows[r] # Gone /\ Count
  /\ rows' = [rows EXCEPT ![r] = Gone]
  /\ unseen' = TRUE
  /\ UNCHANGED <<kind, cache, fetch, open, snap, form, flight, gen, typed, told>>

------------------------------------------------------------------------------
ConsoleInit ==
  /\ kind \in Kinds
  /\ rows \in {t \in [Rows -> UNION {InitialRows(r) : r \in Rows} \cup {Gone}] :
                 /\ \A r \in Rows : t[r] \in InitialRows(r) \cup (IF IsCard THEN {Gone} ELSE {})
                 /\ IsCard => Cardinality({r \in Rows : t[r] # Gone}) = 1}
  /\ cache = Unknown
  /\ fetch = [at |-> "asked", got |-> Unknown]
  /\ open = None /\ snap = None
  /\ form = NoForm
  /\ flight = None /\ gen = None
  /\ typed = Nothing /\ told = {} /\ unseen = FALSE
  /\ events = 0

ConsoleNext ==
  \/ \E r \in Rows :
       \/ OpenDialog(r) \/ EnterCard(r)
       \/ ToggleHost(r) \/ Delete(r)
       \/ ChangeElsewhere(r) \/ DeleteElsewhere(r)
  \/ Type \/ ChoosePreset \/ GenerateKeys \/ KeysAnswer
  \/ Cancel \/ Leave \/ Submit
  \/ Land \/ LandDelete \/ LandPartly \/ Lose \/ Finish
  \/ ReadList \/ ListArrives \/ FetchFails

ConsoleSpec == ConsoleInit /\ [][ConsoleNext]_consoleVars

------------------------------------------------------------------------------
(* The bookkeeping of a page: a form is filled from a row of the list, a   *)
(* dialog has an object to show unless it is a card that waits for one,    *)
(* and nothing is typed into a closed dialog.                              *)
ConsoleTypeOK ==
  /\ kind \in Kinds
  /\ open \in Rows \cup {None} /\ form.of \in Rows \cup {None}
  /\ open = None => snap = None /\ DOMAIN typed = {}
  /\ open # None /\ ~IsCard => snap # None /\ form.of # None
  /\ DOMAIN typed # {} => DOMAIN typed \subseteq DOMAIN Typing(form.values) \cup {"service"}
  /\ fetch.at \in {"none", "asked", "read"}
  /\ told \subseteq {"keys", "hydrated"}

(* Fields that a form cannot give back as it got them. *)
Lossy(r, f, v) ==
  \/ kind = "shadowsocks" /\ f = "psk"
  \/ kind = "host" /\ f = "priority"
  \/ kind = "node" /\ f = "port" /\ (v.port = "" \/ rows[r].port = Null)
  \/ kind = "node" /\ f = "factor" /\ v.factor = ""
  \/ kind = "hysteria" /\ f \in {"hopStart", "hopEnd"} /\ "" \in {v.hopStart, v.hopEnd}
  \/ kind = "xray" /\ f = "service" /\ v.service = "GunService"
  \/ kind = "mieru" /\ f = "mtu" /\ v.mtu = ""
  \/ kind = "amneziawg" /\ f = "s3" /\ v.s3 = ""
  \/ kind = "srr" /\ f = "priority" /\ v.priority = ""
  \/ kind = "brand" /\ v.name = ""
  \/ kind = "meta" /\ f = "hours" /\ v.hours = ""

(* What a save that succeeds leaves in a field: what the admin typed into  *)
(* this dialog, and what was there where nothing was typed.                *)
Wanted(f) ==
  IF f \notin DOMAIN flight.typed THEN rows[flight.row][f]
  ELSE IF f \in {"squads", "profiles", "ids", "enabled"} THEN flight.typed[f]
  ELSE OrNull(flight.typed[f])

(* The dialogs (UserFormModal.tsx:437, SquadFormModal.tsx:364,             *)
(* ProfileFormModal.tsx:351 and 476, SettingsPage.tsx:579): a save that    *)
(* succeeds does anything else to a field of the row only if the form was  *)
(* still the one a cancelled dialog left, or was never filled, or was      *)
(* overwritten by a key generation; if the admin had not touched the field *)
(* and it changed elsewhere after the dialog's object was read; if the     *)
(* form had already lost what was typed; or if the form cannot carry the   *)
(* field.                                                                  *)
SaveExplained ==
  [][Sent /\ flight.what = "save" /\ Answered' =>
       \A f \in DOMAIN rows[flight.row] :
         \/ rows'[flight.row][f] = Wanted(f)
         \/ flight.form.kept \/ flight.form.of = None \/ "keys" \in flight.told
         \/ f \notin DOMAIN flight.typed /\ flight.snap[f] # rows[flight.row][f]
         \/ f \in DOMAIN flight.typed /\ flight.form.values[f] # flight.typed[f]
         \/ Lossy(flight.row, f, flight.form.values)]_consoleVars

(* Nothing typed is lost while its dialog is open (SquadFormModal.tsx:100, *)
(* SrrFormModal.tsx:67, SettingsPage.tsx:486 and 579,                      *)
(* ProfileFormModal.tsx:332 and 351), whatever is fetched, changed         *)
(* elsewhere or answered meanwhile: unless a squad's name was typed, a     *)
(* rule's name and pattern were both blank, a card was filled late, the    *)
(* name of a gRPC service was blank, or a key generation answered.         *)
TypingExplained ==
  open # None =>
    \A f \in DOMAIN typed :
      \/ form.values[f] = typed[f]
      \/ kind = "squad" /\ "name" \in DOMAIN typed
      \/ kind = "srr" /\ {"name", "pattern"} \subseteq DOMAIN typed
      \/ told # {}
      \/ kind = "xray" /\ f = "service" /\ typed[f] = ""

(* The list (invalidateQueries after each mutation, e.g. UsersPage.tsx:282): *)
(* the page shows what the table holds once nothing is under way, unless a  *)
(* change was made elsewhere, an answer or a fetch was lost, or a save of   *)
(* the settings stopped half way.                                           *)
ListExplained ==
  cache = rows \/ cache = Unknown \/ unseen \/ fetch.at # "none" \/ Answered
==============================================================================

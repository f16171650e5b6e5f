------------------------------- MODULE Session -------------------------------
(***************************************************************************)
(* The administrator's session: the tabs of one browser with the token     *)
(* each holds in memory, the copy they share in local storage, and the     *)
(* requests between a tab and the panel, which answers them behind its     *)
(* gate, its limits and its authentication hook.                           *)
(*                                                                         *)
(* A tab reads the shared copy when it is loaded and never again, and an   *)
(* answer is taken with the session the tab has by then, which need not be *)
(* the one the request was sent with.                                      *)
(***************************************************************************)
EXTENDS Integers

CONSTANTS
  Tabs,        \* tabs of the browser
  MaxTokens,   \* bound: tokens the panel issues
  MaxMoves     \* bound: moves of the administrator and of the world

ASSUME SessionAssumption == MaxTokens \in Nat /\ MaxMoves \in Nat

VARIABLES
  admin,       \* an administrator is registered
  issued,      \* the tokens issued are 1..issued
  lapsed,      \* those that have expired, or whose administrator is gone
  stored,      \* the token in local storage
  view,        \* of each tab: the page, the token in memory, the status it has
  line,        \* of each tab: its query, its sign-in and its look at the status
  door,        \* what the gate thinks of the browser's address
  moves        \* counter of the bound

sessionVars == <<admin, issued, lapsed, stored, view, line, door, moves>>

NoToken == 0
Lines == {"query", "sign", "status"}
Asks == {"query", "status", "register", "login"}
Codes == {"ok", "created", "open", "closed", "unauthorized", "forbidden"}
Live == 1..issued \ lapsed

Quiet == [at |-> "quiet", asks |-> "query", token |-> NoToken, right |-> FALSE,
          code |-> "ok", gift |-> NoToken]

(* The interceptor attaches the token the tab has when it sends; it is     *)
(* kept for the queries, the only ones to be asked for it.                 *)
Asked(asks, token, right) ==
  [Quiet EXCEPT !.at = "sent", !.asks = asks, !.token = token, !.right = right]

Move == moves < MaxMoves /\ moves' = moves + 1
Waits(t, l) == line[t][l].at = "sent"
Comes(t, l) == line[t][l].at = "answered"

------------------------------------------------------------------------------
(* The panel's side of a request. *)

Respond(t, l, code, gift) ==
  line' = [line EXCEPT ![t][l].at = "answered", ![t][l].code = code, ![t][l].gift = gift]

(* A listed address is refused everywhere, one from abroad everywhere but  *)
(* at the public paths.                                                    *)
Barred(asks) == door = "listed" \/ (door = "abroad" /\ asks # "status")

TurnAway(t, l) ==
  /\ Waits(t, l) /\ Barred(line[t][l].asks)
  /\ Respond(t, l, "forbidden", NoToken)
  /\ UNCHANGED <<admin, issued, lapsed, stored, view, door, moves>>

LetIn(t, l, asks) == Waits(t, l) /\ line[t][l].asks = asks /\ ~Barred(asks)

(* requireAuth, then any handler. *)
HandleQuery(t) ==
  /\ LetIn(t, "query", "query")
  /\ Respond(t, "query", IF line[t]["query"].token \in Live THEN "ok" ELSE "unauthorized",
            NoToken)
  /\ UNCHANGED <<admin, issued, lapsed, stored, view, door, moves>>

HandleStatus(t) ==
  /\ LetIn(t, "status", "status")
  /\ Respond(t, "status", IF admin THEN "closed" ELSE "open", NoToken)
  /\ UNCHANGED <<admin, issued, lapsed, stored, view, door, moves>>

(* Registration is open while there is no administrator; how two of them   *)
(* overlap is told by Admission.                                           *)
HandleRegister(t) ==
  /\ LetIn(t, "sign", "register")
  /\ Respond(t, "sign", IF admin THEN "forbidden" ELSE "created", NoToken)
  /\ admin' = TRUE
  /\ UNCHANGED <<issued, lapsed, stored, view, door, moves>>

HandleLogin(t) ==
  /\ LetIn(t, "sign", "login")
  /\ IF admin /\ line[t]["sign"].right
     THEN /\ issued < MaxTokens /\ issued' = issued + 1
          /\ Respond(t, "sign", "ok", issued')
     ELSE /\ Respond(t, "sign", "unauthorized", NoToken)
          /\ UNCHANGED issued
  /\ UNCHANGED <<admin, lapsed, stored, view, door, moves>>

------------------------------------------------------------------------------
(* The browser's side. *)

(* The sign-in page asks for the status when it is mounted, once for all   *)
(* who ask at the time; what is not known is loading as long as it is asked. *)
Looking(t) == IF line[t]["status"] = Quiet THEN Asked("status", NoToken, FALSE)
              ELSE line[t]["status"]
Expecting(status) == IF status = "unknown" THEN "loading" ELSE status
ToLogin(v) == [v EXCEPT !.token = NoToken, !.page = "login",
                 !.status = IF v.page = "app" THEN Expecting(@) ELSE @]

(* clearSession: the store writes through to local storage, and without a  *)
(* token every page but the sign-in gives way to it.                       *)
Clear(t, l) ==
  /\ stored' = NoToken
  /\ view' = [view EXCEPT ![t] = ToLogin(@)]
  /\ line' = [line EXCEPT ![t] = [@ EXCEPT ![l] = Quiet,
                ![IF view[t].page = "app" THEN "status" ELSE l] =
                  IF view[t].page = "app" THEN Looking(t) ELSE Quiet]]

(* MUTANT: a refusal at the gate clears the session too. *)
EndsSession_Any(code) == code \in {"unauthorized", "forbidden"}
EndsSession(code) == code = "unauthorized"

Hang(t, l) == line' = [line EXCEPT ![t][l] = Quiet]

(* The token of the answered request is not looked at. *)
ReceiveQuery(t) ==
  /\ Comes(t, "query")
  /\ IF EndsSession(line[t]["query"].code) THEN Clear(t, "query")
     ELSE Hang(t, "query") /\ UNCHANGED <<stored, view>>
  /\ UNCHANGED <<admin, issued, lapsed, door, moves>>

(* A failed look leaves what was known. *)
Learned(old, code) == CASE code \in {"open", "closed"} -> code
                        [] code \notin {"open", "closed"} /\ old = "loading" -> "unknown"
                        [] OTHER -> old

ReceiveStatus(t) ==
  /\ Comes(t, "status")
  /\ view' = [view EXCEPT ![t].status = Learned(@, line[t]["status"].code)]
  /\ Hang(t, "status")
  /\ UNCHANGED <<admin, issued, lapsed, stored, door, moves>>

(* One mutation registers, when the page believes it can, and then signs   *)
(* in with the same words.                                                 *)
GoOn(t) ==
  /\ Comes(t, "sign") /\ line[t]["sign"].code = "created"
  /\ line' = [line EXCEPT ![t]["sign"] = Asked("login", NoToken, TRUE)]
  /\ UNCHANGED <<admin, issued, lapsed, stored, view, door, moves>>

SignIn(t) ==
  /\ Comes(t, "sign") /\ line[t]["sign"].code = "ok"
  /\ stored' = line[t]["sign"].gift
  /\ view' = [view EXCEPT ![t].token = line[t]["sign"].gift, ![t].page = "app"]
  /\ Hang(t, "sign")
  /\ UNCHANGED <<admin, issued, lapsed, door, moves>>

(* A wrong password is a 401 like any other to the interceptor. *)
SignInFails(t) ==
  /\ Comes(t, "sign") /\ line[t]["sign"].code \notin {"ok", "created"}
  /\ IF EndsSession(line[t]["sign"].code) THEN Clear(t, "sign")
     ELSE Hang(t, "sign") /\ UNCHANGED <<stored, view>>
  /\ UNCHANGED <<admin, issued, lapsed, door, moves>>

(* A request or its answer is lost, or is over a limit, or the panel fails *)
(* at it: what it did before stays done.                                   *)
LoseRequest(t, l) ==
  /\ Waits(t, l) \/ Comes(t, l)
  /\ Hang(t, l)
  /\ view' = [view EXCEPT ![t].status = IF l = "status" THEN Learned(@, "forbidden") ELSE @]
  /\ UNCHANGED <<admin, issued, lapsed, stored, door, moves>>

(* A page of the panel asks for what it shows. *)
Query(t) ==
  /\ Move
  /\ view[t].page = "app" /\ line[t]["query"] = Quiet
  /\ line' = [line EXCEPT ![t]["query"] = Asked("query", view[t].token, FALSE)]
  /\ UNCHANGED <<admin, issued, lapsed, stored, view, door>>

(* The window gets the focus, or a form that shows links is opened. *)
LookAgain(t) ==
  /\ Move
  /\ line[t]["status"] = Quiet
  /\ line' = [line EXCEPT ![t]["status"] = Asked("status", NoToken, FALSE)]
  /\ view' = [view EXCEPT ![t].status = Expecting(@)]
  /\ UNCHANGED <<admin, issued, lapsed, stored, door>>

SubmitSignIn(t) ==
  /\ Move
  /\ view[t].page = "login" /\ view[t].status # "loading" /\ line[t]["sign"] = Quiet
  /\ \E right \in BOOLEAN :
       line' = [line EXCEPT ![t]["sign"] =
                  Asked(IF view[t].status = "open" THEN "register" ELSE "login",
                       NoToken, right)]
  /\ UNCHANGED <<admin, issued, lapsed, stored, view, door>>

Logout(t) ==
  /\ Move
  /\ view[t].page = "app"
  /\ stored' = NoToken
  /\ view' = [view EXCEPT ![t] = ToLogin(@)]
  /\ line' = [line EXCEPT ![t]["status"] = Looking(t)]
  /\ UNCHANGED <<admin, issued, lapsed, door>>

(* The tab is loaded at some address; what it was asking is forgotten. *)
Load(t) ==
  /\ Move
  /\ \E page \in {"login"} \cup (IF stored # NoToken THEN {"app"} ELSE {}) :
       /\ view' = [view EXCEPT ![t] = [page |-> page, token |-> stored, status |-> "loading"]]
       /\ line' = [line EXCEPT ![t] = [l \in Lines |->
                     IF l = "status" /\ page = "login" THEN Asked("status", NoToken, FALSE)
                     ELSE Quiet]]
  /\ UNCHANGED <<admin, issued, lapsed, stored, door>>

------------------------------------------------------------------------------
(* The world: time passes, and the address changes or is noticed. *)

(* JWT_EXPIRES_IN has passed, or the row or the secret was changed by hand. *)
Lapse ==
  /\ Move
  /\ \E n \in Live : lapsed' = lapsed \cup {n}
  /\ UNCHANGED <<admin, issued, stored, view, line, door>>

Turn(from, to) ==
  /\ door \in from /\ door' \in to \ {door}
  /\ Move
  /\ UNCHANGED <<admin, issued, lapsed, stored, view, line>>

(* Someone behind the same address asks for a path of the honeypot. *)
Trap == Turn({"open", "abroad"}, {"listed"})
(* HONEYPOT_BLACKLIST_TTL_SEC has passed. *)
Pardon == Turn({"listed"}, {"open", "abroad"})
(* The address is of another country, with ADMIN_ALLOWED_COUNTRIES set. *)
Travel == Turn({"open", "abroad"}, {"open", "abroad"})

(* The tabs are at the sign-in page, and no look at the status came back. *)
SessionInit ==
  /\ admin \in BOOLEAN
  /\ issued = 0 /\ lapsed = {} /\ stored = NoToken
  /\ view = [t \in Tabs |-> [page |-> "login", token |-> NoToken, status |-> "unknown"]]
  /\ line = [t \in Tabs |-> [l \in Lines |-> Quiet]]
  /\ door = "open" /\ moves = 0

SessionNext ==
  \/ \E t \in Tabs :
       \/ \E l \in Lines : TurnAway(t, l) \/ LoseRequest(t, l)
       \/ HandleQuery(t) \/ HandleStatus(t) \/ HandleRegister(t) \/ HandleLogin(t)
       \/ ReceiveQuery(t) \/ ReceiveStatus(t) \/ GoOn(t) \/ SignIn(t) \/ SignInFails(t)
       \/ Query(t) \/ LookAgain(t) \/ SubmitSignIn(t) \/ Logout(t) \/ Load(t)
  \/ Lapse \/ Trap \/ Pardon \/ Travel

SessionSpec == SessionInit /\ [][SessionNext]_sessionVars

------------------------------------------------------------------------------
LineStates == [at : {"quiet", "sent", "answered"}, asks : Asks, token : 0..issued,
          right : BOOLEAN, code : Codes, gift : 0..issued]

SessionTypeOK ==
  /\ admin \in BOOLEAN
  /\ issued \in 0..MaxTokens /\ lapsed \subseteq 1..issued /\ stored \in 0..issued
  /\ view \in [Tabs -> [page : {"login", "app"}, token : 0..issued,
                        status : {"loading", "unknown", "open", "closed"}]]
  /\ line \in [Tabs -> [Lines -> LineStates]]
  /\ door \in {"open", "abroad", "listed"} /\ moves \in 0..MaxMoves

(* An answer the tab is taking is a 401 to something else than the session *)
(* it has: to a query sent with another token, or to a sign-in.            *)
Overtaken(t) ==
  \E l \in {"query", "sign"} :
    /\ Comes(t, l) /\ line'[t][l] = Quiet /\ line[t][l].code = "unauthorized"
    /\ l = "query" => line[t][l].token # view[t].token

(* "On 401 the token is bad/expired" (lib/api.ts:21): a tab gives up a     *)
(* token that is still good only when its administrator logs out, or signs *)
(* in anew, or types a wrong password; when the answer to a query sent     *)
(* with an older token comes late; or when it is loaded after another tab  *)
(* signed in or out.  The gate, the limits and lost answers never end a    *)
(* session.                                                                *)
SessionKept ==
  [][\A t \in Tabs :
       view[t].token \in Live /\ view'[t].token # view[t].token =>
         \/ Logout(t) \/ SignIn(t) \/ Overtaken(t)
         \/ Load(t) /\ stored # view[t].token]_sessionVars
==============================================================================

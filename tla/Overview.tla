------------------------------ MODULE Overview -------------------------------
(***************************************************************************)
(* The figures an administrator watches: the overview of the dashboard,    *)
(* put together from several queries and kept in Redis for a few seconds,  *)
(* and the sample the panel pulls from a node.                             *)
(*                                                                         *)
(* What a query counts is abstracted to its age, the number of changes the *)
(* tables had seen when it ran: a figure is out of order when one that is  *)
(* older takes the place of one that is newer.                             *)
(***************************************************************************)
EXTENDS Integers

CONSTANTS
  Watchers,     \* browsers that show the overview
  Calls,        \* requests for it that the panel may be working on
  MaxAsks,      \* bound: requests
  MaxChanges,   \* bound: changes of what the figures are about
  MaxMishaps    \* bound: reloads, lost answers, failures of Redis and of queries

ASSUME OverviewAssumption == MaxAsks \in Nat /\ MaxChanges \in Nat /\ MaxMishaps \in Nat

VARIABLES
  now,         \* how often things have changed
  kept,        \* the overview in Redis
  call,        \* what each request is doing, for which page, what it has read
  shown,       \* what each page shows
  sample,      \* the node's sample in Redis
  poll,        \* the node's answer to the poll for the next one
  asks, mishaps,  \* counters of the bounds
  crossed      \* history: computations overlapped, or one was not kept over another

overviewVars == <<now, kept, call, shown, sample, poll, asks, mishaps, crossed>>

(* The rows of users, nodes, profiles and traffic; and the node's sample. *)
Parts == {"rows", "sample"}
Unread == -1
Ages == Unread..MaxChanges
NoFigures == [p \in Parts |-> Unread]

NoPage == "nobody"
ASSUME NoPageAssumption == NoPage \notin Watchers

Resting == [at |-> "rest", page |-> NoPage, todo |-> {}, got |-> NoFigures]
Mishap == mishaps < MaxMishaps /\ mishaps' = mishaps + 1

------------------------------------------------------------------------------
(* MUTANT: a page asks again while it waits. *)
PageIdle_Always(a) == a \in Watchers
PageIdle(a) == \A c \in Calls : call[c].page # a

(* A page asks every ten seconds, but not while it waits for an answer. *)
Ask(a) ==
  /\ asks < MaxAsks /\ asks' = asks + 1
  /\ PageIdle(a)
  /\ \E c \in Calls :
       /\ call[c] = Resting
       /\ call' = [call EXCEPT ![c] = [@ EXCEPT !.at = "look", !.page = a]]
  /\ UNCHANGED <<now, kept, shown, sample, poll, mishaps, crossed>>

(* An overview in Redis is the answer. *)
Hit(c) ==
  /\ call[c].at = "look" /\ kept # NoFigures
  /\ call' = [call EXCEPT ![c] = [@ EXCEPT !.at = "reply", !.got = kept]]
  /\ UNCHANGED <<now, kept, shown, sample, poll, asks, mishaps, crossed>>

Computing(c) == call[c].at \in {"read", "store"}

(* Without one, or when Redis fails to say, every request computes its own. *)
Miss(c) ==
  /\ call[c].at = "look"
  /\ IF kept = NoFigures THEN UNCHANGED mishaps ELSE Mishap
  /\ crossed' = (crossed \/ \E d \in Calls \ {c} : Computing(d))
  /\ call' = [call EXCEPT ![c].at = "read", ![c].todo = Parts]
  /\ UNCHANGED <<now, kept, shown, sample, poll, asks>>

Counted(p) == IF p = "sample" THEN sample ELSE now

(* The queries run side by side; the sample is looked up by its node's row. *)
Read(c) ==
  /\ call[c].at = "read"
  /\ \E p \in call[c].todo :
       /\ p = "sample" => "rows" \notin call[c].todo
       /\ call' = [call EXCEPT ![c].todo = @ \ {p}, ![c].got[p] = Counted(p),
                               ![c].at = IF call[c].todo = {p} THEN "store" ELSE "read"]
  /\ UNCHANGED <<now, kept, shown, sample, poll, asks, mishaps, crossed>>

(* One query that fails fails the request. *)
ReadFails(c) ==
  /\ call[c].at = "read" /\ Mishap
  /\ call' = [call EXCEPT ![c] = Resting]
  /\ UNCHANGED <<now, kept, shown, sample, poll, asks, crossed>>

(* Whatever is there by now is replaced, ... *)
Keep(c) ==
  /\ call[c].at = "store"
  /\ kept' = call[c].got
  /\ call' = [call EXCEPT ![c].at = "reply"]
  /\ UNCHANGED <<now, shown, sample, poll, asks, mishaps, crossed>>

(* ... or stays, when Redis fails again. *)
KeepFails(c) ==
  /\ call[c].at = "store" /\ Mishap
  /\ crossed' = (crossed \/ kept # NoFigures)
  /\ call' = [call EXCEPT ![c].at = "reply"]
  /\ UNCHANGED <<now, kept, shown, sample, poll, asks>>

AnswerPage(c) ==
  /\ call[c].at = "reply"
  /\ shown' = [a \in Watchers |-> IF a = call[c].page THEN call[c].got ELSE shown[a]]
  /\ call' = [call EXCEPT ![c] = Resting]
  /\ UNCHANGED <<now, kept, sample, poll, asks, mishaps, crossed>>

(* The connection breaks, or the page is told that its figures are stale:  *)
(* the panel works on for nobody.                                          *)
LoseAnswer(a) ==
  /\ \E c \in Calls : call[c].page = a /\ call' = [call EXCEPT ![c].page = NoPage]
  /\ Mishap
  /\ UNCHANGED <<now, kept, shown, sample, poll, asks, crossed>>

(* OVERVIEW_CACHE_TTL_SECONDS after it was stored. *)
CacheExpires ==
  /\ kept # NoFigures /\ kept' = NoFigures
  /\ UNCHANGED <<now, call, shown, sample, poll, asks, mishaps, crossed>>

------------------------------------------------------------------------------
(* The poll of the nodes: one job of a worker that runs one at a time. *)

NodeAnswers ==
  /\ poll = Unread /\ poll' = now
  /\ UNCHANGED <<now, kept, call, shown, sample, asks, mishaps, crossed>>

KeepSample ==
  /\ poll # Unread
  /\ sample' = poll /\ poll' = Unread
  /\ UNCHANGED <<now, kept, call, shown, asks, mishaps, crossed>>

(* A call that fails or comes too late leaves the sample there is. *)
PollFails ==
  /\ poll # Unread /\ Mishap
  /\ poll' = Unread
  /\ UNCHANGED <<now, kept, call, shown, sample, asks, crossed>>

(* METRICS_TTL_SECONDS after it was kept. *)
SampleExpires ==
  /\ sample # Unread /\ sample' = Unread
  /\ UNCHANGED <<now, kept, call, shown, poll, asks, mishaps, crossed>>

------------------------------------------------------------------------------
(* A user, a node or its traffic changes. *)
Change ==
  /\ now < MaxChanges /\ now' = now + 1
  /\ UNCHANGED <<kept, call, shown, sample, poll, asks, mishaps, crossed>>

(* The pages are being opened, others were before. *)
OverviewInit ==
  /\ now = 0 /\ kept = [p \in Parts |-> now]
  /\ call = [c \in Calls |-> Resting]
  /\ shown = [a \in Watchers |-> NoFigures]
  /\ sample = now /\ poll = Unread
  /\ asks = 0 /\ mishaps = 0 /\ crossed = FALSE

OverviewNext ==
  \/ \E a \in Watchers : Ask(a) \/ LoseAnswer(a)
  \/ \E c \in Calls : Hit(c) \/ Miss(c) \/ Read(c) \/ ReadFails(c)
                      \/ Keep(c) \/ KeepFails(c) \/ AnswerPage(c)
  \/ CacheExpires \/ NodeAnswers \/ KeepSample \/ PollFails \/ SampleExpires \/ Change

OverviewSpec == OverviewInit /\ [][OverviewNext]_overviewVars

------------------------------------------------------------------------------
Overviews == [Parts -> Ages]

OverviewTypeOK ==
  /\ now \in 0..MaxChanges /\ kept \in Overviews
  /\ call \in [Calls -> [at : {"rest", "look", "read", "store", "reply"},
                         page : Watchers \cup {NoPage}, todo : SUBSET Parts, got : Overviews]]
  /\ shown \in [Watchers -> Overviews]
  /\ sample \in Ages /\ poll \in Ages
  /\ asks \in 0..MaxAsks /\ mishaps \in 0..MaxMishaps /\ crossed \in BOOLEAN

Older(new, old) == new # Unread /\ new < old

(* "5 admins refreshing in unison pay only one round of SQL"               *)
(* (dashboard.service.ts:9): no figure a page shows gives way to an older  *)
(* one, unless two computations of the overview overlapped, or Redis failed *)
(* one of them twice, when asked for an overview it had and when given one. *)
FiguresInOrder ==
  [][~ crossed =>
       \A a \in Watchers, p \in Parts : ~ Older(shown'[a][p], shown[a][p])
    ]_overviewVars
==============================================================================

# Ice-Panel: specification, model checking and proofs

TLA+ models of Ice-Panel, the TLC runs that check them on small instances, and
TLAPS proofs of what matters most. The models are written from the code under
`src/apps`; `PROJECT.json` maps each definition to the lines it stands for.

## The system

One **panel** process (TypeScript: Fastify API, BullMQ workers and the cron
worker together, `panel-backend/src/index.ts`) over Postgres and Redis, and one
**agent** process (Go, `apps/node`) per node, which drives the proxy cores. The
panel calls the agents over mTLS; an agent calls the panel for its bootstrap
payload and for a heartbeat every minute.

| component | state | operations | talks to |
|---|---|---|---|
| users (`users.service`, `users.cron`) | rows: status, `deletedAt` | create, update, soft delete, expire, limit | emits `user.*` |
| event bus (`lib/event-bus.ts`) | none that survives the process | emit, run handlers, log what they throw | queues |
| `node-users` queue (`users.queue.ts`) | BullMQ jobs in Redis | addUser, removeUser, backfillNode; 5 at a time, 3 attempts, backoff | agents |
| profiles, bindings | rows | create, update, delete; a node's inbounds are its enabled bindings of enabled profiles | emits `profile.*`, `binding.*` |
| nodes (`nodes.service`, `nodes.cron`) | rows: status, `deletedAt` | create, delete; poll every agent's `/healthz` and write the status | emits `node.created`; `inbound-sync` queue |
| `inbound-sync` queue (`inbounds.queue.ts`) | BullMQ jobs, one id per node | read bindings, push them, push every active user | agents |
| heartbeat (`heartbeat.routes.ts`) | Redis: each agent's last start time | answer 200 / 410; push again after a restart | `inbound-sync` queue |
| bootstrap (`bootstrap.service.ts`) | one-time tokens | issue, redeem | keygen |
| keygen | CA, panel client certificate, user keys | create on first use, issue | |
| stats (`stats.cron.ts`) | traffic counters, usage history | turn each agent's counters into deltas | agents |
| AmneziaWG peers, HWID, admin auth, API tokens | rows; Redis counters | allocate, admit, lock out | |
| subscription (`subscription.service`, format builders) | none | render rows for a user's client | |
| squads, hosts, regions, SRR, settings | rows | single-row edits | console |
| console (`panel-frontend`) | query cache, dialogs, forms | fill, edit, save, several calls for one click | API |
| agent server (`server.go`) | - | addUser, removeUser, applyInbounds, stats, healthz | adapters |
| core adapters (`internal/core/*`) | users map, inbound, subprocess | AddUser, RemoveUser, ApplyInbound, Healthy | subprocess |
| heartbeat loop (`heartbeat.go`) | consecutive 410s | destroy the node after three | panel |
| session (`stores/auth`, `lib/api`; security gate, auth hook) | a token in each tab, one in local storage; listed addresses in Redis | sign in, sign out, attach the token, clear it on a 401, refuse an address | API |
| overview (`dashboard.service`), metrics poll | Redis: the overview for some seconds, each node's sample | answer from the cache, or compute and store; poll the agents | agents |
| test-connect | none | try every enabled binding and host of a profile side by side | the nodes' ports |
| Telegram, metrics, installers | - | - | - |

**What is hard.** Nothing is transactional between a row and the event, the
event and the job, or the job and the agents. Five workers per queue run side
by side, and every `await` lets something else run. A call may be applied
although the panel saw it fail, and be applied late. The agent's memory dies
with it. Attempts run out. BullMQ ignores an add whose id exists. Crashes of
the panel hand running jobs out again, in front of the others. Two programs in
two languages render the same rows, one for the server and one for its clients.
Forms are filled from a list that was true when it was read.

**What makes it correct.** Users: an agent serves exactly the active users, or
will, or something that can be named went wrong. Inbounds: the agent of a live
node runs what its bindings say, with the same proviso. Adapters: a repeated
call is a no-op only when the first one took effect, and `/healthz` tells the
truth. Lifecycle: a token is redeemed once, and only a deleted node destroys
itself. Accounting: bytes are counted once. Admission: limits hold under
concurrent requests. Subscription: an endpoint handed out is one the server
accepts. Console: a save writes what was typed, and the screen's report is true.
Session: it ends when it should and at no other time. Overview: no figure goes
back in time. Tests: a dialog shows what was tried for it.
`PROJECT.json` lists the hazards at their lines.

## Modules

| module | models |
|---|---|
| `UserSync` | users, event bus, `node-users` queue, the other queue's pushes of users, the wire, the agents' user maps |
| `UserSync_proofs` | its theorems |
| `MCUserSync` | its TLC instance (where a behaviour begins, how often something fails) |
| `InboundSync` | bindings, profiles, `inbound-sync` queue, status poll, restart detection, the push |
| `InboundSync_proofs` | its theorems |
| `MCInboundSync` | its TLC instance (the same, and which changes users go through) |
| `CoreAdapters` | one agent: its handlers, its seven protocol adapters and their servers |
| `UserMaps` | the abstract agent that `UserSync` and `InboundSync` assume, implemented by `CoreAdapters` |
| `MCCoreAdapters` | its TLC instance (which adapters a node has) |
| `CoreAdapters_proofs` | its theorems |
| `NodeLifecycle` | bootstrap tokens, the certificate authority, the shared TLS agent, heartbeats and self-destruction |
| `NodeLifecycle_proofs` | its theorems |
| `Traffic` | the cores' counters, the poll that bills them, resets and limits |
| `Traffic_proofs` | its theorems, and what sums over finite sets obey |
| `Subscription` | what the panel renders for clients against what the agent renders for its servers, seven protocols and six formats |
| `Subscription_proofs` | its theorems |
| `Admission` | requests that look and then act: peer addresses, devices, first admin, token names, failed logins |
| `Console` | one page of the panel: its query, its dialog, its requests |
| `Deploy` | bindings made and removed by the deploy dialog and the node wizard, beside other admins |
| `Session` | the tabs of a browser, the token they share, sign-in and sign-out, the panel's gate and hook |
| `Overview` | the dashboard's cached overview, the requests for it, the poll of the nodes' samples |
| `Probes` | the dialog of the connection tests and the tests it starts |
| `Requests_proofs` | the theorems of `Admission`, `Session`, `Overview` and `Probes` |
| `Panel_proofs` | the theorems of `Console`, `Deploy` and `MCPanel` |
| `MCTraffic`, `MCSubscription` | TLC instances of two of them |
| `MCPanel` | the instance of `Admission`, `Console`, `Deploy`, `Session`, `Overview` and `Probes`; they share no state, so a behaviour is about one of them (`part`) |

### UserSync and the code

An admin request is one action where the handler has no `await` that matters
between its read and its write, else several: `ReadForUpdate` / `WriteUpdate`
(`updateUser` compares with the status it read, writes by id),
`CheckDelete` / `SoftDelete`, `InsertNode` / `FinishCreateNode` (several awaits
before `node.created`). `CronFind` / `CronFlip` is the find and the
`updateMany` of the two reviews. An emitted event waits in `events` until its
handler has added the job (`HandleEvent`) or failed to (`HandlerThrows`).

A job goes `waiting -> (gotRow ->) calling -> completed | failed | delayed`.
`gotRow` is the await between the two queries of `syncAddUser` and
`syncBackfillNode`. All calls of an attempt leave together
(`Promise.allSettled`) and end one by one: `CallSucceeds`,
`CallAppliedButFails` (500 after the map changed, or a lost answer),
`CallRefused`, `CallTimesOut` (the request becomes *stray*: the agent may still
process it, at any later time). `EndAttempt` retries the whole job or gives up.
`PanelCrash` empties the panel's memory, returns held jobs to the front of the
wait list in any order and makes every call a stray.

The agents' maps have a second writer: a push of a node's inbounds ends in one
`addUser` after the other for the users that `fetchActiveUsers` found
(`inbounds.queue.ts:71-88`, `:223-261`). `ReadForPush` is that query: the status,
the date (`lapsed` are the users it leaves out for theirs), and no look at
`deletedAt`; `PushUser`, `PushFails` and `PushTimesOut` are a call. What starts a
push, and whether it is repeated, is `InboundSync`'s: here it may come at any time
to a node the panel knows, `MaxPushes` times, and it owes nobody anything.

The ghosts `leak` and `gap` record per agent and user *why* they may disagree
with the table. They never guard anything. The invariants then say that there is
no disagreement that is neither about to be repaired nor explained, which is
what a review of this pipeline has to establish. An agent may hold a user who is
to have no access because an `addUser` was applied after the removal
(`staleAdd`), a push gave him back (`restored`), attempts ran out (`gaveUp`), an
event went with the panel's memory or its handler (`lostEvent`), or a write
changed the status past its event (`silentWrite`). It may lack one who is to have
access because of an old `removeUser` (`staleRemove`), of the last three, or
because it restarted (`agentStopped`; `InboundSync` repairs that). `restored` is
two modules at odds: `syncAddUser`'s and `syncBackfillNode`'s queries
ask for `deletedAt: null` (`users.queue.ts:131`), `fetchActiveUsers` does not
(`inbounds.queue.ts:73-77`), so every push hands all soft-deleted users of an
ACTIVE status back to its node, and nothing ever takes them away again.

### InboundSync and the code

`want[n][p]` is what `fetchEnabledInbounds` makes of the binding of profile `p`
on node `n`: the version of its configuration, or 0. Every change takes a new
version, so a stale push can be told from a fresh one. A profile has a protocol
of its own: two profiles of one protocol on one node would configure the same
adapter, the last one winning. `todo` counts the `queue.add`s (per node) and
fan-outs (per profile) that are due in the panel's memory.

`Add` is BullMQ's: a job of that id in any state makes it a no-op. `JobId` is
`<<n, 0>>` for `apply-<n>` and `<<n, s>>` for `apply-<n>-restart-<s>`. The
worker's steps are the awaits of `applyInboundsForNode`: `Take` (fetchNode),
`FetchInbounds`, the push and its five outcomes, `FetchUsers`, one `PushUser`
or `PushFails` per user. `Configured` is `handleApplyInbounds`: adapters of no
pushed inbound keep what they run. `Poll` / `PollWrite` is `pollNodeStatuses`;
find and answer are one step because this task alone writes the status.
`Heartbeat` / `AddRestartJob` is `trackAgentStart`, which stores the new start
time before it adds the job.

`file[n]` is `inbounds.json`, the last set the agent was sent. `ConfigSynced`
asks that an enabled binding runs in its present version, and that one which is
disabled or gone does not run unless the agent has been sent a set without it.
The last clause is where the code stops: `handleApplyInbounds` never visits an
adapter that no pushed inbound is for, whatever `nodes.transport.ts:216-222` says
of tearing down. That is `TornDown`, and a finding; that the panel sends such
a set is `ConfigExplained`'s.

Users are `active`, `inactive`, `deleted` (soft-deleted, the status still ACTIVE)
or `lapsed` (past `expireAt`, not reviewed yet). `fetchActiveUsers` takes the
first and the third. `Lapse` is the date passing, `Extend` an admin moving it
before the review: the status has not changed, so `updateUser` emits nothing, and
an agent that was pushed in between goes without him (`extended`).

The ghost `why` records per node the known losses: an add swallowed by a job
that had already read (`coalesced`), attempts exhausted, work lost with the
panel's memory or an add that Redis refuses (`AddRejected`;
`RestartAddRejected`, which comes after the start time was stored), an older set
applied last, a user push that failed, a restart that looked like a first start,
bindings that went with their profile or node unannounced, and `extended`. While
a node is not `online` nothing is recorded, because the poll that finds it back
pushes everything again; `ConfigExplained` would fail if it did not.
`UsersExplained` speaks of active users a node lacks; users it has too many are
`UserSync`'s (`restored`). `AgentCatchesUp` asks for both halves at one time:
the configuration, and every active user.

The other queue is idealised here: every running agent of a live node follows a
change of a user at once (`SetUser`). A timed-out `addUser` of the push is not
kept as a stray request in this module (it is in `UserSync`).

An event handler's `queue.add` that rejects is not caught
(`inbounds.events.ts:19`): Node ends the process on an unhandled rejection, which
is `PanelCrash`; the poll's own add and the heartbeat's (`heartbeat.routes.ts:134-137`)
are caught.

`Carries`, the push that excuses an agent which lags behind, asks that its set
is exactly what is enabled: one that read a binding before it was deleted excuses
nobody. A node bound to a profile after `deleteProfile` read whom to tell, and one
whose bindings `deleteNode` has taken but which it has not deleted yet, hear of
nothing and are blamed (`unannounced`).

### CoreAdapters and the code

The adapters of `internal/core` differ in how they bring a change to their
server, so one record, `core[k]`, stands for each and the operators name the
differences: `Cached` (mtproto and hysteria keep users in memory; shadowsocks
and mieru wait for `started`), `Regenerate` (render, write, then restart a
subprocess, `caddy reload`, `awg syncconf` or `mita apply`), `ApplyHysteria`
(memory after disk, systemd's unit), `OtherSubnet` (AmneziaWG's `classifyDiff`;
its `diffSyncconf` branch is dead code, no difference is classified so, although
the comments at `amneziawg/adapter.go:300` and `inbound.go:112` describe it).
Each returns the set of outcomes of the method: the adapter afterwards, and
whether it returned nil. An adapter's lock makes a method one step.

`req[s]` is a request in a goroutine of its own; `CallAdapter` is one turn of
the handler's loop. `handleApplyInbounds` writes `inbounds.json` first and stops
if it cannot. `CoreDies` is a subprocess that exits: `Running()` does not notice.
`AgentStop` runs `stopAdapters`; `AgentKilled` takes what the agent has spawned
along and leaves hysteria's unit, the AmneziaWG interface and mita.

A node has the adapters of one protocol, as `install-node.sh` sets it up
(hysteria is always registered, shadowsocks comes with xray). No inbound is
preset in the environment; an inbound is never the value an adapter starts with
(one that is, such as hysteria's without obfuscation or masquerade, is "nothing
to change" and leaves the installer's file). Each protocol occurs once in a
push. What dies outside the agent's hands (hysteria's unit, mita, the kernel
interface) is not modelled beyond a failed reload.

`trouble[k]` is the ghost: failed calls and deaths since the server last ran
what memory says. `UserMaps` says what a caller may count on: each adapter's
map changes once per call, between its arrival and its answer, also when the
answer is an error. `UserSync`'s `CallAppliedButFails` is that error.

### NodeLifecycle and the code

A panel request is a slot of `proc`; its field `at` is the await it is in.
`FindCa` / `CreateCa` and `FindLeaf` / `BackfillLeaf` are the two halves of
`bootstrapCa` and `getPanelClientCert`: read the one row of `keygen_ca`, and
generate when it is not there. `RedeemFind`, `RedeemClaim`, `RedeemReply` are
`redeemBootstrapToken`: the checks, the conditional update, the payload.
`BuildAgent` is the first caller of `getSharedAgent`, whose promise stays
rejected when it throws (`nodes.transport.ts:54`). Generated material goes by
the request that made it, so that two generations can be told apart.

`AfterAnswer` is what the heartbeat loop makes of an answer; errors do not count
(`PollFails`), a restart forgets the count, a payload that was pasted has no
heartbeat token at all (`Beats`). `FreshPinsMatch` is about installs that were
never upgraded: on an upgraded one two processes may each generate the leaf that
is backfilled (`keygen.service.ts:98`) and nodes pin the loser's. A lost race
for the first CA is an error 500 (`caRace`) and, when it hits the shared agent,
refuses every later call; `FailureExplained` names both. `purgeExpiredBootstrapTokens`
is called by nothing.

### Traffic and the code

`GetStats` tells the cores apart: counting by user or for the node, drained or
cumulative, with totals or without. A tick (`StartPoll`) asks its nodes in
parallel; `ReadCounters` is one agent's `/stats`, with the set of adapters whose
query fails; `BillUser` is one user's upsert, an await each; `BillNode` moves
the snapshot and writes the hour. `MarkLimited` writes by the ids `FindExceeded`
read. `ResetTraffic` zeroes the counter and leaves the status.

`sent` counts what really went through. `LossExplained` lists what may lose
bytes: a lost answer, a failed write, a crash, a restarted core, or a change of
users on a core that restarts for it (`undrained`); a query that fails inside
the agent loses nothing. The history has one known error: the snapshots are kept
in memory, and the first tick after a restart takes `?? 0n` for the one it lost
(`stats.cron.ts:125`), so a core's whole total is written as that hour's growth.
The comment at `stats.cron.ts:8-11` says that this tick records the snapshot
"without writing a fake spike"; `NoFakeSpike` states it, and is violated. `retold`
counts the totals that were forgotten so, and `HistoryExplained` says that the
history exceeds what went through by no more than that, whatever else crashes,
fails or is repeated. shadowsocks runs
an xray and counts like one, naive and mieru report zeros: the instance has
xray, mtproto and hysteria, and AmneziaWG, which breaks the books, alone. The
multiplier of a node is a natural number, as `nodes.schemas.ts:39` and
`schema.prisma:231` have it.

### Subscription and the code

A configuration (`Config`) keeps the fields on which the two sides can disagree;
which keys, PSKs, address ranges, ports and Xray transports there are is the
instance's to say. The `*Uri`, `*Outbound` and `Clash` definitions are what the
builders of a format write for a protocol, the `*Serves` ones what the agent's
`renderConfig` makes the server accept; `Fetch` is `generateSubscription`, which
also draws an AmneziaWG address. An address belongs to a profile
(`allocatePeer(profileId, userId, subnet)`), so it is the pair of the profile and
the subnet it was drawn in. `PushInbounds` and `PushUsers` are the two halves of
an inbound-sync job, `DeliverUser` a node-users job. `Applied` is
`handleApplyInbounds`: the inbounds of the node, in the order of their ports, go
one after the other (`Handled`) to the adapter of their protocol.
`EndpointsConnect` says that
once everything was delivered an endpoint works, or one of seven reasons holds:
two profiles of a protocol on a node (`Shadowed`), a configuration the agent
refuses (`Blocked`), an address of another subnet (`Misaddressed`), a peer that
came back through a job that carries no address, through a push that read the
users while he was still cut off, or through one that failed to draw an address,
which is logged and sends the user without (`PeerDropped`;
`inbounds.queue.ts:234-240`), a binding's port that the installed server does not
listen on (`OtherPort`), a host that overrides the server name, the path or the
security layer, of which no agent hears (`Overridden`;
`subscription.service.ts:325-332`), and what a format has no words for
(`Unspoken`).

A transport is `<<net, sub, flow>>`; "ws" stands for ws, httpupgrade and grpc,
which all formats treat alike. `inbounds.schemas.ts:75` also lets `xhttp` and
`kcp` through: clash names them without options (`clash.ts:110`), sing-box has no
case for them and writes plain vless (`singbox.ts:106-130`), and both are
`Unspoken`. Vision over anything but raw is taken not to work: the agent renders
the flow of the profile whatever the transport is (`xray/config.go:85-89`), and
the formats give or withhold it by rules of their own (`uri.ts:85-88`). A host is
`DefaultHost` or one with a front address, overrides (`over`) and formats it is
kept from (`muted`).

### Admission and the code

Each action is what a handler does between two awaits. `PeersExplained` says
that `allocatePeer`'s five attempts under two unique constraints are enough
unless as many other users got an address meanwhile; peers keep their rows, and
so addresses outside the range, when the range is edited, and soft-deleted
users keep theirs. `RoomExplained` names the overlap that lets one device, one
first administrator or one token of a name too many in (tokens have no unique
key at all), and bounds it by the requests under way. `FailuresExplained` is
about INCR and EXPIRE being two commands: a crash in between leaves a counter
that never expires, which `auth.service.ts:45-46` means to exclude, and the
first failure's EXPIRE may land after the lockout's and shorten it (`Arm`,
`Lock`). `NoLimit` is the `null` of a device limit, which admits everybody.

### Console and the code

Every page is built alike, and `kind` says which one it is: users, squads,
nodes, hosts, regions, response rules, the two cards of the settings, and the
profiles of the seven protocols. For each, `…Form` is what the dialog makes of a
row, `…Typing` what its inputs offer, `…Input` what it sends, `…Refused` what
the schema and the handler say no to, `Updated` what is stored, and `Drawn`,
`Hydrates`, `FillsOnOpen` and `Close` when the form is filled and reset.
`typed` is a history of what the admin typed in this dialog.

`SaveExplained` and `TypingExplained` name what may come out otherwise. The
users' form is reset when its dialog is closed by the cross and not by Cancel
(`UserFormModal.tsx:149` against `:437`), so the next dialog may show and save
the former row's values (`kept`). The squad's form is filled again while its
name is typed; a rule's when both texts are cleared; a settings card when its
query answers late. A generated key pair overwrites the form with the values of
the moment it was asked for. `UpdateHostSchema` is `CreateHostSchema.partial()`
and keeps its defaults, so every update resets a host's priority. The switch in the
list of hosts sends one field and resets the same columns (`ToggleHost`);
`SaveExplained` is about what a dialog saves, so nothing here is about that. Two of the
excuses need a fifth event: `"keys" \in told` in `SaveExplained` and the blank
gRPC service in `TypingExplained`. With `MaxEvents = 5` and the kinds
`amneziawg` (605,290 states) and `xray` (400,835 states) alone both properties
hold, and each fails without its excuse.

### Deploy and the code

A call is a record that goes `sent -> insert -> host`: `createBinding` looks for
a conflict, inserts, and gives the binding its default host before it emits.
`SaveDeploy` sends the calls the dialog's list lacks, side by side, and
`AnswerDialog` is `Promise.all`: the first failure ends the save, the others run
on. `BindNext` is the wizard's loop, in which every profile is given port 443;
of several no more than one can be bound. `ClearNode` and `SoftDelete`,
`ReadAffected` and `DeleteProfile` are the two halves of the deletions.
`EventsExplained` names the bindings no event tells of: one without its default
host, one cascaded away after the affected nodes were read, and one inserted on
a node that was being deleted (`phantom`). `Touched` records where the table
changed behind a save that is under way.

### Session and the code

A tab reads the token from local storage when it is loaded (`stores/auth.ts`) and
never again; `view[t].token` is what it has in memory, `stored` the shared copy.
`line[t]` has one query, one sign-in and one look at `/api/auth/status` at a time,
each `sent` and then `answered`, so an answer may be taken long after the session
changed. `TurnAway` is the gate, in front of everything; `HandleQuery` is
`requireAuth` and whichever handler follows. `Clear` is the interceptor's
`clearSession`: any 401, also that of a wrong password, writes through to local
storage, and `ProtectedRoute` shows the sign-in page, which asks for the status
(`Looking`). The sign-in page registers first while it believes that it can, and
then signs in (`GoOn`). A 429 or a 500 looks to the tab like a lost answer
(`LoseRequest`). `SessionKept` says when a tab may give up a token that is still
good; API tokens are no session and are left out.

### Overview and the code

What a query counts is reduced to its age: `now` is the number of changes so
far. `Hit` and `Miss` are the look into Redis (one that fails is a miss), `Read`
one of the queries of `Promise.all` (the sample is looked up by the node's row,
so after the rows), `Keep` and `KeepFails` the store, whose failure is swallowed.
A page asks again only when it has its answer. `NodeAnswers` and `KeepSample` are
the two halves of the metrics poll. The comment at `dashboard.service.ts:9` says
that five admins "refreshing in unison pay only one round of SQL"; nothing makes
a request wait for another's computation, so each that misses computes its own,
and the one that read first may store last. `crossed` records such an overlap,
and a computation that was refused by Redis over an overview it has;
`FiguresInOrder` holds for all others.

### Probes and the code

`Start` is the mutation the dialog runs on opening and on "Re-run": it empties
the rows and makes the button wait. `ReadTargets` reads the enabled bindings and
hosts once, `Try` is one probe with its timeout, the last of which makes the
answer. `TakeRows` is `onSuccess`, which runs for every test ever started, also
one of another profile (`late`), while `isPending` is about the newest only.

## Runs

| run | expects | instance | states | shows |
|---|---|---|---|---|
| `user_sync` | pass | 1 user, 1 node, 2 jobs, 1 push, 1 failure of any kind, 2 beginnings | 196,189 | `LeakExplained`, `GapExplained`, `WorkDrains`, `RevokedUserIsCutOff`, `ActiveUserIsServed` |
| `inbound_sync` | pass | 1 node, 1 profile, 1 user, 2 agent processes, 1 failure of any kind, 3 beginnings | 266,253 | `ConfigExplained`, `UsersExplained`, `IdIsFreed`, `AgentCatchesUp` |
| `inbound_coalescing` | violation | no failure at all | | `LatestStateIsApplied`: the add is swallowed |
| `inbound_torn_down` | violation | no failure at all | | `TornDown`: what is no longer sent goes on running |
| `core_faults` | pass | 6 sets of adapters, 1 user, 2 versions, 2 requests at a time, 3 per process, 2 processes, every failure | 702,346 | `TypeOK`, `ServedExplained`, `AdaptersAgree`, `HealthExplained`, and that the agent implements `UserMaps` |
| `core_push` | violation | AmneziaWG, no failure at all | | `PushConfigures`: a peer that comes first keeps the inbound out |
| `node_lifecycle` | pass | 1 node, 2 tokens, 2 requests at a time, fresh and upgraded installs, 1 restart, 1 kind of failure of the panel, lost answers | 645,726 | `TypeOK`, `SingleUse`, `OneAuthority`, `FreshPinsMatch`, `FailureExplained`, `OnlyDeletedStop`, `DeletedStops` |
| `traffic` | pass | 2 users, 2 nodes (xray and mtproto; hysteria with multiplier 2), 2 units of traffic, 1 change, 1 failure | 197,460 | `NeverOverbilled`, `LossExplained`, `HistoryExplained`, `LimitedExplained`, `OverLimitIsLimited` |
| `traffic_restart` | violation | mtproto, 1 crash of the panel | | `NoFakeSpike`: the whole total is written again |
| `traffic_kernel` | violation | AmneziaWG, no failure at all | | `NeverOverbilled`: each poll bills all bytes again |
| `subscription` | pass | 1 node, 2 profiles of any of 7 protocols, 2 keys, PSKs, subnets and ports, 4 Xray transports, 2 hosts, 2 edits, 1 restart | 1,756,619 | `TypeOK`, `EndpointsConnect` |
| `panel` | pass | 2 requests and 3 keys; 2 rows, 15 pages, 4 events; 2 profiles, 2 nodes, 3 clicks, 1 trouble; 2 tabs, 2 tokens, 5 moves; 2 pages, 2 requests at a time, 3 in all, 1 change, 2 mishaps; 2 profiles, 2 spots, 2 tests, 1 shift | 882,208 | `PanelTypeOK`, `PeersExplained`, `RoomExplained`, `FailuresExplained`, `TypingExplained`, `ListExplained`, `EventsExplained`, `RowsExplained`, `SaveExplained`, `DeployExplained`, `SessionKept`, `FiguresInOrder` |

**Findings.** (1) A binding changed while the node's job is pushing users is
never pushed, against the comment at `inbounds.events.ts:22-24`. (2) A binding
that is disabled or deleted is left running by the agent, against the comment at
`nodes.transport.ts:216-222`. (3) A user who reaches an AmneziaWG agent before
its first inbound stays in its map, and the inbound is then rejected as a change
of subnet with peers, again and again. (4) On an AmneziaWG node every poll bills
all bytes since the peer was added, against the comment at
`amneziawg/adapter.go:182-184`. (5) After a restart of the panel the first tick
writes each node's whole total into its history, against the comment at
`stats.cron.ts:8-11`.

The types of `user_sync`, `inbound_sync` and `traffic` are not repeated by
their runs: the theorems `TypeCorrect` have them.

What the passing runs hold *except for* is as much a result: each excuse is one
a run needs, and names a weakness of the code. A user revoked while his
`addUser` job runs may stay served (`staleAdd`: `syncAddUser` never looks at the
status and `syncRemoveUser` never looks again). A deleted one is served again by
every push (`restored`). `ServedExplained`
and `HealthExplained` are weaker than the contract of `core/adapter.go`: a retry
after a failed restart is a no-op that returns nil, and an adapter whose
subprocess has crashed still calls itself healthy (`core/adapter.go:46` says it
must not).

**Bounds.** `MaxJobs`, `MaxPushes`, `MaxVersion`, `MaxStarts`, `MaxRequests`,
`MaxDue`, `UserMoves` and `LapseKind` bound what the environment does; `Attempts`
is 2 for 3, `Concurrency` 2 for 5, `MaxStalls` 0, where BullMQ's default is 1 (a
job that a crash hands out again is failed; with 1, in `inbound_coalescing`, it is
run again). One user and one node carry every pairwise race, because every
property is about one pair; a fan-out over several nodes is covered by the
theorems of `UserSync`, which hold for all numbers. Two workers give every overlap
of two jobs, in `inbound_sync` that of `apply-<n>` and `apply-<n>-restart-<s>`,
two attempts a retry and an exhaustion, two processes of an agent a restart.

`MCUserSync` and `MCInboundSync` bound failures, by `MaxMishaps`: one per
behaviour, of every kind. What fails only because an agent is not there (before
its first start, or after it was stopped) is not counted, so the only rescue
may be needed and in time; a date that passes, and the find of a review, are. The
theorems are about any number of failures. To leave room for what comes after,
behaviours of `user_sync` begin with an empty panel or with one at rest whose
user is served; those of `inbound_sync` with an empty panel, with everything
pushed and one configuration left to write (so that updates, switching off, and
the fan-out of a profile's change happen), or with agents that have just restarted, the
panel not knowing (so that the one failure can be the refused add of that
restart).

In `core_faults` two requests give every overlap of two handlers, a third a retry
or a repair after a failure; the second version differs from the first in xray's
flow and in AmneziaWG's subnet at once; the second process starts with the servers
that survived the first. In `node_lifecycle` two requests give every race for the
authority, the leaf and a token, `GoneThreshold` 2 stands for 3; only one node
matters, since the authority and the shared agent are the panel's. In `traffic`
the limit is two units, so that one unit is under it and one at multiplier 2
reaches it; two units give a byte that is billed and one that is lost. In
`subscription` two profiles are a collision, two edits a change and its
consequence; profiles begin with the first key, PSK and subnet, and get `xhttp` or
`kcp` by an edit (`FirstDrafts`). In `panel` two requests race and a third
(`MaxArrivals` 4) meets their result; three events open a dialog, edit it and save
it, the fourth is whatever comes in between (the pages with the most to type,
users, nodes and hosts, have three in all, and `FewerEvents` says so); two nodes
make a selection half right, three clicks are a save, the wizard and somebody
else. Two tabs and two tokens give an answer to an older session, five moves two
sign-ins and what comes between. Two computations overlap, a third request meets
what they left; one change makes two ages. Two tests are one of the dialog before
and one of this. Each run explores its whole state space.

**Symmetry** is used for the request slots in `core_faults`, profiles in
`subscription`, rows and nodes in `panel`; never in a run with a liveness
property.

**Deadlock** is not checked: once the bounded environment has nothing left to do
the panel, the agent or the page is legitimately idle.

**Fairness.** Users: the event loop runs handlers; each job is eventually taken
and its timers fire (a worker polls while it has a slot, `WF` per job); each
job's calls end because the request timeout ends them. Inbounds: the panel's
memory is drained, the cron ticks, agents that run send heartbeats, and *some*
worker step happens; nothing is owed to one job rather than another, and nothing
to the pushes `UserSync` knows. Lifecycle:
the heartbeat's timer fires (`WF`), and an answer gets through now and then
(`SF`: polls may fail in between, an outage ends). Traffic: calls and writes end
(`WF`), and the repeatable review gets its turn of the one worker (`SF`: other
jobs take it in between). Admins, failures, crashes and agents that are down owe
nothing.

## Proofs

`UserSync_proofs` proves, for all sets of users, nodes and requests, any number of
pushes, all bounds and all sets of faults:

* `TypeCorrect`: `Spec => []TypeOK`;
* `LeakIsExplained`: `Spec => []LeakExplained`;
* `GapIsExplained`: `Spec => []GapExplained`.

They rest on the assumptions of `UserSync` only (finite, disjoint sets; positive
concurrency and attempts). The inductive invariant is
`IInv == TypeOK /\ FreshSlots /\ UnregisteredIsEmpty /\ Explained`.
`LeakExplained` and `GapExplained` are not inductive alone: they speak of live
nodes only, while a node's agent must already be empty when the node is inserted
(`UnregisteredIsEmpty`), and a new job takes a slot that must hold neither calls
nor failures of an earlier one (`FreshSlots`). `Explained` is both invariants in
one per-pair form. The proof has one lemma per action and one step per conjunct.

`CoreAdapters_proofs` proves, for all sets of users, request slots and adapters,
all versions, bounds and faults:

* `TypeCorrect`: `Spec => []TypeOK`;
* `ImplementsUserMaps`: `Spec => AgentIsUserMaps`, the refinement;
* `UsersAgree`: `Spec => []AdaptersAgree`.

They rest on the assumptions of `CoreAdapters`. One lemma per way of reaching a
server (`Keeps`: no outcome of a restart, reload or sync touches inbound or
users) and per method (`Changes`: which users an adapter has afterwards) lead to
`OutcomesChanges`: a call leaves `After(k, r)` behind, error or not. From there
every action is one step of `UserMaps` or a stutter; `TypeInv` adds to `TypeOK`
that a request about a user is about exactly one (`Addressed`). `AdaptersAgree`
speaks of users nobody is asking about, so its invariant must say what a request
under way has done: `Alone` says that a request which has overlapped with no
other about its user is the only one about him and has left its mark on every
adapter no longer in its `todo`, and that the user of any other is in `raced`.

`NodeLifecycle_proofs` proves, for all sets of nodes, tokens and requests in
flight, all thresholds, bounds and failures, fresh and upgraded installs alike:

* `TypeCorrect`: `Spec => []TypeOK`;
* `TokensAreSingleUse`: `Spec => []SingleUse`;
* `AuthorityIsUnique`: `Spec => []OneAuthority`;
* `FreshInstallsPin`: `Spec => []FreshPinsMatch`;
* `FailuresAreExplained`: `Spec => []FailureExplained`;
* `StoppedMeansDeleted`: `Spec => []OnlyDeletedStop`.

They rest on `LifecycleAssumption`. None of the properties is inductive alone:
they speak of what was handed out, and the danger is in what a request is still
holding. `AllFormed` says what a request at each of its awaits holds; `OneCa` and
`OneLeaf` that the authority and the leaf it has read are still the row's, and
that a row this version wrote never lacks its leaf; `Claims` that of all requests
that redeem a token only one is past the conditional update, and has not yet made
a payload of it; `Causes` that a consumed token is in that request's hands, in a
payload, or lost to a failure; `Homes` that a host, and the answer 410, imply a
node that was created, or deleted. `OnlyProc` covers the steps that move nothing
but a request, `OnlyHost` those of the heartbeat; every other action has a lemma
with one step per part.

`InboundSync_proofs` proves, for all sets of users, nodes and profiles, any
number of workers, attempts, stalls and restarts, and all sets of faults:

* `TypeCorrect`: `Spec => []TypeOK`;
* `ConfigExplainedHolds`: `Spec => []ConfigExplained`;
* `UsersExplainedHolds`: `Spec => []UsersExplained`.

`IInv == TypeOK /\ \A n : Unborn(n) /\ Bound(n) /\ Kept(n)`. A node is `Excused`
when it is gone, down, blamed, or a push is `Owed`: a job has still to read, an
add or a fan-out is in the panel's memory, a restart waits to be noticed, or the
poll holds it for offline. Of a node without excuse the configuration and each
user are kept: they agree, or one job between its read and its push will make them
agree. `Bound` says that nothing is resolved for a profile the node is not bound
to. A profile whose change has not been fanned out to its nodes yet cannot be
spoken of, so both compare only what is `Settled`. `Unborn` says that a node that
never ran was never seen, without which the first start could be mistaken for a
restart. Steps are grouped by what they can do to one node: `Stays` covers all
that is not about it, then one lemma for each action (`BindingKept`, `PollKept`,
`WorkerHere`, `CrashKept` and so on).

`CoreAdapters_proofs` further proves

* `ServedExplainedHolds`: `Spec => []ServedExplained`;
* `HealthExplainedHolds`: `Spec => []HealthExplained`.

`Sound` says what an adapter's fields mean (a handle is of an inbound, a
subprocess that runs was started). `Good` is what one call of a method may end
in: an answer without an error means that the server follows memory, or that it
did not follow before. One lemma per method shows its outcomes `Good`; `Told`
carries that over to the state, with the history `trouble`, and `Rested` that
nothing is remembered between two processes of the agent.

`Traffic_proofs` proves, for all sets of users, nodes and cores, all natural
multipliers and limits and all bounds:

* `TypeCorrect`: `Spec => []TypeOK`; `LimitedExplainedHolds`;
* `NeverOverbilledHolds`, `LossExplainedHolds`, `HistoryExplainedHolds`, of nodes
  without AmneziaWG (`NoKernel`). With it `NeverOverbilled` is false, which is
  the finding of `traffic_kernel`. Without `retold` `HistoryExplained` would be
  `NoFakeSpike`, which is false as well, and the finding of `traffic_restart`.

`TypeOK` bounds every number by the bytes that were sent, so its proof is about
`Backed`: a counter, an answer on its way, a snapshot never exceeds what went
through. `Books` is the balance of a user: billed, and still to be billed in
counters and answers, is at most what was sent, and with `LossExplained` exactly
that while nothing was lost; `Drained` is needed because a change of users makes
somebody tracked whose counter must not hold old bytes. `Ledger` is the balance of
a node's hours, restarts of the panel included (`retold`), and `Story` compares
both. A step moves bytes of one entry of a table, so `WorthChange` reduces every
balance to the entries that changed.

Its first section is the arithmetic for that: `SumFunctionOnSet` is
monotone, additive, homogeneous, and changes by what one entry changes by
(`SumTakeOut`). The community modules define it by `CHOOSE` of a recursive
function; the facts are proved from a smallest finite subset that would violate
them (`SmallestSubset`), so no induction rule with an operator parameter is used.

`Requests_proofs` proves, for all sets of requests, keys and subnets, all
numbers of attempts, limits and thresholds:

* `TypeCorrect`: `AdmissionSpec => []AdmissionTypeOK`;
* `PeersExplainedHolds`, `RoomExplainedHolds`, `FailuresExplainedHolds`.

`Typed` says which awaits a request of each desk passes. `PeersInv`: a request
that was refused `k` times saw `k` addresses taken by others (`Patient`), and
what it is about to insert was free in the range it read. `RoomInv`: rows and
requests that have decided and not inserted (`Deciders`) together exceed the room
by fewer than there are requests, and not at all while none decided beside
another. `FailsInv`: failures and passwords being verified together exceed the
threshold by fewer than there are requests; a counter without an expiry has a
request that is about to set it, or the history names why not.

`Panel_proofs` and, of the last three, `Requests_proofs` prove, for all sets of
profiles, nodes, rows, tabs and tests and any number of clicks, events and faults:

* `DeployTypeCorrect`: `DeploySpec => []DeployTypeOK`;
* `EventsExplainedHolds`, `DeployExplainedHolds` of `Deploy`;
* `ConsoleTypeCorrect`: `ConsoleSpec => []ConsoleTypeOK`;
* `ListExplainedHolds`, `TypingExplainedHolds`, `SaveExplainedHolds` of `Console`;
* `PartsCompose`: `PanelSpec` implies the specification of each of its six parts,
  and `PanelTypeCorrect`: `PanelSpec => []PanelTypeOK`;
* `SessionTypeCorrect`, `SessionKeptHolds`: `SessionSpec => SessionKept`;
* `OverviewTypeCorrect`, `FiguresInOrderHolds`: `OverviewSpec => FiguresInOrder`;
* `ProbesTypeCorrect`, `RowsExplainedHolds`: `ProbesSpec => []RowsExplained`.

`DeployInv` has the constraints of the table (`Table`), what calls, lists and
screens may hold (`Orderly`), and three promises under way: what a save has done
so far (`SaveDone`: per node it is done, stale, or a call runs), what the wizard
has (`WizardDone`: all on one port, and the table has one row per port), what a
node has heard (`Heard`: told, or a call is between row and event). An id that a
call or an old list holds may be gone but is never another row's (`CallsNamed`,
`RowsNamed`); this is what makes deletion by an old list harmless.
`DeployExplained` is an action property and follows from the invariant in the
state before. `ListInv` adds that a list that was read is the table unless
somebody has yet to tell. `TypedInv` says for each of the fifteen pages that a
form has the fields of its page (`Shaped`) and, because users' and rules' dialogs
take a form without a name for one that was not filled, that every row of these
tables, and of every copy of them under way, has one (`Tables`). `Console` sets
fields of a record by `Over` and not by the TLC module's `@@`, which the provers
cannot expand; its assumption says of `None` and of the empty text only that no
row and no answer is called so.

`SaveExplained` speaks of the step in which a request lands, long after its dialog
was filled and its form made into a request. `SavedInv` says what that took: every
row, in a table or a copy under way, is `Sound` (all fields of its page, and no
text that is stored as null is empty), in a dialog each field nobody typed into is
as the object it was opened with fills it (`Faithful`), and a request on its way
was made of such a form when it was complete and apt for sending (`Sends`). Two
facts about conversions close it: storing what a form was filled with gives the
row back, but for the fields the form cannot carry (`FillStores`), and a save that
is not refused stores each field of its form (`SaveStores`). Both go through the
fifteen pages one by one.

`SessionKept` is an action property: a tab clears its session when it takes a 401,
so what has to be known before is that a 401 to a query means what it says.
`RefusedDead` is that: a query answered so carries a token that is not good, and
none becomes good again (`DeadStays`). `FiguresInOrder` needs an order of all the
copies of a figure: while nothing was `crossed`, at most one request computes and
what it has read leads every other copy (`ComputedLeads`), what Redis keeps leads
what was answered (`KeptLeads`), and an answer leads what its page shows
(`RepliesLead`). That a part just read leads is `Aged`, by which no copy is newer
than the tables or the sample. It assumes that no page has the name of the one
that is gone (`NoPageAssumption`). `RowsExplained` is carried by `Ours`, which
says of the tests under way what it says of the one shown, and `OneEach`.

`Subscription_proofs` proves, for all sets of nodes, keys, PSKs, subnets, ports,
hosts and transports (`xhttp` and `kcp` among them), all finite sets of profiles,
any of the seven protocols and any number of edits and restarts:

* `TypeCorrect`: `Spec => []TypeOK`;
* `EndpointsConnectHolds`: `Spec => []EndpointsConnect`.

They rest on the assumptions of `Subscription` (bounds are naturals, ports are
naturals among them the installed one, `None` is nobody's value). `Applied` is a
recursive function over the subsets of the inbounds; that it exists, and is one,
is proved from the smallest subset without it (`HandlesExists`, `HandlesAgree`),
as for the sums of `Traffic_proofs`. `Outcome` is what a push leaves behind: the
clients are kept, a server follows what its adapter remembers, the only inbound
of its protocol is remembered unless it was refused, and an error means that one
of the inbounds will be refused again.

`EndpointsConnect` speaks of quiet nodes, so the invariant has to say what holds
while changes are on their way. `NodeInv` does, of one node: its servers follow
its adapters (`Running`), a job is about what the user is now (`Timely`), an
active user without a job is a client (`Present`), a node without a waiting job
remembers its bindings (`Told`), with the flow of the inbound (`Flowing`) and the
address the panel allocated (`Addressed`), and a job between its halves has found
the only AmneziaWG profile (`Found`). `NodeStays` covers every step that is not
about the node, `NodeDirty` every step after which a job waits; the four steps of
a node itself have a lemma each. `Spoken` goes through the formats and protocols:
what is neither `Overridden` nor in `Unspoken` says all that its server asks for.
Looking for this invariant showed `PeerDropped` to be too narrow as it first
stood: after four edits (two of them of the AmneziaWG bindings) a push may find
the user cut off and configure another profile beside the peer of the first, so
`unsent` is now set by a push without users as well.

**Only model-checked**: the liveness properties, which rest on fairness and
`ENABLED` and are out of the prover's reach: `WorkDrains`, `RevokedUserIsCutOff`
and `ActiveUserIsServed` of `UserSync`, `IdIsFreed` and `AgentCatchesUp` of
`InboundSync`, `DeletedStops` of `NodeLifecycle`, `OverLimitIsLimited` of
`Traffic`. Every invariant, action property and refinement of the passing runs is
stated by a theorem. The five properties of the findings are false and have none.

## Plan

1. `EventsExplained` of `Deploy` as the environment of `InboundSync`, whose
   bindings change by actions of its own today.
2. The ranking of nodes in a subscription, against a reference definition.

## Not modelled

* Dialogs that create a row (but for the node wizard), the recipes and the order
  of hosts: they fill a form once and send it once. `InboundsPage.tsx` and its
  dialog: no route reaches them.
* A page of the console has one request under way at a time; tabs are the other
  admins of `ChangeElsewhere` and `OtherCall`.
* Telegram and the metrics endpoint: formatting and best-effort notification. Of
  the dashboard what its queries count and the panel host's own gauges; of the
  session the wording of errors, the limits' windows and API tokens.
* Node ranking by place and load, geo lookup, response headers and the honey
  tokens of a subscription: pure functions of what was read.
* Formatting and validity periods of certificates, the firewall, system metrics,
  updates, and what the installers do beyond the payload and the unit.
* `purgeExpiredBootstrapTokens`, which nothing calls, and `releasePeer`, which
  only its tests call.
* The scheduler, whose one worker runs one task at a time: `Traffic`, `UserSync`
  and `InboundSync` each run one task of theirs at a time.

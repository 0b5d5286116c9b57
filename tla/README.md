# Balemoh in TLA+

Specifications of the concurrent and durable parts of Balemoh, a service
dashboard for home labs: an API (`cmd/balemoh`, `internal/`), a plugin SDK
(`plugin-sdk/`) and a web front end (`ui/`). TLC checks the specifications on
small instances; TLAPS proves the results listed below for every value of the
constants. `PROJECT.json` maps every definition to the source lines it models.

## The system

One fact shapes every model of the API. `internal/adapters/sqlite/connection.go`
opens SQLite with a single connection and foreign keys on, so **a transaction is
one atomic step**. What can go wrong lies between transactions: clock readings
taken before them, operations that take two of them, leases, remote calls, child
processes, and messages that arrive late.

| component | state | operations | what is hard | correct when |
|---|---|---|---|---|
| notification inbox | rows with identity, payload, receipt and read time, service; the autoincrement sequence | Publish, BindService, List, Get, MarkRead, MarkAllRead, ClearAll, hourly PruneExpired | cutoffs computed before the transaction; a cursor held over pages; a full inbox | deduplicated, bounded, never rewritten; pages miss and repeat nothing |
| Web Push | VAPID state, subscriptions, delivery jobs with lease and attempts | Save, Delete, Configure, Next, Complete; a trigger that queues | several replicas, leases that run out, late and lost reports, re-registration | one sender a job; a stale answer harms no new registration; nothing lost silently; the queue drains |
| plugin supervisor | child, attempts, failures, tickers | start, publish, check, withdraw, close, back off | cancellation and exit at any point | restart budget per window, one child, ends when cancelled |
| plugin notification sessions | host: callbacks, authorities; child: bindings, publishers, connections | Configure, CloseConnection, Publish, revoke, Close | lost answers, child exit, publications under way during revocation | commits only under an authority in force; the author's publisher stays connected; nothing leaks; sessions end |
| service catalog | rows with presence, visibility, pin and edit; a watermark per source | ReplaceSourceSnapshot, hide/show/purge, pin/unpin, edit, CreateManual | snapshots out of order; two-transaction pins; stale tabs | old snapshots resurrect nothing; choices survive; only what is missing is deleted |
| federation | two catalogs, syncs, requests in flight | Sync, Publish, import | overlapping syncs; requests late or lost | the gateway follows the agent; what is acknowledged is applied |
| plugin widgets (backend and UI runtime) | connection row, session and child, cached status, grants, cached renders, requests | session start and end, Configure, status polls, Query, render, eviction | a child, a grant or a placement replaced between the steps of one request | nothing older than its authorisation is shown; grants only for what is configured |
| connections, placements | records with revisions | Reconcile, PutPlacement and DeletePlacement under If-Match | the limit of 128 shared by two tables | the limit holds, whichever table is written |
| dashboard layout | a layout row with revision, selections, pins, placements; what editors hold | read, preview, replace, order, move | stale revisions, widgets that come and go under an edit, commits that report errors | no save overwritten unseen; a saved layout reads back; each widget in one group; answers are true |
| homepage stream | last snapshot published and read, cached layout, page | tick, render, reconnect | two requests for one page, failing providers, API outages | one layout a page; failures wipe nothing; "live" is current |
| presentation, icons | settings row, themes, fonts with reference rows, icons, service edits, the last command | Save, CreateTheme, copy, rename, delete, uploads | commands late or repeated, references deleted meanwhile, a rename in two steps | a command applies once; its answer is true; references resolve; brand pictures stay |
| telemetry | newest observation and samples of each host, at agent and gateway | Collect, Ingest, publish, import, prune, status and charts | batches late or lost, clocks that differ and are set back, 128 hosts | never goes back; bounded; silent hosts do not look alive; charts keep their minutes |

How they interact: plugins publish into the inbox through a plugin notification
session, whose child the supervisor runs; an insertion into the inbox queues Web
Push jobs by a trigger; removing or reading a message cancels them. The agent's
catalog publishes snapshots to the gateway's catalog, and its telemetry loop
batches to the gateway's telemetry store. The dashboard arranges hosts, pinned
services of the catalog and widgets of plugins; the homepage's stream reads what
it resolves to. The front end calls the API and
runs plugin UI children under the same supervisor code.

## Modules

| module | models | uses |
|---|---|---|
| `NotificationInbox` | the inbox service and store | `DedupInbox` by `INSTANCE` |
| `DedupInbox` | what an inbox promises publishers (abstract) | |
| `WebPush` | subscriptions, queue, workers of several replicas | |
| `Supervisor` | `Supervise`, one goroutine | |
| `PluginNotifications` | both ends of a plugin session's right to publish | |
| `Catalog` | the catalog of one instance | |
| `Federation` | an agent and a gateway: two catalogs and the network | `Catalog`, extended (gateway) and by `INSTANCE` (agent) |
| `LayoutDocument` | the layout document: validation, resolution, targeted edits (operators only) | |
| `Dashboard` | the saved layout, what it arranges, and its editors | `LayoutDocument`, extended; `LayoutRegister` by `INSTANCE` |
| `LayoutRegister` | what a saved layout promises its editors (abstract) | |
| `DashboardStream` | the homepage's event stream | |
| `Presentation` | themes, fonts, icons and the settings that select among them | |
| `Telemetry` | agent, wire and gateway of host telemetry | |
| `PluginWidget` | a plugin widget from the backend child to the HTML | |
| `MC...` | instances for TLC | |
| `...Proofs` | theorems; `CatalogProofs` has those of `Federation` too, `PluginRuntimeProofs` those of `PluginNotifications` and `Supervisor`, `DashboardProofs` those of `DashboardStream` | |

Definitions named as faults (`CurrentFault`, `IsNewerNot`, ...) are
plausible mistakes in the code. Each property is shown to fail when the
definition it depends on is replaced by such a fault.

### NotificationInbox

`inbox` is the table; a row's `seq` is its autoincrement key, and its `id`, a
UUID in the code, is the number of UUIDs drawn. `Publish` is the whole
transaction of `NotificationStore.Publish`: an identity that is held and retained
replays or conflicts; one that has expired is reclaimed; a full inbox first drops
what has expired and otherwise refuses. `MarkRead` takes two transactions
(`MarkReadGet`, `MarkReadCommit`). A request's clock reading may be `MaxLag` old
when its transaction runs, which covers any queueing for the connection. A
reader (`scan`) follows `NextBefore`; `owed` and `seen` are history.

### WebPush

`jobs` is keyed by subscription and notification, as in the table. `Next_` is
`WebPushStore.Next` (expiry, claim, lease), `Send` happens outside any
transaction, `Complete` is fenced by the attempt number. `Abandon` is a restart
or a failed `Complete`. The push service answers anything, but says "gone" only
of a registration that it has dropped. The assumption `SendTimeout + MaxLag <
Lease` is the code's ten seconds against one minute; `OneSender` needs it.

### Supervisor

One step per statement of `Supervise` that may take time or observe the context.
`start`, `withdraw`, `CheckHealth` and `Close` have a beginning and an end;
cancellation and the child's exit come between. `history` and `checks` are
history variables.

### PluginNotifications

The host may configure a connection repeatedly: `BackendClient.Configure` is an
exported operation of the SDK, though `Runtime.session` calls it once for each
child. Each call runs in a goroutine of its own in the child and waits at
`notificationConfigureMu`, a `sync.Mutex`, which gives waiters no order and after
which the context is not looked at. `requests` is therefore the set of the calls
that wait, any of them is served next, and one the host has given up on is served
like the others, perhaps after a later one has succeeded. The connection to a
callback is dialled lazily (external): a session to a callback that has been
stopped opens, and leads nowhere. The child's shutdown is part of `CloseClient`.
`configured` and `accepted` are history: for each connection, the last call the
host saw succeed and the last one the child accepted. `PublisherConnected` speaks
of the states in which these are the same call.

### Catalog

A row has what the properties tell apart: when it was observed, whether it is
missing, hidden, pinned, and its edit. `ReplaceSourceSnapshot` is the whole
transaction, for a local sync and for an import. A group is a Kubernetes Service
with the candidates that refer to it and share its presence (`group.go`); `Hide`,
`Show` and `Purge` act on the members of a group within one transaction, and
`Pin` and `Unpin` list in one transaction and write in another. `newest` is a
history variable. `related.go`, which joins groups by exposure evidence, is not
modelled: it decides which rows a group has, and the properties are about rows.

### Federation

The variables of `Catalog` are the gateway's store; `Agent` is a second
`Catalog`. `sync[w]` is one call of `Service.Sync`: the periodic worker and the
sync endpoint may run it at the same time. Each call reads `startedAt`, lists,
stores, publishes what was applied, and goes on to the next discoverer; any error,
timeout or restart ends it (`Fail`). A request may be lost, or be applied after
its sender has given up. The agent's clock is taken not to go back. The
discoverers return any set of candidates of their source: both know their
source, so that an empty list is a snapshot too.

### LayoutDocument, Dashboard, LayoutRegister

A document is a record of groups, explicit placements, orders, homepage
placements and source mappings. The code keeps groups and placements in canonical
order, which is why they are sets here; titles, geometry, spans and widths are one
`style`, accepted or not. `ValidateLayout` keeps the order of the code's refusals
(limits, fields, unknown references), `ResolveLayout` its precedence (explicit
placement, then the source's group; custom order, then alphabetical), and
`OrderGroups`, `OrderItems` and `Move` are the targeted routes. `ordered` in
`layout_resolve.go` compares names and then identities, so that no two widgets and
no two groups are equal: `Rank` is that order, injective on either, and `Ordered`
says which identity stands at place n (the one with n - 1 before it) instead of how
the sort gets there. `Without` takes out one occurrence where the code filters:
validated orders and resolved lists have no other.

`row` is the layout row, `selections`, `pins` and `placements` what `identities`
reads. `Serve` is one request of the API: `LayoutStore.Update` around the edit,
which compares the revision, edits, validates, and writes only what differs. A
commit that reports an error may have been applied (`ServeUnavailable`). Clients
read, preview, submit and learn, or never learn, what became of it; `Outcome` is
what the BFF concludes from an answer. What a request asks for is chosen when it is
served, out of everything its client could have asked from what it had read.
`log` is history. `LayoutRegister` is the promise: numbered versions, each made
from the one just before it.

### DashboardStream

One page and the goroutine that feeds it. The digest the code compares is the
snapshot itself. A tick ends in one of the code's outcomes: failure, keepalive,
status line, changed widgets, or a whole page, which needs a second request for
the layout (`RenderPage`, `RenderFails`) between which and the first the dashboard
may change. A new connection starts from nothing while the page keeps what it
shows. `Publish` follows the code in not recording the snapshot of a tick that
recovers from a failure.

### Presentation

Each store method is one transaction and one action; `IconStore.Save` without
bytes is two, with one rename of an icon under way at a time. `Save(c)` is the whole command with its three selections: replay,
conflict, the two revisions, font and brand checks, the theme row, its reference
rows, settings and receipt. `sent` is never emptied: a command may arrive late,
again, or never. A draft's brand references may keep, clear or set an image.
Deletions fail as the foreign keys and the code's checks make them fail.

### Telemetry

One federated source. `Ingest` is the transaction both stores share; it validates,
ignores what is not newer, deletes expired nodes, upserts, counts against the
limit and writes the minute's samples. The agent publishes a batch if its own
`Ingest` did not fail, which includes ignored ones; the agent's collection and its own
`Ingest` share one clock reading. `drift` is the difference of
the clocks and changes at will within `MaxDrift`; `collected` is history, the true
time of an observation. `Prune` is two statements and two actions.

### PluginWidget

One connection and one placement; the grants of a connection are a function of its
revision. `session` is `Runtime.session` with its child, `status` the cache the
five-second loop fills, `cache` the BFF's render of the placement. A request reads
the placement, then the grants, then shows a cached render or has one made, and
anything may happen between these steps. The UI child comes and goes
nondeterministically, so a render that has not queried yet has the choices of a
request whose grants were read, and has no stage of its own; a query that is cut off
leaves it there, since a plugin may ask again or give up.

An observation's revision is what the backend child says it is. The host checks its
form only, and the scaffold of the repository uses the configuration's revision
(`scaffold.go:125`), so a child may use the revisions of an earlier one. Of one child
the model takes from the design that the revision "changes when data or reported
source state changes", as numbers that grow. `children` numbers the children, and
the `child` in a key and in content is history: the code compares revisions alone
(`Untraced`, `Matches`). `ShownNotStale` claims what a key can tell: the placement
revision, a configuration no older than the descriptor's (connection revisions are
never used again), and an observation no older than the descriptor's if the child
that authorised the request also authorised and answered the render. It does not
claim that a render of an earlier child, or of a placement deleted and created
again, is never shown: both can have the key of a newer one, and the run reaches
such states.

## Runs

| run | instance | shows |
|---|---|---|
| `inbox` | 3 identities, 1 payload, 2 services, capacity 2, retention 1, pages of 1 | a scan misses nothing that stays, no second copy of a retained message, refinement of `DedupInbox`, under stale readings |
| `web_push` | 1 browser with 2 secrets, 1 message, 2 replicas, 2 attempts, 1 fault, fair | one sender, registrations kept apart, stale answers harmless, no silent loss, the queue drains |
| `supervisor` | window 5, budget 2, 2 failures, 11 seconds, fair | budget, no start after cancellation, cancellation ends it, exits noticed |
| `plugin_notifications` | 1 connection, 2 revisions, 3 calls, 2 publications, 1 slot, fair | authority, connection, no leaks, old publishers revoked, a cancelled session ends |
| `catalog` | a Service and a Pod of one source, a manual service, 3 times, 1 call | presence follows the newest snapshot, choices survive |
| `federation` | 2 discoverers, 2 overlapping syncs, 2 times | the gateway follows, acknowledgements are kept, both stores implement `Catalog` |
| `dashboard` | a host, a service and a plugin widget, the built-in groups and one more, 2 clients, limit 1, 2 requests, 1 selection or placement changed | saved layouts read back, each widget resolves once, answers are true, edits do what was asked, refinement of `LayoutRegister` |
| `dashboard_stream` | 2 widgets of 2 kinds, 2 values, 3 layout revisions, 2 connections, 5 changes | a page is of one layout, failures wipe nothing |
| `dashboard_stream_live` | the same; expects a violation | a page called live may show old values |
| `presentation` | 2 themes, 1 preset, 1 font, 1 icon, 1 service, 2 commands, 3 settings revisions | references resolve, commands apply once, replies are true, brand pictures stay |
| `telemetry` | 2 nodes and the root with room for 2, drift 1, 3 cycles | consistent and bounded stores, gateway not ahead, status honest, no way back, charts complete |
| `plugin_widget` | 2 requests, 2 revisions of connection and placement, 2 children with 2 observation revisions | nothing staler is shown than a cache key can tell, grants only for what is configured |

**Why the bounds are enough.** The properties relate two actors or two points in
time: three identities compete for two places and make a scan of three pages, two
replicas, syncs, editors or requests race, two secrets make a replacement, three
configurations make a lost answer, a retry and a replacement, three cycles of an
agent put a late batch behind a newer one, three hosts compete for two places.
Clocks run past every timeout of their instance: retention expires and reclaims,
leases run out and are claimed again, a window of restarts slides by its full
length, nodes expire. In `dashboard` two requests are enough for one to find the
other's version; with `MaxRefs` 2 and three items the limit of references is met.
Telemetry follows the samples of the gateway only, which has every cause of loss
the agent has and the wire besides, and measurements that are complete: the model
treats a partial one alike but for the status it is shown with. Where constants
grow the results do not rest on TLC: nearly all safety properties are proved for
all values, see below. `MaxLag`, `MaxClock`, `MaxSequence`, `MaxFaults`, `MaxTime`,
`MaxCalls`, `MaxRequests`, `MaxToggles`, `MaxChanges`, `MaxConnections`,
`MaxCommands`, `MaxEdits`, `MaxRevision`, `MaxPlacement`, `MaxObserved`,
`MaxChildren`, `MaxCycles` and `MaxDrift` bound what is unbounded in the code; limits such as
`MaxInboxSize`, `MaxHosts`, `Limit` and `MaxThemes` stand for the code's, which are
only compared with.

`CHECK_DEADLOCK FALSE` is set where behaviours stop: a supervisor and a session
end, and the bounds on requests, commands, cycles and clocks end the runs of
dashboard, presentation and telemetry. Symmetry is used for safety only, and the
permutations leave every ordered or distinguished constant alone.

**Fairness.** `Worker(w)`: a replica that runs polls every two seconds; nothing is
assumed of reports (`Abandon` is never forced and never excluded, up to
`MaxFaults`) nor of the push service. `Goroutine` of the supervisor: `start`,
`CheckHealth` and `Close` have deadlines in the code. `Host` and `Respond`: each
call of the session and each publication has a deadline; the child is not assumed
to answer, so `SessionEnds` holds with a child that never does. `Tick`: time
passes. The other specifications state safety and assume no fairness.

## Disagreements and surprises

* `dashboard_events.go:110`: a tick that recovers from an upstream error sends its
  snapshot but does not record it as published. When the dashboard then returns to
  the state before the error, the next tick finds the old digest and answers with a
  keepalive: the page keeps the values of the recovery under a live status line.
  Run `dashboard_stream_live` shows it (`LiveIsCurrent`).
* README.md says that transient Web Push failures "retry up to eight attempts".
  `Next` never looks at `attempts`; only `Complete` gives up at eight. A job whose
  report is lost at the last attempt is claimed again, until it expires.
* README.md and docs/roadmap.md say that an import removes absent candidates that
  are not pinned. The code marks them missing, pinned or not, as
  docs/service-lifecycle.md says; `ChoicesSurvive` and `OnlyMissingPurged` show
  that a snapshot deletes nothing.
* `placements.go:92`: a placement deleted and created again under its identity
  starts at revision 1, so an If-Match of the old one may match the new one, and a
  render cached for the old one may have the new one's key.
* `placements.go:177`: the key of a cached render has the observation revision and
  not the child. A restarted child that counts as its predecessor did, as one made
  from `scaffold.go:125` does, is shown with the predecessor's render until it is
  rendered again. So is a render that one child authorised and its successor
  answered, once the successor reaches that revision.
* `backend.go:151`: a Configure that the host gave up on is not told from one that is
  wanted. Served after a later one has succeeded, it replaces the binding, and the
  author's publisher then leads to a callback the host has stopped, or to none. The
  host of this repository configures a connection once per child and does not meet
  it; a host that retries may.
* `presentation.go:325`: a repeated `CreateTheme` answers with the theme as it is
  now, edits made since its creation included.

## Proofs

All theorems are of the specifications the runs check, for every value of the
constants that satisfies the named assumptions of the modules.

* `NotificationInboxProofs`: type correctness, `UniqueIdentities`,
  `WithinCapacity`, `ScanMissesNothing`, `ScanNeverAliases`, `RowsOnlyGrow`,
  `NoSecondCopy`, `RefusedOnlyWhenFull` and the refinement of `DedupInbox`. The
  inductive invariant adds `Sequenced` (sequences and IDs are drawn together and
  never again, which makes a cursor a boundary in time) and `ScanBounds` (what a
  reader has seen lies above its cursor). Every operation but an insertion
  `Evolves`: it drops rows or fills in a read time or a service.
* `WebPushProofs`: `OneSender`, `QueuedForThisRegistration`, `OnlyDeadRemoved` and
  `NeverSilentlyLost`, for any number of replicas, browsers and messages. The
  invariant says that a sending worker holds the newest attempt of its job and a
  lease that ends no sooner than `Lease - MaxLag` after its claim, and that no two
  claims have the same attempt. From `SendTimeout + MaxLag < Lease` follows
  `SendingNotDue`: while a worker sends, no clock reading finds its job due. A
  second part ties every job to the registration it was queued for, a third every
  "gone" to a registration the push service dropped.
* `PluginRuntimeProofs`, sessions (`PluginNotifications`): type correctness,
  `CommitsUnderAuthority`, `PublisherConnected`, `NoCallbackLeaked` and
  `OldPublishersRevoked`, for any connections, calls and publications. None is
  inductive: calls the host has given up on may still wait in the child, and any of
  them may be served next. The invariant `NInv` says that each call waits or is
  served once (`Queued`), that the callback a waiting call brings is in no use
  (`Fresh`), that what the child has open is what its bindings and the call it
  serves account for (`Held`), that the call the host waits for is the newest and
  its callback is served (`Asked`), and that a call that succeeded is not served
  again, and as long as it is also the last one accepted both sides name the same
  callback (`Agreed`). No order of service is assumed. One lemma per action; the steps of
  the host, of the child and of a publication each leave the others' part alone
  (`HostStepKeeps`, `ChildStepKeeps`, `PublicationKeeps`).
* `PluginRuntimeProofs`, supervisor: type correctness, `RestartBudget`, `OneChild`,
  `OnlyFailedStopped` and `NoStartAfterCancel`, for every window and budget. The
  budget is counted in `attempts`, which forgets; the invariant `Remembered` says
  that only restarts older than the window are forgotten, which for the reset after
  a long run needs that no restart is later than `readyAt`. `Owned` ties the open
  child to the place in the code, `CountedRight` the failure counter to the checks
  that failed.
* `CatalogProofs`: type correctness, `PresenceFollowsNewest`, `ChoicesSurvive`,
  `OnlyMissingPurged` and `PinsGrantedLive`, for all sources, candidates, groupings
  and orders of snapshots. `TypeOK` and `PresenceFollowsNewest` are inductive
  together; `ApplyEffect` and `UserEffect` sum up what a snapshot and a user's
  operation do to rows, and each property follows from those two.
* `CatalogProofs`, federation: `GatewayFollowsAgent`, `AcknowledgedIsApplied` and
  that both stores implement `Catalog`, for any number of overlapping syncs and any
  network. The invariant `FedInv` follows a snapshot from its listing to the
  gateway: what is published the agent has reached, one time of one source is one
  snapshot although two syncs may read the same clock (the second is dropped by the
  watermark), and a store that stands at the time of a published snapshot has seen
  what it saw. The gateway's half is then the catalog's own invariant, of which
  `CatalogsRefined` says that it applies.
* `DashboardProofs`, layouts: type correctness, `StoredLayoutReadable` (a document
  accepted against its predecessor is accepted against itself with nothing
  selected), the refinement of `LayoutRegister` (the revision is the number of
  versions, and the row is the last), `SharedLimit`, `AnswersTruthful`,
  `EveryWidgetOnce` and `EditsAsAsked`. `AnswersTruthful` needs `Identified`: a
  request on its way has neither been written nor answered, identities are not used
  twice, so what is written later is written for another request and further down
  the history (`StaysTruthful`).
  The other two start from `DInv`: whatever is saved, held in a tab or sent is a
  document with all its parts (`DocumentsShaped`), through every draft and every
  edit (`DraftShaped`, `EditShaped`). Lists need no induction, because `Ordered` is
  defined by counting: the numbers of identities before each one are pairwise
  different and below the size of the set, so by cardinality each place is taken
  once (`PlaceFacts`, `OrderedFacts`), and a custom order that ranks all of them
  comes out as it is (`OrderedRanked`). `EveryWidgetOnce` is that together with
  `OneGroupEach`: a consistent document has one group for each widget.
  `EditsAsAsked` takes each accepted edit apart (`OrderItemsCases`, `MoveCases`).
  Making the destination's default members explicit leaves them its members
  (`OrderedMembers`), and nothing else changes group (`MoveKeepsOthers`); the list a
  move writes names its widget right before the one asked for (`MovedFacts`) and,
  being accepted, has no duplicate, so the resolved list is that list.
* `DashboardProofs`, stream: types, `PageOfOneLayout` and `FailureKeepsValues`.
  Between the two requests of a page the dashboard may change at will; the
  invariant `Rendering` says that the snapshot kept for the second still follows
  from the items retained, a widget without data in it having had none before.
* `PresentationProofs`: type correctness, `ReferencesResolve`, `AppliedOnce`,
  `RepliesTruthful` and `BrandPictureStable`, for any themes, fonts, icons and
  commands. References: a stored theme's fonts have their rows in
  `presentation_theme_fonts`, the only thing `DeleteFont` looks at, and rows name
  stored fonts. Commands: the n-th commit was sent for settings revision n - 1, so a
  command that arrives again finds a newer revision unless it is the one the
  settings row remembers. The drafts are assumed to be records of their type, and
  `Nil` and `Gone` to be no rows (`DataAssumptions`).
* `TelemetryProofs`: type correctness and all five properties of the run. The
  invariant says of each store that no row is newer than the root and that an
  observation is at most `MaxDrift` from the true time it was made, and of each
  batch held or on the wire that the agent's store has reached it. Charts need that
  the pruning cutoff, a minute rounded down, is never inside the chart's window.
* `PluginWidgetProofs`: type correctness, `ShownNotStale`, `GrantsConfigured`. The
  invariant orders revisions along the path: status no newer than the child, a
  request's key no newer than the row, nor than the observation of the child whose
  status it has, as long as that child answers (`StillCovers`); the content of
  answers and of the cache is of its key's placement revision, of no older
  configuration, and of no older observation where one child both authorised and
  answered the render (`Covers`). Nothing is assumed of the revisions of different
  children.

**Only model-checked**: the liveness properties `QueueDrains`, `CancelEnds`,
`ExitNoticed` and `SessionEnds` (the prover has no fairness or `ENABLED`). Every
other property of the runs is a theorem. `UniqueIdentities`, `WithinCapacity`,
`ScanNeverAliases`, `RowsOnlyGrow`, `RefusedOnlyWhenFull`, `OneChild`,
`OnlyFailedStopped`, `OnlyMissingPurged`, `PinsGrantedLive` and `SharedLimit` are
proved and have no run of their own.

## Not modelled

More than half of the implementation's lines are generated (the OpenAPI client and
server, `*_templ.go` views, protobuf): about 33,000 of 58,900. They have no logic
of their own, and no line of them is mapped. Of the rest, left out as pure
translation, validation of contents or I/O: discovery adapters and telemetry
collectors, HTTP decoding and read-only routes, rendering and the front end's
forwarding, encryption and VAPID signatures, font and image validation, plugin
author tooling, manifests, configuration and the demo.

Not modelled although it has state: plugin actions (`actions.go` of both
runtimes), the bounded call slots of the runtimes, and the UI registry's
initialisation. `related.go`, which joins the catalog's groups by exposure
evidence, is a pure function and is not modelled either.

## Plan

1. `related.go` as operators over small candidate sets: that the result does not
   depend on the order of candidates, and that services exposed at different hosts
   are not joined.
2. Plugin actions with their slots, and the UI registry, over `PluginWidget`.

# Formal models of Radar

Radar is a Go server with a React UI that shows a Kubernetes cluster: it lists
and watches the cluster through informers, keeps a timeline of changes, and
pushes events and topology graphs to browsers, which also open terminals, logs
and port forwards through it. This directory models the parts in which
goroutines, handlers, timers, messages and React effects share state: on the
server connecting to a cluster and switching to another, the staged start of the
informers, the server-sent-event hub and the caches and logs it feeds; in the
page what follows that stream, and the panels whose requests are answered late,
in another order or not at all.

Each module is written from the Go or TypeScript source; `PROJECT.json` maps
every definition to the lines it stands for. TLC checks the models on small
instances. Every safety property of the runs that pass TLAPS also proves as a theorem,
for every value of the constants.

- [The system](#the-system)
- [The modules](#the-modules)
- [What is checked](#what-is-checked)
- [Fairness](#fairness)
- [What is proved](#what-is-proved)
- [Where code and comments disagree](#where-code-and-comments-disagree)
- [Behaviours the models have and no property forbids](#behaviours-the-models-have-and-no-property-forbids)
- [What is not modelled](#what-is-not-modelled)
- [Plan](#plan)

## The system

The server (paths below `internal/` and `pkg/`):

| Component | Source | State | Operations | What makes it correct |
|---|---|---|---|---|
| Boot connection | `app/bootstrap.go` | connection status | `InitializeCluster`: `/version` check and subsystem init in parallel | ends on connected or disconnected; a failed check cancels the init |
| Context switch | `k8s/context_manager.go`, `subsystems.go`, handlers in `server/server.go` | operation context, clients, status | cancel, teardown in order, swap, test, init, report | "connected" means one running cache, of the cluster that is named |
| Cache globals | `k8s/cache.go`, `dynamic_cache.go`, `discovery.go`, `metrics_history.go` | pointers and their `sync.Once` | init, get, reset | no stopped cache is served, no running one is lost |
| Resource cache | `pkg/k8score/cache.go` | informers, sync marks, `deferredDone` | staged start, give up, stop, readiness questions | what is served is complete, or the answer says why not |
| SSE hub | `server/sse.go` | client table, channels | subscribe, stream, unsubscribe, broadcast, stop | bounded table, one close per channel, nobody waits on a slow reader |
| SSE watchers | `server/sse.go` | stop and warm-up channels | restart at each switch, drain, wait for the deferred sync | one live watcher per cache; the warm-up ends |
| Topology cache | `server/sse.go` | topology and dirty mark | rebuild on broadcast and on demand, clear at a switch | a stale or missing topology is marked |
| Timeline store | `pkg/timeline` | ring buffer | append, batch, query | the newest events, in order; pages without gaps |
| Timeline recording | `k8s/cache.go`, `recreate_stash.go`, `timeline/` | global store, seen marks, stash | add, update, delete; open and close at a switch | events name their cluster; no watched creation is missing |
| Namespace scope | `server/namespace_scope.go` | pick per user and context | read, choose | only namespaces the user may list |
| Port forwarding | `server/portforward.go` | session table | start, stop, list, stop all | status follows the forwarder; a stopped forward ends |
| Updater | `updater/updater.go`, `server/desktop_update.go` | state, file, error | start, download, apply | one download; what is applied is what the last one fetched |
| Manifest update | `pkg/k8score/workload.go` | (the cluster's) | update | a resource gets its own manifest only |
| Node debug pods | `server/exec.go` | pods in the cluster | create, delete | deleted with the terminal they serve |

The page (paths below `web/src` and `packages/k8s-ui/src`):

| Component | Source | State | Operations | What makes it correct |
|---|---|---|---|---|
| Live topology, switch overlay | `hooks/useEventSource.ts`, `components/ContextSwitcher.tsx` | topology, throttle, stream, overlay | messages, timers, reconnect, pick, answer | the newest topology is shown; the overlay ends |
| Connection state | `context/ConnectionContext.tsx` | what the page believes | poll, stream, retry | it becomes what the server says |
| Topology layout | `components/topology/` | layouts under way, places, canvas | lay out, drag, reset, retry | the newest is drawn; nodes keep their places |
| Live lists | `App.tsx` | marks and timers of two tiers | mark, invalidate, start over | no list stays out of date unnoticed |
| Namespace scope | `App.tsx`, `api/client.ts`, `NamespaceSwitcher` | four copies of the pick | effects, history, requests | the copies agree |
| Terminal | `components/dock/TerminalTab.tsx` | session, socket, error | connect, reconnect, pick a container | one live session |
| Dock, node terminals | `components/dock/` | tabs, debug pods | open, close, clean up | shows a tab it has; pods go with their tabs |
| Log viewer | `components/logs/` | source, buffer | snapshot, stream, stop, pick | one container's lines, in order, once |
| Timeline lanes | `utils/resource-hierarchy.ts` | lanes and parents | owners, edges, labels | every lane is drawn, pods with their Service |
| Update notification | `components/ui/UpdateNotification.tsx` | polling, last status | start, poll, apply | an attempt's outcome is shown |
| Manifest editor | `components/shared/EditableYamlView.tsx`, `WorkloadView` | text, drafts, query | open, edit, choose another, save | text survives a reload; the page ends on the cluster's manifest |
| Port forward list and panel | `components/portforward/PortForwardManager.tsx` | list, panel, timer | start, stop, change, open, minimise | lists what there is; a panel in use stays |

The other parts (dynamic cache, kubeconfig registry, topology builder, cloud tunnel, HTTP API, MCP, Helm, GitOps, audit, search,
metrics sources, auth, settings, the other views, desktop, deploy) have no module;
`PROJECT.json` lists each with the reason.

How they interact. `server` handlers call `PerformContextSwitch`, which tears
down and rebuilds the globals of `internal/k8s` and then calls back the SSE
broadcaster; `SetConnectionStatus` calls it back too. Informers hand each change
to `recordToTimelineStore` and then put it into their change channel. The broadcaster's watcher
goroutine drains the change channel of the current resource cache and asks for
topology broadcasts; handlers read the cache globals without a lock, and the
cached topology through `GetCachedTopology`. A page holds one event stream, whose
messages set the topology and the connection state and invalidate queries
(React Query); effects carry what changed to the layout, the URL and back to the
server. Everything else a page does is a request whose answer comes when it does.

What is hard. No lock covers a context switch as a whole: several handlers and
the boot may be in one at a time, and a failed boot leaves its init running. A
`sync.Once` is replaced while others may hold it. The sync of the informers is
a race of several timers with an environment that may never answer. Channels
are replaced under goroutines that captured the old ones, or have yet to
capture. The dirty mark is set and cleared around builds that take seconds. In
the page one piece of state has several writers (a stream, a poll, an answer, a
timer), each of which knows only what it captured when it was started; effects
trigger each other, and components are unmounted under what they wait for.
`PROJECT.json` lists these hazards line by line, with the properties that
would catch them.

## The modules

| Module | Models | Checked in |
|---|---|---|
| `ContextSwitch`; `ContextSwitchProofs` | boot, handlers, subsystem init, cache globals | `MCContextSwitch` |
| `ResourceCacheSync`; `IntakeProofs` | `NewResourceCache`, its goroutines, readers, `Stop` | `MCIntake` |
| `SSEHub`; `SSEProofs` | client table, handlers, senders | `MCSSE` |
| `SSEWatchers`; `SSEProofs` | watcher and deferred-sync goroutines over switches | `MCSSE` |
| `TopologyCache`; `ClusterViewProofs` | cached topology and its dirty mark | `MCClusterView` |
| `TimelineRecording`; `ClusterViewProofs` | `recordToTimelineStore`, seen marks, recreate stash, store over switches | `MCClusterView` |
| `EventLog` | abstract: the newest events, in order | `MCIntake` |
| `EventRing`; `IntakeProofs` | `MemoryStore`, which implements `EventLog` | `MCIntake` |
| `LiveStream`; `PageProofs` | event stream, throttle, context switch of the page | `MCPage` |
| `ConnectionPanel` | connection state of the page | `MCPage` |
| `TopologyLayout`; `PageProofs` | layout of the graph | `MCPage` |
| `TerminalTab`, `Dock`, `LogViewer`; `PanelProofs` | terminals, dock, debug pods, logs | `MCPanels` |
| `LiveQueries`; `PanelProofs` | lists | `MCPanels` |
| `LaneHierarchy`; `LaneHierarchyProofs` | timeline lanes | `MCPanels` |
| `NamespaceScope`; `PanelProofs` | the pick at the server and in the page | `MCPanels` |
| `PortForwards`, `PortForwardPanel`; `PanelProofs` | sessions, forwards, list; panel | `MCPanels` |
| `DesktopUpdate`; `PageProofs` | the Updater and the notification | `MCPage` |
| `YamlEditing`; `PanelProofs` | manifest editor, query, update | `MCPanels`; drafts by itself |
| `SetInduction` | induction for the proofs about recursive functions | |

`MCSSE`, `MCIntake`, `MCClusterView`, `MCPage` and `MCPanels` put several modules into one run
without composing them: a variable (`half`, `part`) chooses one at the start, and the
others stay in an initial state. The components they hold share no state, so
that a product would only multiply what each does alone. `MCContextSwitch`
chooses in the same way between two uses of one module (`serial`). The proof modules
hold the theorems of the modules that stand before them in the table; each
extends those modules and proves about their own specifications, not about what a
run puts together; only `ContextSwitchProofs` also speaks of `MCContextSwitch`, for
the properties that are about its requests in series.

### ContextSwitch

An actor is the boot or one HTTP request. `pc` is its place in the handler and
`PerformContextSwitch`; `ipc` its place in `InitAllSubsystems`; `dpc` the place
of the API discovery goroutine that function spawns. The package globals are
shared: `client`, `status`, `resourceCache` and `cacheOnce`, `dynamic`,
`discovery` and `discOnce`, `metrics`. A `sync.Once` is a number, since a reset
replaces it by a fresh one; `onceBusy` and `onceDone` say which have run.
`resourceCache` names the actor whose init built the cache, so that `informers`
and `built` tell whether it runs and which cluster it lists.

One action is one stretch of code between two points where another goroutine
can be noticed. `ResetResourceCache` has two, because `InitResourceCache`
installs without taking `cacheMu`. An operation context is done when its own
timeout or `cancel` fired (`expired`) or a later operation replaced its parent
(`ctxGen[a] < opCtx`). The four subsystems that depend on no other (metrics
history, timeline, Helm, traffic) are represented by the metrics history.

`Overlap` names an assumption about the environment: which earlier work a
request may find still running ("boot", another "request", or "leftover"
goroutines of work that already returned). With `Overlap = {}` handlers come
one at a time.

### ResourceCacheSync

Kinds fall into `Critical`, `Deferred`, `Background` (Events) and `Denied`;
informers sync in any order, or never. `ctor` is the constructor's place;
`waiter` and `bg` are its two goroutines; `statuses` the diagnostics that one
tracking goroutine per informer keeps; `reader` an HTTP handler that looks for
a lister and then asks why there is none, reading the state in three steps.
`Timers` says which timeouts are configured; `internal/k8s` sets all three.
The pass over the deferred keys is atomic: an informer that syncs during a pass
is taken to sync after it, which loses no behaviour, as marks only accumulate.

### SSEHub

`run` is the goroutine that owns the table, with the handler it is serving. The
unbuffered channels are rendezvous: `Subscribe` and `Unsubscribe` are steps of
the handler and of `run` at once. The `RWMutex` is modelled with the writer
preference of Go: a waiting writer holds back new readers. Senders go through
the table client by client, either under the read lock ("events") or from a
copy ("topology"), so that they may meet a channel closed meanwhile. An event
is the version of the connection status it carries, or 0.

### SSEWatchers

Each switch spawns a pair of goroutines. Stop and warm-up channels have
numbers; `watcher[p]` and `waiter[p]` hold the numbers their goroutine captured
when it first ran, which is later than when it was spawned. The cluster side is
reduced to the cache pointer, the closing of `deferredDone`, and whether Radar is
connected, driven by one boot and by one switch at a time, which may fail.
`prompt` says whether a spawned goroutine first runs before the next switch
begins: `OneLiveWatcher` and `WarmupEndsAfterSync` are stated under it,
`BroadcasterFollowsCache` also without.

### TopologyCache

A topology is known by the cache it shows and how many changes of it. `owed` and
`scheduled` say that the debounce timer, or a spawned goroutine, will run a
broadcast; several spawned at once are one. A build reads the cache when it
begins to read, and is stored later; between them anything may happen.
`overlapped` remembers whether something did: a mark may then be lost, and
`DirtyCoversChanges` leaves those runs to `TopologyComesBack`. What a topology
contains is not modelled.

### TimelineRecording

One resource, known by its kind, namespace and name, that exists in no, one or
every cluster, under a new uid after each creation. `phase` is the place of the
teardown, the swap and the init, `connection` the number of the informers they
start. An informer compares what it holds with the cluster (`Observe`), so that
re-lists that jump over a deletion are among its steps, and its goroutine takes
one notification at a time through `recordToTimelineStore` (`task`), which reads
the store, the mark, the stash, the context and the store again, in that order.
`store` is the connection the global store was opened for; `seen` the marks in
memory and `onDisk` those of SQLite, from which a store starts. `young` stands
for the thirty seconds of the age tests. `Draining` says whether a goroutine may
go on recording after its informer was stopped. What events say is reduced to
their kind, their object, the cluster they name and what they are compared with;
`before`, what the informer last saw deleted, is what a comparison should be
with. Queries, subscribers and retention are not modelled, nor the second
informer of a kind name that two API groups share.

### EventRing and EventLog

`EventRing` has the store's indices and its arithmetic. Holding the lock over a
batch is `writing`; events are written one by one, so that properties hold
between them as well. `Query` is the code's loop as a
recursive function, with the filters known by the set of events they let through. `EventLog` is the promise: a
sequence of the newest events, the oldest forgotten when full. The refinement
reads the ring backwards from `head`.

### The page's modules in general

JavaScript runs one task at a time, so an action is a task: a message, a timer, a
settled promise or a click, with the state it sets and the effects that run
after it. What a closure captured is state of its own, as it may be old when the
closure runs. A request has a place for each of its ends: asked, served, on its
way back. React, React Query, React Router, the browser's sockets and ELK are
external, modelled by what the code relies on. Some properties leave out a kind
of run in which the code is known to fail; a history variable remembers it,
and the section on behaviours below names each.

### LiveStream

`topology`, `pending`, `timer` and `waiting` are `useEventSource`'s state and
refs; `recent` is all that is kept of the clock. `wire` holds the messages under
way, and a full one drops, as the server's queue does. `request[s]` is the place
of the s-th pick in the header: counting sessions, waiting for the user, posted,
given up after the timeout, answered. The server broadcasts topologies of its
cluster and completes or fails switches; only the latest can succeed.

### ConnectionPanel

`connection` has three writers. `statusPoll` and `data` are the query that runs while
the page believes "connecting", `inbox` the stream's messages, `retry` the
user's request. `sseActive` is the ref by which the stream outranks the poll.
The server's status changes by boots, by switches of other pages and by retries;
it can restart, which breaks the stream.

### TopologyLayout

`report` is the topology the page was given last, its nodes and a number; `structure` is the key the effect
compares, `version` the counter by which it knows the newest layout, `layouts`
those in the worker with what they captured. The worker may die with what it
had; a layout that fails shows the error, and a retry asks again. A place is the
layout that computed it or `ByHand`, which makes "stays where it is" a
comparison of numbers.

### TerminalTab, Dock, LogViewer

`TerminalTab` numbers the runs of `connect`; `attempt[a]` is how far each has
got. Handlers of an old socket still run, guarded by `wsRef` and `cancelledRef`.
`Dock` has tabs in order, the active one, and for each node terminal its request
for a debug pod and its cleanup, which run beside each other. `LogViewer` has the
container's log at the server and the page's snapshot requests, stream and frame
buffer; lines are numbered, so that order, loss and repetition can be told.

### LiveQueries, LaneHierarchy

`LiveQueries` has the two sets of marked kinds and their timers, and for every
list the fetch under way and the answer on its way. `LaneHierarchy` takes an
arbitrary small set of events and labels in its initial states and the edges one
by one, then computes owners, edges, labels and the tree as the function does.

### NamespaceScope

One step is a commit of React: the effects whose dependencies changed (`dirty`)
run in their order. Whether React Router's transition joins a commit or comes in
the next is a choice. The server's side is the read and the write of the pick
with the check against what the user may list.

### PortForwards, PortForwardPanel

A session has its status, its port, its forward (client-go's `ForwardPorts`) and
the two channels that end it. `HandlerWakes` is the second half of the start
handler, after its pause. The page's calls have the stages of their promise
chains; change is a stop, a pause and a start. `PortForwardPanel` is the
provider's effect on the number of sessions with the minimise timer.

### DesktopUpdate

An attempt is the number of its download; `download[a]` is how far its goroutine
has got, `asset` and `err` the attempt whose file or error the Updater holds.
The Updater's mutex makes each of its operations one step, and `Apply` two, as
the files are replaced without it. The page has its three requests (`start`,
`poll`, `apply`), `updating` for `desktopUpdating`, and `status` for the query's
data. A poll's answer carries, beside the state, the attempt it is of; the page
does not read it, the properties do. Reload begins the page anew beside an
Updater that goes on.

### YamlEditing

A text is the resource it names and the number of the edit that made it. `live`
is the cluster, `cached` the informer cache behind the page's fetches, `heard` the
events the page will handle after its debounce; `detail[r]` and `fetch[r]` are
the query of a resource. `at` is the resource the page is on, `shown` whether its
YAML view is mounted. Choosing another resource whose manifest is at hand lets
the same instance of the view go on (`SelectBeside`), otherwise it is unmounted;
either way the effects that store and remove drafts run in the order the code
lists them. `save.own` says that the view that asked is still there.

## What is checked

Six runs pass and six show a disagreement. Every property of a
passing run has a mutant in `PROJECT.json`: a plausible bug that breaks it.

| Run | Instance | Shows |
|---|---|---|
| `ContextSwitch_live` | 3 requests in series after the boot, or 1 at any point of the boot or of its leftovers; 2 clusters | in series: subsystems agree on their cluster, "connected" is true, no informer is orphaned; beside the boot: stopped caches are not served, the status settles, the request returns |
| `Intake_live` | one kind of each tier, all timers; ring of 3, batches up to 4 | readiness is truthful, every goroutine, waiter and banner ends; refinement of the log, paging |
| `SSE_broadcaster` | 2 handlers for 1 place, 2 senders, queue of 1; boot and 2 switches with prompt start, 1 with late start | single close, no ghosts, no waiting on slow readers; one live watcher, warm-up after the sync, the connected cache is followed |
| `ClusterView_switches` | 2 broadcasters, 2 readers, 2 changes, 1 switch; 2 clusters, 2 connections, 2 creations with 1 change each, 1 notification waiting | a settled cluster has a topology or a mark, and one built undisturbed is current or marked; events are of the cluster they name, re-creations compared with what they replaced, watched creations recorded |
| `Page_live` | 2 picks, 2 topologies per cluster, 1 break, wire of 2; 1 foreign switch, 1 retry, 1 loss; 2 nodes, 2 reports, 1 view change, 1 failure; 3 attempts, 2 applies, 1 reload | the newest topology is shown and drawn, nodes keep their places, the overlay ends, the page agrees with the server and shows how an update ended |
| `Panels_safe` | see `Panels_safe.cfg` | one session per terminal, tabs and debug pods, one log, no forgotten list, all lanes, one pick, port forward status, list and panel; drafts equal the editor, which ends on what the cluster has |
| `ContextSwitch_leftover` | violation | informers orphaned by a drained boot init |
| `SSEHub_status` | violation | a status change missed between greeting and table |
| `PortForwards_stopall` | violation | a forward that outlives the stop of all |
| `NamespaceScope_failure` | violation | a refused pick that the page keeps |
| `Recording_seen` | violation | a new object dropped as already seen |
| `YamlEditing_drafts` | violation | a draft removed by looking at its resource |

Bounds, server. Two clusters are enough, since a property only compares the
cluster of one thing with that of another. Three serial requests cover a switch
after a success and after a failure at each stage, twice over. One request
beside the boot brings two inits to one Once and a teardown between. Requests
that overlap with each other are not in any run; the theorems about
`ContextSwitch` that say nothing of `Overlap` cover them. One kind per tier lets each tier sync, stall and be
given up independently. A queue of one event is full and empty as often as one of
ten, and one place with two handlers has the race of the hundredth with the
hundred-and-first. Two broadcasters and two readers give every pair of builders.
A ring of three wraps with a first, a middle and a last slot, and a batch of four
overwrites its own start. Two connections, to two clusters or twice to one, and
two creations give one resource in both, or one that is deleted and created
again on either side of a switch; one notification waits while another is
recorded. Broadcasters, readers and clusters are symmetric; requests in series
are numbered in the order of their arrival instead.

Bounds, page. Two picks let a second switch start while the first is counted,
confirmed, posted or given up; two topologies per cluster give the throttle one
to show and one to keep, and one break can come at any point of it. One switch
from elsewhere, one retry and one loss meet each other in every order. Two
layouts beside a view change and a failure overtake each other; two nodes let one
stay while the other goes. Three attempts and two picks give a terminal an old,
a current and a next session. Three tabs let the last, the active and another be
closed. Two lines and two starts suffice for a repetition, a gap or a mixture.
Two kinds, one with a slow and one with a fast mark, a switch and a lost stream
cover both tiers. Five lanes have an owner chain of three below a Service below
a route. One act of the user and one mishap at any point of the effects' cascade:
more are the same cascade again, as the page comes to rest in between or, if it
does not, the two exchanges have crossed. Two sessions on two ports, two calls
and one switch let a change meet another session's start and a stop-all. Three
attempts are one that fails, a retry, and one after an apply. Two resources are
the one that is left and the one that is come to; three moves are opening,
leaving and coming back; two edits let the user's and another's
meet, or two of the user's around a save.

Deadlock is checked except in the runs of the page and its panels, which come to
rest when their bounds are used up and nothing is under way.
`ContextSwitch` says so with an explicit `Rest` step, `MCSSE` with
`WatchersWait`, `MCClusterView` with `RecordingRests`.

## Fairness

Goroutines are scheduled by the Go runtime, and tasks by the browser, so each
step of one is weakly fair. API calls have deadlines and return in the end, so
steps that wait for one are fair too. Beyond that:

- `ContextSwitch`, beside the boot: no request need arrive and no timeout need
  fire. Requests in series are checked for safety only.
- `ResourceCacheSync`: the patience and sync timers fire; the deferred timer
  (three minutes) is not assumed to; informers may never sync; nobody need call
  `Stop` or read.
- `SSEHub`: clients need not hang up; a handler leaves by itself only once its
  channel is closed and drained. Events and `Stop` need not come.
- `SSEWatchers`: a switch that began ends; `deferredDone` closes, as
  `internal/k8s` configures `DeferredSyncTimeout`; no switch need begin.
- `LiveStream`: the server answers and sends what it has scheduled, messages
  arrive, the throttle and reconnect timers fire. Nothing is asked of the user,
  of further changes, or of a stream not to break.
- `ConnectionPanel`: a boot settles, a retry is served, the link opens again,
  polls are asked and answered.
- `TopologyLayout`: a layout ends, with a result, an error or the worker's death.
- `DesktopUpdate`: a download ends, as its HTTP clients have timeouts; the poll's
  interval comes round, and polls and an accepted start are answered. Nobody
  need click, and an apply need not end.

The modules of `MCPanels` and `MCClusterView`, and the ring of `MCIntake`, are
checked for safety only.

## What is proved

| Module | Theorem | States |
|---|---|---|
| `ContextSwitchProofs` | `TypeCorrect` | `TypeOK` |
| | `OneInitPerOnceHolds` | `OneInitPerOnce` |
| | `StoppedCacheOnlyInTeardownHolds` | `StoppedCacheOnlyInTeardown` |
| | `NeverLeftConnectingHolds` | `NeverLeftConnecting` |
| | `ServedInSeries` | `ConnectedServesCurrentCluster`, `SubsystemsOnOneCluster`, if `Overlap = {}` |
| | `OneClusterInSeriesHolds`, `NoOrphansInSeriesHolds` | the same without `Holds`, if `Overlap = {}` |
| `IntakeProofs` | `SyncTypeCorrect` | `TypeOK` |
| | `FirstPaintIsEarnedHolds`, `DeferredDoneIsTruthfulHolds`, `LateKindsServedInFullHolds`, `AnswersAreExplainedHolds` | the same without `Holds` |
| | `RingTypeCorrect` | `RingTypeOK` |
| | `RingImplementsLog` | `KeepsTheNewest` |
| | `QueriesPageTheLogHolds` | `QueriesPageTheLog` |
| `SSEProofs` | `HubTypeCorrect` | `TypeOK` |
| | `ClientLimitHolds`, `ClosedOnceHolds`, `NoGhostClientsHolds` | the same without `Holds` |
| | `WatchersTypeCorrect` | `WatchersTypeOK`, `Turns` |
| | `OneLiveWatcherHolds`, `WarmupEndsAfterSyncHolds` | the same without `Holds` |
| `ClusterViewProofs` | `TopologyTypeCorrect` | `TopologyCacheTypeOK` |
| | `TopologyComesBackHolds`, `DirtyCoversChangesHolds` | the same without `Holds` |
| | `RecordingTypeCorrect` | `TimelineRecordingTypeOK` |
| | `HistoryIsTrueHolds`, `CreationsAreRecordedHolds` | the same without `Holds`, if `~Draining` |
| `PageProofs` | `NewestIsShownHolds` | `NewestIsShown` |
| | `LayoutTypeCorrect` | `TopologyLayoutTypeOK` |
| | `DrawnIsTheNewestHolds`, `NodesKeepTheirPlaceHolds` | the same without `Holds` |
| | `DesktopUpdateTypes` | `DesktopUpdateTypeOK` |
| | `OneDownloadAtATime` | `OneDownload` |
| | `LastAttemptDecides` | `OutcomeIsOfTheLastAttempt` |
| `PanelProofs` | `OneLiveSessionHolds` | `OneLiveSession` |
| | `DockShowsATabHolds`, `DebugPodsAreCleanedUpHolds` | the same without `Holds` |
| | `LogTypeCorrect` | `LogViewerTypeOK` |
| | `ShowsOneLogHolds`, `StreamStateIsItsOwnHolds` | the same without `Holds` |
| | `ListsTypeCorrect` | `LiveQueriesTypeOK` |
| | `NoListIsForgottenHolds` | `NoListIsForgotten` |
| | `ScopeTypeCorrect` | `NamespaceScopeTypeOK` |
| | `OnePickHolds` | `OnePick` |
| | `ForwardsTypeCorrect` | `PortForwardsTypeOK` |
| | `StatusIsTruthfulHolds`, `ListShowsTheSessionsHolds` | the same without `Holds` |
| | `KeptPanelStaysHolds` | `KeptPanelStays` |
| | `ManifestsStayApart` | `OwnManifest` |
| | `DraftsAreStored` | `DraftMirrorsTheEditor` |
| | `ShownIsLiveAtRestHolds` | `ShownIsLiveAtRest` |
| `LaneHierarchyProofs` | `LanesAreShownHolds` | `LanesAreShown` |

The only assumptions are those on the constants, each named in the module that
declares them (`...Assumption`): bounds are natural numbers, values that stand
for "none" are none of the values they stand beside, disjoint roles are disjoint.
Where a proof module extends several components, the assumption is an operator
and a hypothesis of the theorem, and the MC module assumes it, so that TLC
evaluates it. Nothing bounds the number of requests, kinds, handlers, switches,
tabs, lines or sessions. What a theorem states is not checked by a run again
where the proof says all there is to say (type correctness, `OneInitPerOnce`,
`ClientLimit`, `AnswersAreExplained`, `FirstPaintIsEarned`,
`LateKindsServedInFull`, `OneDownload`, `OutcomeIsOfTheLastAttempt`, `OwnManifest`).

Two hypotheses are about behaviour. `Overlap = {}` says that handlers come one
at a time and find nothing of an earlier one at work; without it the
`NoOrphanInformers` of its invariant fails, as `ContextSwitch_leftover` shows. `~Draining` says that a
recorder does not go on after its informer was stopped, without which TLC finds
the histories listed below. Properties that leave out a kind of run by a history
variable do so in their own statement.

Each proof shows that an inductive invariant, which TLC checked first, holds
initially, is kept by every action and implies the property.

Two properties are about what a recursive function computes in one state, and
need induction over its argument. The library's induction theorems take an
operator as a parameter, which the provers cannot instantiate; `SetInduction`
says the same of a set: one that has 0, and with `n` also `n + 1`, has every
natural number, since the well-founded order of the numbers gives what it lacks
a least element. From that it follows that a function defined by recursion
exists, and hence that a `LET f[i \in 0 .. N]` is what its definition says.

Server:

- **OneInitPerOnce** needs to know that a Once somebody ran is busy or done
  (`RanIsTaken`), so that no later caller finds it free.
- **StoppedCacheOnlyInTeardown** follows once the published cache is known to
  be one whose init is past its install (`PublishedIsInstalled`), and the
  informers of an init about to install to be live (`AboutToInstallIsLive`):
  only the published cache is ever stopped. It holds under every overlap.
- **ServedInSeries** rests on `SeriesInv`. `Turns` says that only one actor is
  at work, that the boot comes before the requests, and that nobody's init runs
  before he has come to it; the published cache and discovery are then those of the client
  (`CacheIsOfClient`, `DiscoveryIsOfClient`), an init finds its Onces fresh
  (`OnceIsFresh`), and the dynamic cache comes after the cache it feeds on
  (`DynamicComesLast`). `ConnectedIsServed` carries the promise past the handler
  that reported it.
- **ResourceCacheSync**: `SyncInv` joins three parts to `TypeOK`: what the
  constructor promises before it publishes (`ConstructorInv`), how the waiter's
  place, the marks and the failure flag go together (`MarksInv`), and what the
  reader may conclude from what it has read so far (`ReaderInv`).
- **SSEHub**: `HubInv` adds that the table is finite, that a handler being
  added is new to it and its channel still open, and that one being removed has
  left. Without these a second close could not be excluded.
- **SSEWatchers**: under `prompt` a goroutine that has yet to capture its
  channels is of the newest pair, and one that runs has captured its own
  (`PairInv`), so that closing the current stop channel ends the one watcher
  that lives; a warm-up channel is closed by its own waiter for the cache in
  use, or for one that is gone (`WarmupInv`).
- **RingImplementsLog** is a step simulation over the modular arithmetic: a
  write shifts the ring, read backwards, by one.
- **QueriesPageTheLog** follows from the types. By induction along the walk the
  reader has the page of the events let through so far (`PageOf`): a visit counts
  a match below the offset, adds one within the page and leaves out one past its
  end (`VisitPages`).
- **TopologyCache**: a mark that was taken off is carried by a builder that will
  store a topology or set the mark again (`ComesBackInv`). For
  `DirtyCoversChanges` the builder must store what is current, or a broadcast
  that has not begun will follow it (`CoversInv`).
- **TimelineRecording**: `RecordingInv` follows a running informer's objects
  through its queue. What waits in it is a chain in which each notification
  follows on the one before (`QueueInv`), the stash holds what last went before
  the recorder's own notification, and the mark is for an object that is held
  (`RecorderInv`); hence a join is with the predecessor. `DueInv` adds that an
  object whose creation is owed is recorded, no longer young, or in the hands of
  a recorder that will not take it for one of the initial list.

Page:

- **LiveStream**: while nothing has crossed an armed timer, what is pending has
  one and is the newest (`ThrottleInv`).
- **TopologyLayout**: layouts have a number each, no number exceeds what was
  asked for, and the newest is of what the page shows (`LayoutInv`); unless the
  places were given up, the drawn nodes have the saved ones (`PlacesInv`).
- **DesktopUpdate**: neither property is inductive alone. The attempt whose file
  becomes ready is the last because no other download runs, and it is ready
  without an error because none is kept while one runs (`NoErrorMeanwhile`). The
  page's steps leave the Updater alone (`PageStepsKeepTheUpdater`).
- **TerminalTab**: a live socket is the newest attempt's and the one in `wsRef`
  (`SessionInv`), so that whoever begins anew closes it.
- **Dock**: tabs have ids of their own, given out by the counter (`TabsInv`), for
  which reason removing at an index is the code's filter by id. `ShellInv` ties
  a tab to its request and cleanup, neither of which is made twice.
- **LogViewer**: with no snapshot beside a stream or another (`RunInv`), what is
  shown and what the frame buffer holds are one run of consecutive lines, and
  under an open stream it ends with the line delivered last.
- **LiveQueries**: a list is up to date, its answer is, or something that is
  still to run will have it fetched: an event on the wire, a mark with an armed
  timer, a fetch under way (`ListsInv`). No timer is ever cleared without being
  set to null, which would leave marks that no later one arms.
- **NamespaceScope**: `EffectsInv` says which effects are still to run while URL
  and state differ. While exchanges neither fail nor cross, one of three things
  is the case: the first scope is on its way, one POST is, or the server's pick
  has arrived and the effect that takes it over has run or is about to.
- **PortForwards**: a session in the table was not told to end, so that a forward
  that is over failed and has said so (`TableInv`); whoever changes the table
  leaves a request behind which the list is fetched (`ListInv`).
- **PortForwardPanel**: a kept panel has neither the timer nor the effect that
  arms it (`KeptInv`).
- **LaneHierarchy**: a lane is only put under a lane, so the way up never leaves
  them; it has more places than there are lanes, by which it must come back to
  one (`WayUpEnds`), and where it first does is a root of its own
  (`RootIsItsOwn`), also on a cycle of parents. For the Pods, `LanesInv` says what
  of an earlier source a later one leaves alone.
- **YamlEditing**: with `YamlShape`, which says of what the functions are
  functions, `DraftMirrorsTheEditor` is inductive; `OwnManifest` rests on the
  check of `UpdateResource` alone, since the editor itself may hold another
  resource's text. `ShownIsLiveAtRest` needs that an answer on its way, and what
  is held for the resource shown, is what the informer cache has, unless an
  event or a refetch is to come (`FreshInv`).

Only model-checked:

- Liveness under fairness, and with it `ENABLED`: `RequestBesideBootSettles`,
  `EveryWaitEnds`, `HandlersAreServed`, `BroadcasterFollowsCache`,
  `PageCatchesUp`, `SwitchOverlayEnds`, `PageAgreesWithServer`, `GraphIsDrawn`
  and `AttemptIsReported`. `ConnectionPanel` has only such a property and hence
  no theorem.

## Where code and comments disagree

1. `bootstrap.go:291-292`: "Drain subsystem goroutine in background to prevent
   goroutine leak. Cleanup is handled by the next context switch or retry." The
   drained init may publish its cache (`cache.go:208`) after that cleanup, and
   either cache then replaces the other without stopping it.
2. `sse.go:838`: "Send current connection state immediately so client knows
   current status". A change between reading it and the table entry is missed.
3. `portforward.go:70`: "StopAllPortForwards stops all active port forward
   sessions". It cancels the session's context and drops it, but never closes
   `stopCh`, which alone ends the forward: the port stays taken and leads to the
   old cluster.
4. `client.ts:3117-3120`: call sites without an `onError` "silently revert when
   the scope refetches and the mirror effect overwrites local state". A scope
   that comes again unchanged is the same object, so the mirror effect
   (`App.tsx:966`) does not run, and state and URL keep what was refused.
5. `EditableYamlView.tsx:144`: "Restore draft from sessionStorage". The read-only
   view of a related resource removes the draft under that resource's key
   (line 170), and so does a view that is not editing when another resource is
   chosen (line 176).

6. `sqlite_store.go:88-91`: marks are loaded so that "on restart, informer Add
   events for previously-seen resources short-circuit". The key is kind,
   namespace and name, so a new object of a name that was recorded in another
   cluster, or before Radar was away while it was replaced, is dropped too, with
   its history (`cache.go:375`), and `metrics.go:336` calls that "normal for
   informer restarts". For queries `store.go:27-31` says that such an identity
   "collides across clusters in a persistent store".

## Behaviours the models have and no property forbids

These follow from the code; the properties exclude them by name, or are not
about them.

- Server: a superseded init still installs its cache; waiters of a failed Once
  see no error; discovery of the old cluster may be assigned late; a kind that
  becomes ready while the handler asks is answered with 403 once; a goroutine
  that starts only after the next switch shares its channels with the newer
  pair; an old build may be stored after a switch, and a mark set during a build
  cleared by another (`overlapped`).
- `TimelineRecording`, with `Draining = TRUE`: `ResetResourceCache` does not wait
  for its informers, so that a recorder under way may name the next context on
  its event (`cache.go:493`), put its object into the stash after that was
  cleared, for the next cluster's add to be compared with, or find
  `initialSyncComplete` reset and leave an add out. Each takes a switch within
  one recording, and TLC finds each; `HistoryIsTrue` and `CreationsAreRecorded`
  are checked with `Draining = FALSE`.
- `LiveStream` (`crossed`, `missed`): a resubscription clears the throttle's
  timer but not its ref, and no timer is armed again; a topology kept back from
  the old cluster is shown by the timer after `context_changed`; a switch whose
  messages are dropped by a full queue keeps its overlay until the next topology.
- `ConnectionPanel` (`retryOvertaken`): the answer to a retry may come after the
  stream reported a later status.
- `TopologyLayout`: a layout under way fills a canvas that was cleared; a
  topology that differs in the nodes' status only does not reach nodes already
  drawn (`TopologyGraph.tsx:567`); Retry is offered only while nothing is drawn.
- `TerminalTab` (`raced`): `connect` may run while a session is being asked for,
  and then two are opened. On the error screen, choosing another container does
  not connect.
- `Dock` (`orphaned`, `swept`): a debug pod made after its tab was closed stays;
  the cleanup of a closed tab deletes the pod of the tab that replaced it.
- `LogViewer` (`loadedBeside`): a snapshot answered after a stream began, or
  after another snapshot was asked for, replaces the lines that are shown.
- `LiveQueries`: additions of some kinds and updates without a difference send
  no event, and events are dropped on a full queue; their lists wait for a poll.
- `NamespaceScope` (`exchangesRaced`): two POSTs that cross leave scope and pick apart.
- `PortForwards` (`wedged`, `unlisted`): the start handler that wakes after its
  session was removed dereferences nil with the lock held
  (`portforward.go:244-245`), after which every request of the table waits; a
  change may take the port again before the old listener has closed; a start
  that failed is not listed before the next poll.
- `DesktopUpdate` (`overtaken`): a poll served before a retry and answered after
  its acceptance ends the polling, and the page does not learn how the retry
  went. A retry that fails before it is polled changes nothing the effect at
  `UpdateNotification.tsx:68` ("Stop polling when update reaches a terminal
  state") depends on, and the poll goes on. A page loaded anew offers "Update
  Now" while an update is downloading or ready, which the Updater refuses, and
  cannot apply it.
- `YamlEditing` (`missed`): an event for a resource that is left while its fetch
  is under way marks a query that the fetch then marks fresh. What is typed
  during a save is dropped by its success. A view that goes on with another
  resource shows the text of the one before, which saving then refuses.
  `client.ts:1752-1755` seeds the query with the answer of a save instead of a
  refetch that "re-reads the lagging cache"; `handleSaved` (`WorkloadView.tsx:487`) does refetch, and a
  fetch under way is not cancelled: either may set the page back until the
  watch event.
- `PortForwardPanel`: a panel unmounted under the mouse leaves `isHoveringRef`
  set.

## What is not modelled

Progress texts, error classification, logging, counters and metrics; what
informers deliver and how changes are diffed; the contents of topologies and
events; namespaces and view modes of SSE clients; the server's shutdown apart
from the hub's `Stop`; the store's filter presets, grouped queries, retention and
subscribers; K8s Events as resources.
In `SSEWatchers` a nil change channel and the broadcaster's own stop channel are
left out. In the page: what ELK computes and React draws, sizes and positions,
search and sorting, the workload log viewer (built like the pod's), the command
palette's own switch, persistence of the pick across restarts; the files and the
new process of an update; what a manifest says, its validation, and ownership of
its fields.

Most of the repository is TypeScript that turns query results into tables,
forms and diagrams: resource tables and renderers, Helm, GitOps, traffic, cost
and audit views, with local UI state and no more than one writer. Formatting and
layout have no behaviour a state machine would show; the share of lines the
modules stand for is small for that reason. The server parts without a module
are pure functions, views of the caches, streams of bytes or small state
machines of their own (dynamic cache, cloud tunnel, kubeconfig registry), each with its reason in `PROJECT.json`.

## Plan

The modules above are the whole model, and the theorems cover every safety
property of the runs that pass. What is left is to make the project easier to
keep:

1. Lemmas that several components use, stated once: what an append, a `Tail` and
   an `EXCEPT` do to a sequence or a table, and what a step that moves one
   process leaves of the others.
2. More promises in the form of `EventLog`: a log that the viewer shows a segment
   of, a table of sessions that the list follows.

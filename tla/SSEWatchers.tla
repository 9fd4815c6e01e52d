---------------------------- MODULE SSEWatchers ----------------------------
(***************************************************************************)
(* The goroutines of the SSE broadcaster that follow the resource cache    *)
(* across context switches (internal/server/sse.go): watchResourceChanges, *)
(* which drains a cache's change channel, and watchDeferredSync, which     *)
(* ends the warm-up once deferred informers have synced.  Each captures    *)
(* the broadcaster's stop and warm-up channels when it first runs; the     *)
(* context-switch callback replaces the channels and spawns a fresh pair.  *)
(*                                                                         *)
(* The cluster side is reduced to what these goroutines see of it: the     *)
(* cache pointer, the caches' deferredDone and whether Radar is connected. *)
(* It is driven by one boot connection and then one switch at a time.      *)
(*                                                                         *)
(* Whether goroutines keep up with the switches (by the next one, a new    *)
(* goroutine has captured its channels and a replaced one has ended) is    *)
(* chosen once per behaviour: what depends on it says so.                  *)
(***************************************************************************)
EXTENDS Naturals, FiniteSets

CONSTANTS
    MaxSwitches,  \* bound: context switches explored, failed ones included,
                  \* when goroutines keep up
    MaxLate       \* the same bound when they may fall behind

\* Assumed of the constants wherever the module is instantiated.
SwitchesAssumption == MaxSwitches \in Nat /\ MaxLate \in 0 .. MaxSwitches

\* Channels, caches and goroutine pairs are numbered as they are made; the
\* boot connection makes cache 1, and 0 stands for a nil cache.
Pairs == 0 .. MaxSwitches
Caches == 1 .. MaxSwitches + 1
NoCache == 0

VARIABLES
    prompt,       \* goroutines keep up with the switches
    cluster,      \* the place of the boot connection or the switch under way
    switches,     \* switches begun
    made,         \* caches made
    cache,        \* resourceCache, as a number, or NoCache
    deferredDone, \* the caches whose deferredDone is closed
    connected,    \* the connection state is "connected"
    restarts,     \* restartResourceWatcher calls: names the current watchStopCh
    warmup,       \* names the current warmupDone
    warmCloses,   \* how often each warmupDone was closed
    watcher,      \* each watchResourceChanges: its place, the stop channel it
                  \* captured, the cache it drains, a token in its channel
    waiter        \* each watchDeferredSync: its place, the channels it captured,
                  \* the cache whose deferredDone it waits for

clusterVars == <<prompt, cluster, switches, made, cache, deferredDone, connected>>
channelVars == <<restarts, warmup, warmCloses>>
watchersVars == <<clusterVars, channelVars, watcher, waiter>>

\* Goroutines that have not been spawned, that have just been, and that ended.
NoWatcher(place) == [place |-> place, stop |-> 0, cache |-> NoCache, token |-> FALSE]
NoWaiter(place)  == [place |-> place, stop |-> 0, warm |-> 0, cache |-> NoCache]

WatchersTypeOK ==
    /\ prompt \in BOOLEAN
    /\ cluster \in {"boot", "bootUp", "idle", "tearDown", "up", "callbacks",
                    "restart", "connect"}
    /\ switches \in 0 .. MaxSwitches
    /\ made \in 0 .. MaxSwitches + 1
    /\ cache \in {NoCache, made}
    /\ deferredDone \subseteq 1 .. made
    /\ connected \in BOOLEAN
    /\ restarts \in Pairs /\ warmup \in restarts .. switches
    /\ warmCloses \in [Pairs -> Nat]
    /\ watcher \in [Pairs -> [place : {"off", "spawned", "reading", "registering",
                                      "waiting", "draining", "done"},
                             stop : Pairs, cache : Caches \cup {NoCache},
                             token : BOOLEAN]]
    /\ waiter \in [Pairs -> [place : {"off", "spawned", "polling", "waiting",
                                     "synced", "closing", "done"},
                            stop : Pairs, warm : Pairs,
                            cache : Caches \cup {NoCache}]]

\* The server is up and Start has spawned the first pair of goroutines.
WatchersInit ==
    /\ prompt \in BOOLEAN
    /\ cluster = "boot"
    /\ switches = 0
    /\ made = 0
    /\ cache = NoCache
    /\ deferredDone = {}
    /\ connected = FALSE
    /\ restarts = 0
    /\ warmup = 0
    /\ warmCloses = [p \in Pairs |-> 0]
    /\ watcher = [p \in Pairs |-> NoWatcher(IF p = 0 THEN "spawned" ELSE "off")]
    /\ waiter = [p \in Pairs |-> NoWaiter(IF p = 0 THEN "spawned" ELSE "off")]

\* watchStopCh number c is closed by the restart that replaces it.
Stopped(c) == c < restarts
WarmupDone(c) == warmCloses[c] > 0

-----------------------------------------------------------------------------
(* The cluster side. *)

MoveTo(place) == cluster' = place

BringUp ==
    /\ cluster \in {"boot", "up"}
    /\ MoveTo(IF cluster = "boot" THEN "bootUp" ELSE "callbacks")
    /\ made' = made + 1
    /\ cache' = made'
    /\ UNCHANGED <<prompt, switches, deferredDone, connected, channelVars, watcher, waiter>>

\* A switch: the status is no longer connected and the cache is stopped.
BeginSwitch ==
    /\ cluster = "idle" /\ switches < (IF prompt THEN MaxSwitches ELSE MaxLate)
    /\ prompt => \A p \in Pairs :
           LET places == {watcher[p].place, waiter[p].place}
           IN  "spawned" \notin places /\ (Stopped(p) => places \subseteq {"off", "done"})
    /\ MoveTo("tearDown")
    /\ switches' = switches + 1
    /\ connected' = FALSE
    /\ UNCHANGED <<prompt, made, cache, deferredDone, channelVars, watcher, waiter>>

TearDown ==
    /\ cluster = "tearDown"
    /\ cache' = NoCache
    /\ MoveTo("up")
    /\ UNCHANGED <<prompt, switches, made, deferredDone, connected, channelVars, watcher,
                   waiter>>

SwitchFails ==
    /\ cluster = "up"
    /\ MoveTo("idle")
    /\ UNCHANGED <<prompt, switches, made, cache, deferredDone, connected, channelVars,
                   watcher, waiter>>

\* deferredDone closes when the sync ends or is given up, and after Stop; that
\* of a replaced cache nobody waits for is left as it is.
DeferredDone(c) ==
    /\ c \in 1 .. made \ deferredDone
    /\ c = cache \/ \E p \in Pairs : waiter[p].cache = c
    /\ deferredDone' = deferredDone \cup {c}
    /\ UNCHANGED <<prompt, cluster, switches, made, cache, connected, channelVars,
                   watcher, waiter>>

\* The connection callback a waiting watcher registered puts a token in its
\* channel unless the watcher was replaced.
Connect ==
    /\ cluster \in {"bootUp", "connect"}
    /\ MoveTo("idle")
    /\ connected' = TRUE
    /\ watcher' = [p \in Pairs |->
           IF watcher[p].place = "waiting" /\ ~Stopped(watcher[p].stop)
           THEN [watcher[p] EXCEPT !.token = TRUE] ELSE watcher[p]]
    /\ UNCHANGED <<prompt, switches, made, cache, deferredDone, channelVars, waiter>>

-----------------------------------------------------------------------------
(* The context-switch callback. *)

ResetWarmup ==
    /\ cluster = "callbacks"
    /\ MoveTo("restart")
    /\ warmup' = switches
    /\ UNCHANGED <<prompt, switches, made, cache, deferredDone, connected, restarts,
                   warmCloses, watcher, waiter>>

Spawn(p) ==
    /\ watcher' = [watcher EXCEPT ![p] = NoWatcher("spawned")]
    /\ waiter' = [waiter EXCEPT ![p] = NoWaiter("spawned")]

\* Mutant: the old stop channel is not closed.
RestartLeavingOld ==
    /\ cluster = "restart"
    /\ MoveTo("connect")
    /\ Spawn(switches)
    /\ UNCHANGED <<prompt, switches, made, cache, deferredDone, connected, channelVars>>

\* restartResourceWatcher, under watchMu: close, replace, spawn.  Replacing is
\* what gives the channel its number.
Restart ==
    /\ cluster = "restart"
    /\ MoveTo("connect")
    /\ restarts' = switches
    /\ Spawn(switches)
    /\ UNCHANGED <<prompt, switches, made, cache, deferredDone, connected, warmup,
                   warmCloses>>

-----------------------------------------------------------------------------
(* watchResourceChanges.  A goroutine that ends drops what it captured. *)

Watches(p, place) == watcher[p].place = place

Watch(p, w) ==
    /\ watcher' = [watcher EXCEPT ![p] = w]
    /\ UNCHANGED <<clusterVars, channelVars, waiter>>

WatcherStarts(p) ==
    /\ Watches(p, "spawned")
    /\ Watch(p, [watcher[p] EXCEPT !.stop = restarts, !.place = "reading"])

DrainOr(p, other) ==
    Watch(p, IF cache = NoCache THEN other
             ELSE [watcher[p] EXCEPT !.place = "draining", !.cache = cache])

WatcherReadsCache(p) ==
    /\ Watches(p, "reading")
    /\ DrainOr(p, [watcher[p] EXCEPT !.place = "registering"])

\* Mutant: the connection state is not read after registering.
WatcherRegistersOnly(p) ==
    /\ Watches(p, "registering")
    /\ Watch(p, [watcher[p] EXCEPT !.place = "waiting"])

\* With no cache yet the watcher registers for the connection change, and
\* then looks whether Radar is connected by now.
WatcherRegisters(p) ==
    /\ Watches(p, "registering")
    /\ Watch(p, [watcher[p] EXCEPT !.place = "waiting", !.token = connected])

WatcherWakes(p) ==
    /\ Watches(p, "waiting") /\ watcher[p].token
    /\ DrainOr(p, NoWatcher("done"))

WatcherStops(p) ==
    /\ Watches(p, "waiting") \/ Watches(p, "draining")
    /\ Stopped(watcher[p].stop)
    /\ Watch(p, NoWatcher("done"))

-----------------------------------------------------------------------------
(* watchDeferredSync. *)

Waits(p, place) == waiter[p].place = place

Wait(p, w) ==
    /\ waiter' = [waiter EXCEPT ![p] = w]
    /\ UNCHANGED <<clusterVars, watcher>>

DeferredStarts(p) ==
    /\ Waits(p, "spawned")
    /\ Wait(p, [waiter[p] EXCEPT !.stop = restarts, !.warm = warmup,
                                 !.place = "polling"])
    /\ UNCHANGED channelVars

DeferredFindsCache(p) ==
    /\ Waits(p, "polling") /\ cache # NoCache
    /\ Wait(p, [waiter[p] EXCEPT !.place = "waiting", !.cache = cache])
    /\ UNCHANGED channelVars

\* With the cache torn down meanwhile it returns; otherwise deferred_ready is
\* broadcast.
DeferredWakes(p) ==
    /\ Waits(p, "waiting") /\ waiter[p].cache \in deferredDone
    /\ Wait(p, IF cache = NoCache THEN NoWaiter("done")
               ELSE [waiter[p] EXCEPT !.place = "synced"])
    /\ UNCHANGED channelVars

\* The select on the captured channel, and then the close.
DeferredChecksWarmup(p) ==
    /\ Waits(p, "synced")
    /\ Wait(p, IF WarmupDone(waiter[p].warm) THEN NoWaiter("done")
               ELSE [waiter[p] EXCEPT !.place = "closing"])
    /\ UNCHANGED channelVars

CloseWarmup(p, c) ==
    /\ Waits(p, "closing")
    /\ warmCloses' = [warmCloses EXCEPT ![c] = @ + 1]
    /\ Wait(p, NoWaiter("done"))
    /\ UNCHANGED <<restarts, warmup>>

\* Mutant: the field is closed in place of the captured channel.
DeferredClosesField(p) == CloseWarmup(p, warmup)

DeferredClosesWarmup(p) == CloseWarmup(p, waiter[p].warm)

DeferredStops(p) ==
    /\ Waits(p, "polling") \/ Waits(p, "waiting")
    /\ Stopped(waiter[p].stop)
    /\ Wait(p, NoWaiter("done"))
    /\ UNCHANGED channelVars

-----------------------------------------------------------------------------
WatcherStep(p) ==
    \/ WatcherStarts(p) \/ WatcherReadsCache(p) \/ WatcherRegisters(p)
    \/ WatcherWakes(p) \/ WatcherStops(p)

DeferredStep(p) ==
    \/ DeferredStarts(p) \/ DeferredFindsCache(p) \/ DeferredWakes(p)
    \/ DeferredChecksWarmup(p) \/ DeferredClosesWarmup(p) \/ DeferredStops(p)

ClusterStep ==
    \/ BringUp \/ TearDown \/ SwitchFails \/ ResetWarmup \/ Restart \/ Connect

WatchersNext ==
    \/ BeginSwitch \/ ClusterStep
    \/ \E c \in Caches : DeferredDone(c)
    \/ \E p \in Pairs : WatcherStep(p) \/ DeferredStep(p)

WatchersSpec == WatchersInit /\ [][WatchersNext]_watchersVars

\* Goroutines are scheduled and a switch that began ends.  deferredDone always
\* closes: internal/k8s sets DeferredSyncTimeout.  No switch need begin.
WatchersFairness ==
    /\ WF_watchersVars(ClusterStep)
    /\ \A c \in Caches : WF_watchersVars(DeferredDone(c))
    /\ \A p \in Pairs : WF_watchersVars(WatcherStep(p)) /\ WF_watchersVars(DeferredStep(p))

WatchersFairSpec == WatchersSpec /\ WatchersFairness

-----------------------------------------------------------------------------
(* Properties. *)

Live(p) == Watches(p, "draining") /\ ~Stopped(watcher[p].stop)

\* A cache's change channel has one consumer that is there to stay: two would
\* split the changes between them and both rebuild the topology.
OneLiveWatcher == prompt => \A p, q \in Pairs : Live(p) /\ Live(q) => p = q

\* Between switches the warm-up is over only if the deferred informers of the
\* cache now in use are done, not those of the one it replaced; and no warm-up
\* channel is closed twice (the second close would panic).
WarmupEndsAfterSync ==
    prompt =>
        /\ cluster = "idle" /\ connected /\ WarmupDone(warmup) => cache \in deferredDone
        /\ \A c \in Pairs : warmCloses[c] <= 1

\* Once switching is over, the connected cache's changes are drained -- the
\* watcher is never left on an abandoned channel, asleep or dead -- and its
\* warm-up ends, so that topology updates are no longer held back.
BroadcasterFollowsCache ==
    <>[](connected => /\ \E p \in Pairs : Live(p) /\ watcher[p].cache = cache
                      /\ WarmupDone(warmup))
=============================================================================

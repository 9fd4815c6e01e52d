--------------------------- MODULE ContextSwitch ---------------------------
(***************************************************************************)
(* The life cycle of Radar's cluster subsystems: the boot connection       *)
(* (internal/app InitializeCluster), the HTTP handlers that switch, retry  *)
(* or connect a kubeconfig context (internal/server), and what they drive  *)
(* in internal/k8s: CancelOngoingOperations, ResetAllSubsystems,           *)
(* SwitchContext, TestClusterConnection and InitAllSubsystems.             *)
(*                                                                         *)
(* Nothing in the code serialises two of these.  Each is an actor with a   *)
(* place in its handler (pc), a place in InitAllSubsystems (ipc) and one   *)
(* in the API-discovery goroutine that function spawns (dpc).  The package *)
(* globals of internal/k8s are the shared variables.                       *)
(***************************************************************************)
EXTENDS Naturals

CONSTANTS
    Requests,       \* the switch, retry and connect requests, each served once
    Boot,           \* the one run of InitializeCluster
    Contexts,       \* kubeconfig contexts; each reaches a cluster of its own
    InitialContext, \* the kubeconfig's current context
    None,           \* nil
    Overlap         \* which work may still run when a request arrives:
                    \*   "boot"     the boot sequence,
                    \*   "request"  the handler of another request,
                    \*   "leftover" goroutines of one that already returned

ASSUME ActorsAssumption == Boot \notin Requests /\ None \notin Requests \cup {Boot}
ASSUME ContextsAssumption == InitialContext \in Contexts /\ None \notin Contexts
ASSUME OverlapAssumption == Overlap \subseteq {"boot", "request", "leftover"}

Actors == Requests \cup {Boot}

VARIABLES
    opCtx,         \* operationCtx: how many times it was cancelled and replaced
    client,        \* contextName, and the clients SwitchContext swaps with it
    status,        \* connectionStatus
    pc,            \* the place of each actor in its handler
    target,        \* the context each request was asked for
    ctxGen,        \* the operationCtx each actor's init context derives from
    expired,       \* that context's own timeout or cancel() fired
    ipc,           \* the place of each actor in InitAllSubsystems
    cacheOnce,     \* cacheOnce: how many times it was replaced
    onceBusy,      \* the Onces whose function is running
    onceDone,      \* the Onces whose function has returned
    ran,           \* the Once whose function each actor ran
    waits,         \* the Once each actor read and blocked on
    resourceCache, \* resourceCache: the actor that built it, or None
    informers,     \* the state of the informers each actor's init started
    built,         \* the cluster they list and watch
    feeds,         \* the resource cache each actor read for the dynamic cache
    dynamic,       \* dynamicResourceCache
    dynUsed,       \* dynamicCacheOnce has run
    discovery,     \* resourceDiscovery: the cluster it describes, or None
    discOnce,      \* discoveryOnce: how many times it was replaced
    discRun,       \* the Once each discovery goroutine runs or waits for
    discDone,      \* the discovery Onces whose function has returned
    dpc,           \* the place of each discovery goroutine
    described,     \* the cluster each discovery goroutine queries
    metrics        \* metricsHistoryStore: the cluster it polls, or None

opVars    == <<opCtx, client>>
orchVars  == <<pc, target>>
ctxVars   == <<ctxGen, expired>>
onceVars  == <<cacheOnce, onceBusy, onceDone, ran, waits>>
cacheVars == <<resourceCache, informers, built>>
dynVars   == <<feeds, dynamic, dynUsed>>
discVars  == <<discovery, discOnce, discRun, discDone, dpc, described>>
vars == <<opVars, status, orchVars, ctxVars, ipc, onceVars, cacheVars,
          dynVars, discVars, metrics>>

States == {"connecting", "connected", "disconnected"}
Status(state, ctx) == [state |-> state, context |-> ctx]

RequestPlaces == {"idle", "begun", "resetAux", "resetDynamic", "resetDiscovery",
                  "resetCache", "clearCache", "swap", "test", "init", "done"}
BootPlaces == {"idle", "begun", "version", "version2", "await", "done"}
InitPlaces == {"off", "start", "once", "blocked", "probe", "sync", "loaded",
               "await", "dynRead", "dynMake", "aux", "ok", "err"}
DiscPlaces == {"off", "spawned", "blocked", "running", "done"}
Dynamics == [cluster : Contexts, feeds : Actors \cup {None},
             discovery : Contexts \cup {None}]

TypeOK ==
    /\ opCtx \in Nat
    /\ client \in Contexts
    /\ status \in [state : States, context : Contexts]
    /\ pc \in [Actors -> RequestPlaces \cup BootPlaces]
    /\ target \in [Actors -> Contexts]
    /\ ctxGen \in [Actors -> Nat]
    /\ expired \in [Actors -> BOOLEAN]
    /\ ipc \in [Actors -> InitPlaces]
    /\ cacheOnce \in Nat
    /\ onceBusy \subseteq Nat
    /\ onceDone \subseteq Nat \cup {None}
    /\ ran \in [Actors -> Nat \cup {None}]
    /\ waits \in [Actors -> Nat \cup {None}]
    /\ resourceCache \in Actors \cup {None}
    /\ informers \in [Actors -> {"none", "live", "stopped"}]
    /\ built \in [Actors -> Contexts \cup {None}]
    /\ feeds \in [Actors -> Actors \cup {None}]
    /\ dynamic \in Dynamics \cup {None}
    /\ dynUsed \in BOOLEAN
    /\ discovery \in Contexts \cup {None}
    /\ discOnce \in Nat
    /\ discRun \in [Actors -> Nat \cup {None}]
    /\ discDone \subseteq Nat \cup {None}
    /\ dpc \in [Actors -> DiscPlaces]
    /\ described \in [Actors -> Contexts \cup {None}]
    /\ metrics \in Contexts \cup {None}

\* Program start: the server is up, no cluster work has begun (bootstrap.go
\* sets "connecting" before InitializeCluster runs).
Init ==
    /\ opCtx = 0
    /\ client = InitialContext
    /\ status = Status("connecting", InitialContext)
    /\ pc = [a \in Actors |-> "idle"]
    /\ target = [a \in Actors |-> InitialContext]
    /\ ctxGen = [a \in Actors |-> 0]
    /\ expired = [a \in Actors |-> FALSE]
    /\ ipc = [a \in Actors |-> "off"]
    /\ cacheOnce = 0
    /\ onceBusy = {}
    /\ onceDone = {}
    /\ ran = [a \in Actors |-> None]
    /\ waits = [a \in Actors |-> None]
    /\ resourceCache = None
    /\ informers = [a \in Actors |-> "none"]
    /\ built = [a \in Actors |-> None]
    /\ feeds = [a \in Actors |-> None]
    /\ dynamic = None
    /\ dynUsed = FALSE
    /\ discovery = None
    /\ discOnce = 0
    /\ discRun = [a \in Actors |-> None]
    /\ discDone = {}
    /\ dpc = [a \in Actors |-> "off"]
    /\ described = [a \in Actors |-> None]
    /\ metrics = None

-----------------------------------------------------------------------------
\* The context an actor's subsystem init runs under is done once it timed out
\* or was cancelled, or once a later operation cancelled its parent.
Superseded(a) == ctxGen[a] < opCtx
CtxDone(a) == expired[a] \/ Superseded(a)

Active(a) == pc[a] \notin {"idle", "done"}
InitRunning(a) == ipc[a] \notin {"off", "ok", "err"}
DiscRunning(a) == dpc[a] \notin {"off", "done"}
Quiet == \A a \in Actors : ~Active(a) /\ ~InitRunning(a) /\ ~DiscRunning(a)

\* The environment: which earlier work a request finds still running.
Admitted ==
    /\ "boot" \notin Overlap => pc[Boot] = "done"
    /\ "request" \notin Overlap => \A r \in Requests : ~Active(r)
    /\ "leftover" \notin Overlap =>
         \A a \in Actors : ~Active(a) => ~InitRunning(a) /\ ~DiscRunning(a)

Goto(a, from, to) == pc[a] = from /\ pc' = [pc EXCEPT ![a] = to]
InitGoto(a, from, to) == ipc[a] = from /\ ipc' = [ipc EXCEPT ![a] = to]
DiscGoto(a, from, to) == dpc[a] = from /\ dpc' = [dpc EXCEPT ![a] = to]

-----------------------------------------------------------------------------
\* Requests: handleSwitchContext, handleConnectionRetry and
\* handleCAPIClusterConnect stop the sessions, run PerformContextSwitch and
\* write the connection status.  A retry reads the current context first.

BeginSwitch(r, ctx) ==
    /\ Admitted
    /\ Goto(r, "idle", "begun")
    /\ target' = [target EXCEPT ![r] = ctx]
    /\ UNCHANGED <<opVars, status, ctxVars, ipc, onceVars, cacheVars, dynVars,
                   discVars, metrics>>

BeginRetry(r) == BeginSwitch(r, client)

\* CancelOngoingOperations
CancelOngoing == opCtx' = opCtx + 1

RequestCancel(r) ==
    /\ Goto(r, "begun", "resetAux")
    /\ CancelOngoing
    /\ UNCHANGED <<client, status, target, ctxVars, ipc, onceVars, cacheVars,
                   dynVars, discVars, metrics>>

\* ResetAllSubsystems, in its order.  Metrics history stands for the four
\* subsystems it resets first; they depend on no other.
ResetAux(r) ==
    /\ Goto(r, "resetAux", "resetDynamic")
    /\ metrics' = None
    /\ UNCHANGED <<opVars, status, target, ctxVars, ipc, onceVars, cacheVars,
                   dynVars, discVars>>

\* Mutant: the teardown forgets the dynamic cache.
ResetDynamicForgotten(r) ==
    /\ Goto(r, "resetDynamic", "resetDiscovery")
    /\ UNCHANGED <<opVars, status, target, ctxVars, ipc, onceVars, cacheVars,
                   dynVars, discVars, metrics>>

ResetDynamic(r) ==
    /\ Goto(r, "resetDynamic", "resetDiscovery")
    /\ dynamic' = None
    /\ dynUsed' = FALSE
    /\ UNCHANGED <<opVars, status, target, ctxVars, ipc, onceVars, cacheVars,
                   feeds, discVars, metrics>>

ResetDiscovery(r) ==
    /\ Goto(r, "resetDiscovery", "resetCache")
    /\ discovery' = None
    /\ discOnce' = discOnce + 1
    /\ UNCHANGED <<opVars, status, target, ctxVars, ipc, onceVars, cacheVars,
                   dynVars, discRun, discDone, dpc, described, metrics>>

\* ResetResourceCache holds cacheMu; InitResourceCache does not take it, so
\* an install can fall between the Stop and the assignment of nil.
CacheMuFree == \A a \in Actors : pc[a] # "clearCache"

\* Mutant: the pointer is dropped without stopping the informers.
StopCacheForgotten(r) ==
    /\ CacheMuFree
    /\ resourceCache # None
    /\ Goto(r, "resetCache", "clearCache")
    /\ UNCHANGED <<opVars, status, target, ctxVars, ipc, onceVars, cacheVars,
                   dynVars, discVars, metrics>>

StopCache(r) ==
    /\ CacheMuFree
    /\ resourceCache # None
    /\ Goto(r, "resetCache", "clearCache")
    /\ informers' = [informers EXCEPT ![resourceCache] = "stopped"]
    /\ UNCHANGED <<opVars, status, target, ctxVars, ipc, onceVars,
                   resourceCache, built, dynVars, discVars, metrics>>

\* Mutant: the pointer is not cleared.
ClearCacheKeepsPointer(r) ==
    /\ Goto(r, "clearCache", "swap")
    /\ cacheOnce' = cacheOnce + 1
    /\ UNCHANGED <<opVars, status, target, ctxVars, ipc, onceBusy, onceDone, ran,
                   waits, cacheVars, dynVars, discVars, metrics>>

ClearCache(r) ==
    /\ Goto(r, "clearCache", "swap")
    /\ resourceCache' = None
    /\ cacheOnce' = cacheOnce + 1
    /\ UNCHANGED <<opVars, status, target, ctxVars, ipc, onceBusy, onceDone, ran,
                   waits, informers, built, dynVars, discVars, metrics>>

ResetNoCache(r) ==
    /\ CacheMuFree
    /\ resourceCache = None
    /\ Goto(r, "resetCache", "swap")
    /\ cacheOnce' = cacheOnce + 1
    /\ UNCHANGED <<opVars, status, target, ctxVars, ipc, onceBusy, onceDone, ran,
                   waits, cacheVars, dynVars, discVars, metrics>>

\* A step that fails ends PerformContextSwitch, and the handler reports the
\* context that was asked for as disconnected.
Report(r, from, s) ==
    /\ Goto(r, from, "done")
    /\ status' = s
    /\ UNCHANGED <<opVars, target, ctxVars, ipc, onceVars, cacheVars, dynVars,
                   discVars, metrics>>

SwitchContextOk(r) ==
    /\ Goto(r, "swap", "test")
    /\ client' = target[r]
    /\ UNCHANGED <<opCtx, status, target, ctxVars, ipc, onceVars, cacheVars,
                   dynVars, discVars, metrics>>

SwitchContextFails(r) == Report(r, "swap", Status("disconnected", target[r]))

\* TestClusterConnection succeeds; the init context derives from whatever
\* operation context is current by then.
TestOk(r) ==
    /\ Goto(r, "test", "init")
    /\ InitGoto(r, "off", "start")
    /\ ctxGen' = [ctxGen EXCEPT ![r] = opCtx]
    /\ UNCHANGED <<opVars, status, target, expired, onceVars, cacheVars, dynVars,
                   discVars, metrics>>

TestFails(r) == Report(r, "test", Status("disconnected", target[r]))

InitOk(r)    == ipc[r] = "ok"  /\ Report(r, "init", Status("connected", client))
InitFails(r) == ipc[r] = "err" /\ Report(r, "init", Status("disconnected", target[r]))

Reset(r) ==
    \/ ResetAux(r) \/ ResetDynamic(r) \/ ResetDiscovery(r)
    \/ StopCache(r) \/ ClearCache(r) \/ ResetNoCache(r)

RequestStep(r) ==
    \/ RequestCancel(r)
    \/ Reset(r)
    \/ SwitchContextOk(r) \/ SwitchContextFails(r)
    \/ TestOk(r) \/ TestFails(r)
    \/ InitOk(r) \/ InitFails(r)

-----------------------------------------------------------------------------
\* Boot: the /version check and InitAllSubsystems run in parallel.

BootCancel ==
    /\ Goto(Boot, "idle", "begun")
    /\ CancelOngoing
    /\ UNCHANGED <<client, status, target, ctxVars, ipc, onceVars, cacheVars,
                   dynVars, discVars, metrics>>

BootStart ==
    /\ Goto(Boot, "begun", "version")
    /\ status' = Status("connecting", client)
    /\ ctxGen' = [ctxGen EXCEPT ![Boot] = opCtx]
    /\ InitGoto(Boot, "off", "start")
    /\ UNCHANGED <<opVars, target, expired, onceVars, cacheVars, dynVars,
                   discVars, metrics>>

BootMoves(from, to, s) ==
    /\ Goto(Boot, from, to)
    /\ status' = s
    /\ UNCHANGED <<opVars, target, ctxVars, ipc, onceVars, cacheVars, dynVars,
                   discVars, metrics>>

\* CheckClusterAccess tries a second time unless its context is done.
VersionRetry ==
    ~CtxDone(Boot) /\ BootMoves("version", "version2", Status("connecting", client))

VersionOk == \E from \in {"version", "version2"} :
    BootMoves(from, "await", Status("connecting", client))

\* cancel() stops the subsystem init, whose goroutine is left to drain.
VersionFails == \E from \in {"version", "version2"} :
    /\ Goto(Boot, from, "done")
    /\ expired' = [expired EXCEPT ![Boot] = TRUE]
    /\ status' = Status("disconnected", client)
    /\ UNCHANGED <<opVars, target, ctxGen, ipc, onceVars, cacheVars, dynVars,
                   discVars, metrics>>

BootOk    == ipc[Boot] = "ok"  /\ BootMoves("await", "done", Status("connected", client))
BootFails == ipc[Boot] = "err" /\ BootMoves("await", "done", Status("disconnected", client))

BootStep == BootCancel \/ BootStart \/ VersionRetry \/ VersionOk \/ VersionFails
            \/ BootOk \/ BootFails

-----------------------------------------------------------------------------
\* InitAllSubsystems, run inline by a request and in a goroutine by the boot.

\* Mutant: the progress callback is not gated on /version.
ProgressUngated(a) ==
    status' = IF a = Boot THEN Status("connecting", client) ELSE status

\* The boot's progress callback writes the status once /version has answered.
Progress(a) ==
    status' = IF a = Boot /\ pc[Boot] = "await"
              THEN Status("connecting", client) ELSE status

InitStart(a) ==
    /\ InitGoto(a, "start", "once")
    /\ Progress(a)
    /\ dpc' = [dpc EXCEPT ![a] = IF CtxDone(a) THEN "off" ELSE "spawned"]
    /\ UNCHANGED <<opVars, orchVars, ctxVars, onceVars, cacheVars, dynVars,
                   discovery, discOnce, discRun, discDone, described, metrics>>

\* cacheOnce.Do: the first caller runs the function, callers meanwhile block,
\* later ones return at once; only the first sees initErr.
OnceRun(a) ==
    /\ cacheOnce \notin onceBusy \cup onceDone
    /\ InitGoto(a, "once", "probe")
    /\ onceBusy' = onceBusy \cup {cacheOnce}
    /\ ran' = [ran EXCEPT ![a] = cacheOnce]
    /\ UNCHANGED <<opVars, status, orchVars, ctxVars, cacheOnce, onceDone, waits,
                   cacheVars, dynVars, discVars, metrics>>

OnceBlock(a) ==
    /\ cacheOnce \in onceBusy
    /\ InitGoto(a, "once", "blocked")
    /\ waits' = [waits EXCEPT ![a] = cacheOnce]
    /\ UNCHANGED <<opVars, status, orchVars, ctxVars, cacheOnce, onceBusy,
                   onceDone, ran, cacheVars, dynVars, discVars, metrics>>

OnceSkip(a) ==
    /\ cacheOnce \in onceDone
    /\ InitGoto(a, "once", "loaded")
    /\ UNCHANGED <<opVars, status, orchVars, ctxVars, onceVars, cacheVars,
                   dynVars, discVars, metrics>>

OnceReleased(a) ==
    /\ waits[a] \in onceDone
    /\ InitGoto(a, "blocked", "loaded")
    /\ UNCHANGED <<opVars, status, orchVars, ctxVars, onceVars, cacheVars,
                   dynVars, discVars, metrics>>

\* Mutant: nobody tells the callers that block.
OnceNeverReturns(a) == UNCHANGED <<onceBusy, onceDone>>

OnceReturns(a) ==
    /\ onceBusy' = onceBusy \ {ran[a]}
    /\ onceDone' = onceDone \cup {ran[a]}

\* The RBAC probes end; InitResourceCache looks at its context once.
ProbesCancelled(a) ==
    /\ CtxDone(a)
    /\ InitGoto(a, "probe", "err")
    /\ OnceReturns(a)
    /\ UNCHANGED <<opVars, status, orchVars, ctxVars, cacheOnce, ran, waits,
                   cacheVars, dynVars, discVars, metrics>>

\* NewResourceCache starts the informers on the current client, and blocks
\* until the first-paint gate opens, whatever becomes of the context.
StartInformers(a) ==
    /\ ~CtxDone(a)
    /\ InitGoto(a, "probe", "sync")
    /\ informers' = [informers EXCEPT ![a] = "live"]
    /\ built' = [built EXCEPT ![a] = client]
    /\ UNCHANGED <<opVars, status, orchVars, ctxVars, onceVars, resourceCache,
                   dynVars, discVars, metrics>>

InstallCache(a) ==
    /\ InitGoto(a, "sync", "loaded")
    /\ resourceCache' = a
    /\ OnceReturns(a)
    /\ UNCHANGED <<opVars, status, orchVars, ctxVars, cacheOnce, ran, waits,
                   informers, built, dynVars, discVars, metrics>>

InitMoves(a, from, to) ==
    /\ InitGoto(a, from, to)
    /\ UNCHANGED <<opVars, status, orchVars, ctxVars, onceVars, cacheVars,
                   dynVars, discVars, metrics>>

\* The wait for discovery does not watch the context.
CacheLoaded(a) == ~CtxDone(a) /\ InitMoves(a, "loaded", "await")
DiscoveryJoined(a) ==
    dpc[a] = "done" /\ ~CtxDone(a) /\ InitMoves(a, "await", "dynRead")

Bail(a) ==
    /\ CtxDone(a)
    /\ \/ InitMoves(a, "loaded", "err")
       \/ dpc[a] = "done" /\ InitMoves(a, "await", "err")
       \/ InitMoves(a, "aux", "err")

\* if cache := GetResourceCache(); cache != nil
ReadCacheForDynamic(a) ==
    /\ InitGoto(a, "dynRead", IF resourceCache = None THEN "aux" ELSE "dynMake")
    /\ Progress(a)
    /\ feeds' = [feeds EXCEPT ![a] = resourceCache]
    /\ UNCHANGED <<opVars, orchVars, ctxVars, onceVars, cacheVars, dynamic,
                   dynUsed, discVars, metrics>>

\* InitDynamicResourceCache, on the change channel of the cache just read.
MakeDynamic(a) ==
    /\ InitGoto(a, "dynMake", "aux")
    /\ dynUsed' = TRUE
    /\ dynamic' = IF dynUsed THEN dynamic
                  ELSE [cluster |-> client, feeds |-> feeds[a], discovery |-> discovery]
    /\ UNCHANGED <<opVars, status, orchVars, ctxVars, onceVars, cacheVars, feeds,
                   discVars, metrics>>

\* InitMetricsHistory (under metricsHistoryMu) and its three siblings.
InitAux(a) ==
    /\ ~CtxDone(a)
    /\ InitGoto(a, "aux", "ok")
    /\ metrics' = IF metrics = None THEN client ELSE metrics
    /\ UNCHANGED <<opVars, status, orchVars, ctxVars, onceVars, cacheVars,
                   dynVars, discVars>>

\* ContextSwitchTimeout; the boot's context has no timeout of its own.
Expire(r) ==
    /\ InitRunning(r) /\ ~expired[r]
    /\ expired' = [expired EXCEPT ![r] = TRUE]
    /\ UNCHANGED <<opVars, status, orchVars, ctxGen, ipc, onceVars, cacheVars,
                   dynVars, discVars, metrics>>

InitStep(a) ==
    \/ InitStart(a)
    \/ OnceRun(a) \/ OnceBlock(a) \/ OnceSkip(a) \/ OnceReleased(a)
    \/ ProbesCancelled(a) \/ StartInformers(a) \/ InstallCache(a)
    \/ CacheLoaded(a) \/ DiscoveryJoined(a) \/ Bail(a)
    \/ ReadCacheForDynamic(a) \/ MakeDynamic(a) \/ InitAux(a)

-----------------------------------------------------------------------------
\* The API discovery goroutine: InitResourceDiscovery.

DiscoverySkips(a) ==
    /\ CtxDone(a)
    /\ DiscGoto(a, "spawned", "done")
    /\ UNCHANGED <<opVars, status, orchVars, ctxVars, ipc, onceVars, cacheVars,
                   dynVars, discovery, discOnce, discRun, discDone, described,
                   metrics>>

\* discoveryOnce is busy while a goroutine that runs it is at "running".
DiscoveryBusy(id) == \E b \in Actors : dpc[b] = "running" /\ discRun[b] = id

DiscoveryRuns(a) ==
    /\ ~CtxDone(a)
    /\ discOnce \notin discDone /\ ~DiscoveryBusy(discOnce)
    /\ DiscGoto(a, "spawned", "running")
    /\ discRun' = [discRun EXCEPT ![a] = discOnce]
    /\ described' = [described EXCEPT ![a] = client]
    /\ UNCHANGED <<opVars, status, orchVars, ctxVars, ipc, onceVars, cacheVars,
                   dynVars, discovery, discOnce, discDone, metrics>>

DiscoveryBlocks(a) ==
    /\ ~CtxDone(a)
    /\ discOnce \in discDone \/ DiscoveryBusy(discOnce)
    /\ DiscGoto(a, "spawned", "blocked")
    /\ discRun' = [discRun EXCEPT ![a] = discOnce]
    /\ UNCHANGED <<opVars, status, orchVars, ctxVars, ipc, onceVars, cacheVars,
                   dynVars, discovery, discOnce, discDone, described, metrics>>

DiscoveryReleased(a) ==
    /\ discRun[a] \in discDone
    /\ DiscGoto(a, "blocked", "done")
    /\ UNCHANGED <<opVars, status, orchVars, ctxVars, ipc, onceVars, cacheVars,
                   dynVars, discovery, discOnce, discRun, discDone, described,
                   metrics>>

\* ServerGroupsAndResources answers or fails; it takes no context.
DiscoveryReturns(a, answer) ==
    /\ DiscGoto(a, "running", "done")
    /\ discDone' = discDone \cup {discRun[a]}
    /\ discovery' = answer
    /\ UNCHANGED <<opVars, status, orchVars, ctxVars, ipc, onceVars, cacheVars,
                   dynVars, discOnce, discRun, described, metrics>>

DiscoveryOk(a) == DiscoveryReturns(a, described[a])
DiscoveryFails(a) == DiscoveryReturns(a, discovery)

DiscoveryStep(a) ==
    \/ DiscoverySkips(a) \/ DiscoveryRuns(a) \/ DiscoveryBlocks(a)
    \/ DiscoveryReleased(a) \/ DiscoveryOk(a) \/ DiscoveryFails(a)

-----------------------------------------------------------------------------
\* Every request was served and nothing runs: the server only waits.
Rest == Quiet /\ (\A a \in Actors : pc[a] = "done") /\ UNCHANGED vars

Begin(r) == BeginRetry(r) \/ \E ctx \in Contexts : BeginSwitch(r, ctx)

Next ==
    \/ \E r \in Requests : Begin(r) \/ RequestStep(r) \/ Expire(r)
    \/ BootStep
    \/ \E a \in Actors : InitStep(a) \/ DiscoveryStep(a)
    \/ Rest

\* Goroutines are scheduled, API calls return or time out, and the first-paint
\* gate opens by its SyncTimeout.  No request has to arrive, no timer to fire.
Fairness ==
    /\ \A r \in Requests : WF_vars(RequestStep(r))
    /\ WF_vars(BootStep)
    /\ \A a \in Actors : WF_vars(InitStep(a)) /\ WF_vars(DiscoveryStep(a))

Spec == Init /\ [][Next]_vars
FairSpec == Spec /\ Fairness

-----------------------------------------------------------------------------
(***************************************************************************)
(* Properties.                                                             *)
(***************************************************************************)

\* Between handlers, "connected" means that the cache every API handler reads
\* exists, still runs, and lists the cluster the clients and the status name.
ConnectedServesCurrentCluster ==
    (status.state = "connected" /\ \A a \in Actors : ~Active(a)) =>
        /\ resourceCache # None
        /\ informers[resourceCache] = "live"
        /\ built[resourceCache] = client
        /\ status.context = client

\* The dynamic cache watches the cluster of the resource cache whose channel
\* it feeds and of the discovery it was given, and never outlives them.
SubsystemsOnOneCluster ==
    dynamic # None =>
        /\ dynamic.feeds = resourceCache
        /\ dynamic.cluster = built[dynamic.feeds]
        /\ dynamic.discovery \in {None, dynamic.cluster}

\* Informers that run are reachable from the global that the next teardown
\* stops, or their init is about to publish them.
NoOrphanInformers ==
    \A a \in Actors :
        informers[a] = "live" => resourceCache = a \/ ipc[a] = "sync"

\* A reader of GetResourceCache gets stopped informers only while a teardown
\* is between its Stop and its assignment of nil, whatever overlaps.
StoppedCacheOnlyInTeardown ==
    resourceCache # None /\ informers[resourceCache] = "stopped" =>
        \E r \in Requests : pc[r] = "clearCache"

\* No two inits ever run the function of one Once: a cluster is listed once
\* per teardown, however many handlers run InitAllSubsystems.
OneInitPerOnce ==
    \A a, b \in Actors : ran[a] # None /\ ran[a] = ran[b] => a = b

\* When all work is over the UI does not sit on the connecting screen.
NeverLeftConnecting ==
    (Quiet /\ \A a \in Actors : pc[a] = "done") =>
        status.state \in {"connected", "disconnected"}

\* Every handler that starts comes back, even those blocked on the Once of an
\* init that is cancelled under them.
EveryRequestSettles ==
    \A r \in Requests : pc[r] = "begun" ~> pc[r] = "done"
=============================================================================

------------------------- MODULE ResourceCacheSync -------------------------
(***************************************************************************)
(* The staged start of one typed resource cache (pkg/k8score NewResource-  *)
(* Cache): critical informers block the constructor, deferred ones are     *)
(* started once it is about to return and are waited for by a goroutine,   *)
(* background ones (Events) by another.  Beside them a goroutine per       *)
(* informer keeps the diagnostics table, and an HTTP handler asks whether  *)
(* a kind's lister is there and, if it is not, why (internal/server        *)
(* notReadyOrForbidden).                                                   *)
(*                                                                         *)
(* An informer's HasSynced is client-go's: it may turn true at any time    *)
(* once the informer runs, never turns false, and may never turn true.     *)
(***************************************************************************)
EXTENDS Naturals, FiniteSets

CONSTANTS
    Critical,    \* enabled kinds whose informers block the constructor
    Minimal,     \* CacheConfig.MinimalSet
    Deferred,    \* enabled kinds in DeferredTypes, Events aside
    Background,  \* Events, when enabled
    Denied,      \* kinds RBAC denied: no informer
    Timers,      \* the timeouts the configuration sets: "patience",
                 \* "sync" (SyncTimeout) and "deferred" (DeferredSyncTimeout)
    None

Enabled == Critical \cup Deferred \cup Background
Kinds == Enabled \cup Denied
Late == Deferred \cup Background   \* the enabled kinds of DeferredTypes

ASSUME KindsAssumption ==
    /\ Critical \cap Late = {} /\ Deferred \cap Background = {}
    /\ Denied \cap Enabled = {}
    /\ None \notin Kinds
ASSUME TimersAssumption == Timers \subseteq {"patience", "sync", "deferred"}

VARIABLES
    ctor,           \* the place of NewResourceCache
    fired,          \* the timers that have fired
    patienceElapsed,
    timedOut,       \* Phase 1 gave up on SyncTimeout
    started,        \* the informers that were started
    synced,         \* the informers whose HasSynced is true
    statuses,       \* informerStatuses[].Synced
    promotedKinds,  \* promotedKinds
    deferredKeys,   \* what the deferred goroutine waits for
    deferredSynced, \* deferredSynced: the keys marked true
    deferredFailed, \* deferredFailed
    deferredDone,   \* deferredDone is closed
    waiter,         \* the place of the deferred goroutine
    bg,             \* the place of the background goroutine
    stopped,        \* stopCh is closed
    reader          \* the HTTP handler: its place, kind and answer

ctorVars  == <<ctor, patienceElapsed, timedOut, promotedKinds, deferredKeys>>
infVars   == <<started, synced>>
doneVars  == <<deferredSynced, deferredFailed, deferredDone>>
vars == <<ctorVars, fired, infVars, statuses, doneVars, waiter, bg, stopped,
          reader>>

Answers == {"items", "loading", "forbidden"}
ASSUME NoneAssumption == None \notin Answers

NoRead == [place |-> "idle", kind |-> None, answer |-> None]

TypeOK ==
    /\ ctor \in {"phase1", "promote", "publish", "returned"}
    /\ fired \subseteq Timers
    /\ patienceElapsed \in BOOLEAN
    /\ timedOut \in BOOLEAN
    /\ started \subseteq Enabled
    /\ synced \subseteq started
    /\ statuses \subseteq synced
    /\ promotedKinds \subseteq Critical
    /\ deferredKeys \subseteq Deferred \cup Critical
    /\ deferredSynced \subseteq deferredKeys \cup Background
    /\ deferredFailed \in BOOLEAN
    /\ deferredDone \in BOOLEAN
    /\ waiter \in {"off", "scan", "select", "closing", "done"}
    /\ bg \in {"off", "waiting", "done"}
    /\ stopped \in BOOLEAN
    /\ reader \in [place : {"idle", "noLister", "notFailed", "answered"},
                   kind : Kinds \cup {None}, answer : Answers \cup {None}]

\* Critical informers run before Phase 1 begins.  With nothing enabled the
\* constructor returns a finished cache straight away.
Init ==
    /\ ctor = IF Enabled = {} THEN "returned" ELSE "phase1"
    /\ fired = {}
    /\ patienceElapsed = FALSE
    /\ timedOut = FALSE
    /\ started = Critical
    /\ synced = {}
    /\ statuses = {}
    /\ promotedKinds = {}
    /\ deferredKeys = Deferred
    /\ deferredSynced = {}
    /\ deferredFailed = FALSE
    /\ deferredDone = (Enabled = {})
    /\ waiter = "off"
    /\ bg = "off"
    /\ stopped = FALSE
    /\ reader = NoRead

-----------------------------------------------------------------------------
(* The environment: informers list and watch, timers fire. *)

InformerSyncs(k) ==
    /\ k \in started \ synced
    /\ ~stopped
    /\ synced' = synced \cup {k}
    /\ UNCHANGED <<ctorVars, fired, started, statuses, doneVars, waiter, bg,
                   stopped, reader>>

\* A timer runs while the loop that created it does.
TimerRuns(t) ==
    \/ t \in {"patience", "sync"} /\ ctor = "phase1" /\ Critical # {}
    \/ t = "deferred" /\ waiter \in {"scan", "select"}

TimerFires(t) ==
    /\ t \in Timers \ fired
    /\ TimerRuns(t)
    /\ fired' = fired \cup {t}
    /\ UNCHANGED <<ctorVars, infVars, statuses, doneVars, waiter, bg, stopped,
                   reader>>

-----------------------------------------------------------------------------
(* NewResourceCache.  Phase 1 polls: everything critical, or the minimal
   set once patience ran out, or the hard deadline.  A select with a default
   takes a ready channel whenever there is one; the progress ticker only
   reports, and is left out. *)

CriticalSynced == Critical \subseteq synced

MinimalReady == patienceElapsed /\ (Minimal \cap Critical) \subseteq synced

PatienceRunsOut ==
    /\ ctor = "phase1" /\ ~CriticalSynced /\ ~MinimalReady
    /\ "patience" \in fired /\ ~patienceElapsed
    /\ patienceElapsed' = TRUE
    /\ UNCHANGED <<ctor, timedOut, promotedKinds, deferredKeys, fired, infVars,
                   statuses, doneVars, waiter, bg, stopped, reader>>

LeavePhase1 ==
    /\ ctor = "phase1"
    /\ \/ CriticalSynced /\ timedOut' = FALSE
       \/ MinimalReady /\ timedOut' = FALSE
       \/ "sync" \in fired /\ timedOut' = TRUE
    /\ ctor' = "promote"
    /\ UNCHANGED <<patienceElapsed, promotedKinds, deferredKeys, fired, infVars,
                   statuses, doneVars, waiter, bg, stopped, reader>>

\* Critical informers still pending are waited for with the deferred ones;
\* HasSynced is read again, so one that synced since the loop is left out.
Promote ==
    /\ ctor = "promote"
    /\ LET pending == Critical \ synced IN
       /\ promotedKinds' = pending
       /\ deferredKeys' = deferredKeys \cup pending
    /\ ctor' = "publish"
    /\ UNCHANGED <<patienceElapsed, timedOut, fired, infVars, statuses,
                   doneVars, waiter, bg, stopped, reader>>

\* Phase 2: start the deferred informers and the two goroutines, and return.
Publish ==
    /\ ctor = "publish"
    /\ ctor' = "returned"
    /\ started' = started \cup Late
    /\ waiter' = IF deferredKeys # {} THEN "scan" ELSE "done"
    /\ deferredDone' = (deferredKeys = {})
    /\ bg' = IF Background # {} THEN "waiting" ELSE "done"
    /\ UNCHANGED <<patienceElapsed, timedOut, promotedKinds, deferredKeys,
                   fired, synced, statuses, deferredSynced, deferredFailed,
                   stopped, reader>>

-----------------------------------------------------------------------------
(* The deferred goroutine. *)

\* One pass under deferredMu marks each key whose informer has synced.  One
\* that syncs during the pass is taken to have synced after it.
Scan ==
    /\ waiter = "scan"
    /\ deferredSynced' = deferredSynced \cup (deferredKeys \cap synced)
    /\ waiter' = IF deferredKeys \subseteq deferredSynced' THEN "closing"
                                                          ELSE "select"
    /\ UNCHANGED <<ctorVars, fired, infVars, statuses, deferredFailed,
                   deferredDone, bg, stopped, reader>>

ScanAgain ==
    /\ waiter = "select"
    /\ ~stopped /\ "deferred" \notin fired
    /\ waiter' = "scan"
    /\ UNCHANGED <<ctorVars, fired, infVars, statuses, doneVars, bg, stopped,
                   reader>>

\* Mutant: the failure is not recorded.
GiveUpSilently ==
    /\ waiter = "select"
    /\ stopped \/ "deferred" \in fired
    /\ deferredDone' = TRUE
    /\ waiter' = "closing"
    /\ UNCHANGED <<ctorVars, fired, infVars, statuses, deferredSynced,
                   deferredFailed, bg, stopped, reader>>

\* stopCh or the deadline: deferredFailed is stored before the close.
GiveUp ==
    /\ waiter = "select"
    /\ stopped \/ "deferred" \in fired
    /\ deferredFailed' = TRUE
    /\ waiter' = "closing"
    /\ UNCHANGED <<ctorVars, fired, infVars, statuses, deferredSynced,
                   deferredDone, bg, stopped, reader>>

CloseDone ==
    /\ waiter = "closing"
    /\ deferredDone' = TRUE
    /\ waiter' = "done"
    /\ UNCHANGED <<ctorVars, fired, infVars, statuses, deferredSynced,
                   deferredFailed, bg, stopped, reader>>

(* The background goroutine: WaitForCacheSync, which stopCh ends. *)

BackgroundSynced ==
    /\ bg = "waiting"
    /\ Background \subseteq synced
    /\ deferredSynced' = deferredSynced \cup Background
    /\ bg' = "done"
    /\ UNCHANGED <<ctorVars, fired, infVars, statuses, deferredFailed,
                   deferredDone, waiter, stopped, reader>>

BackgroundStopped ==
    /\ bg = "waiting"
    /\ stopped
    /\ deferredFailed' = TRUE
    /\ bg' = "done"
    /\ UNCHANGED <<ctorVars, fired, infVars, statuses, deferredSynced,
                   deferredDone, waiter, stopped, reader>>

\* Mutant: the tracking ends with the constructor.
TrackUntilReturned(k) ==
    /\ k \in synced \ statuses
    /\ ctor # "returned"
    /\ statuses' = statuses \cup {k}
    /\ UNCHANGED <<ctorVars, fired, infVars, doneVars, waiter, bg, stopped,
                   reader>>

\* The tracking goroutine of an informer, 10 ms behind HasSynced.  It looks
\* at stopCh only while the informer has not synced.
TrackStatus(k) ==
    /\ k \in synced \ statuses
    /\ statuses' = statuses \cup {k}
    /\ UNCHANGED <<ctorVars, fired, infVars, doneVars, waiter, bg, stopped,
                   reader>>

\* Stop: nobody holds the cache before its constructor returned.
Stop ==
    /\ ctor = "returned"
    /\ ~stopped
    /\ stopped' = TRUE
    /\ UNCHANGED <<ctorVars, fired, infVars, statuses, doneVars, waiter, bg,
                   reader>>

-----------------------------------------------------------------------------
(* Readers of a returned cache. *)

\* isReady: promoted kinds are not in DeferredTypes and are ready at once.
IsReady(k) == k \in Enabled /\ (k \in Late => k \in deferredSynced)

IsDeferredSynced == deferredDone /\ ~deferredFailed

PendingPromotedKinds == promotedKinds \ statuses

Answer(k, a) == reader' = [place |-> "answered", kind |-> k, answer |-> a]

\* The handler asks for the kind's lister, which is nil unless IsReady.
ReadLister(k) ==
    /\ ctor = "returned"
    /\ reader.place = "idle"
    /\ IF IsReady(k)
       THEN Answer(k, "items")
       ELSE reader' = [place |-> "noLister", kind |-> k, answer |-> None]
    /\ UNCHANGED <<ctorVars, fired, infVars, statuses, doneVars, waiter, bg,
                   stopped>>

\* IsDeferredPending: false for a kind that is not enabled or not deferred,
\* and for every kind once deferredFailed is set ...
ReadFailed ==
    /\ reader.place = "noLister"
    /\ IF reader.kind \notin Late \/ deferredFailed
       THEN Answer(reader.kind, "forbidden")
       ELSE reader' = [reader EXCEPT !.place = "notFailed"]
    /\ UNCHANGED <<ctorVars, fired, infVars, statuses, doneVars, waiter, bg,
                   stopped>>

\* ... and otherwise whether the kind is still unmarked, under deferredMu.
ReadSynced ==
    /\ reader.place = "notFailed"
    /\ Answer(reader.kind, IF reader.kind \in deferredSynced
                           THEN "forbidden" ELSE "loading")
    /\ UNCHANGED <<ctorVars, fired, infVars, statuses, doneVars, waiter, bg,
                   stopped>>

ReaderReturns ==
    /\ reader.place = "answered"
    /\ reader' = NoRead
    /\ UNCHANGED <<ctorVars, fired, infVars, statuses, doneVars, waiter, bg,
                   stopped>>

-----------------------------------------------------------------------------
Next ==
    \/ \E k \in Kinds : InformerSyncs(k) \/ TrackStatus(k) \/ ReadLister(k)
    \/ \E t \in Timers : TimerFires(t)
    \/ PatienceRunsOut \/ LeavePhase1 \/ Promote \/ Publish
    \/ Scan \/ ScanAgain \/ GiveUp \/ CloseDone
    \/ BackgroundSynced \/ BackgroundStopped
    \/ Stop
    \/ ReadFailed \/ ReadSynced \/ ReaderReturns

Spec == Init /\ [][Next]_vars

\* Goroutines run, and the constructor's timers fire.  DeferredSyncTimeout is
\* long and may be unset: it need not fire.  Nothing is assumed of the
\* informers, of the caller of Stop or of the readers.
Fairness ==
    /\ \A t \in Timers \ {"deferred"} : WF_vars(TimerFires(t))
    /\ WF_vars(PatienceRunsOut) /\ WF_vars(LeavePhase1)
    /\ WF_vars(Promote) /\ WF_vars(Publish)
    /\ WF_vars(Scan) /\ WF_vars(ScanAgain) /\ WF_vars(GiveUp)
    /\ WF_vars(CloseDone)
    /\ WF_vars(BackgroundSynced) /\ WF_vars(BackgroundStopped)
    /\ \A k \in Kinds : WF_vars(TrackStatus(k))

FairSpec == Spec /\ Fairness

-----------------------------------------------------------------------------
(* Properties. *)

\* The constructor returns without a critical kind only for a reason the
\* configuration names: the minimal set was there and patience had run out, or
\* SyncTimeout fired; and what is missing is then waited for in the background.
FirstPaintIsEarned ==
    ctor \in {"publish", "returned"} =>
        /\ \/ timedOut
           \/ Critical \subseteq synced
           \/ patienceElapsed /\ Minimal \cap Critical \subseteq synced
        /\ Critical \subseteq synced \cup deferredKeys

\* Whoever waits on deferredDone and then asks IsDeferredSynced is told the
\* truth: a "yes" means every deferred and every promoted kind can be listed
\* in full.  Relates the close, the flag and the marks of three goroutines.
DeferredDoneIsTruthful ==
    IsDeferredSynced =>
        /\ ctor = "returned"
        /\ deferredKeys \subseteq synced
        /\ Deferred \subseteq deferredSynced

\* The list of a kind in DeferredTypes is served only from a synced informer
\* (an empty or half-filled list of Secrets or Events would look complete).
LateKindsServedInFull ==
    reader.answer = "items" /\ reader.kind \in Late => reader.kind \in synced

\* The partial-data banner (PendingPromotedKinds) "drains to empty as the
\* background informers finish": it does not outlive the sync it announces.
BannerDrains ==
    \A k \in Critical :
        (k \in promotedKinds /\ k \in synced) ~> k \notin PendingPromotedKinds

\* A kind that is neither denied, nor marked, nor given up on is never
\* reported as forbidden, and a denied one is never reported as loading.
AnswersAreExplained ==
    /\ reader.answer = "forbidden" =>
           \/ reader.kind \in Denied
           \/ deferredFailed
           \/ reader.kind \in deferredSynced
    /\ reader.answer = "loading" => reader.kind \in Late

\* A deferred kind that synced is not lost to a sibling that never does: the
\* waiter gets round to marking it, unless it gave up first.
SiblingsBecomeReady ==
    \A k \in Deferred :
        (ctor = "returned" /\ k \in synced) ~> (k \in deferredSynced \/ deferredFailed)

\* With SyncTimeout configured a cache whose informers never sync is returned
\* all the same, and once DeferredSyncTimeout has fired deferredDone closes.
StartAlwaysEnds == <>(ctor = "returned") /\ ("deferred" \in fired ~> deferredDone)

\* After Stop both goroutines end, whatever they were waiting for.
StopEndsWaiters == stopped ~> (waiter \in {"off", "done"} /\ bg \in {"off", "done"})

\* Every wait of the staged sync comes to its end.
EveryWaitEnds == BannerDrains /\ SiblingsBecomeReady /\ StartAlwaysEnds /\ StopEndsWaiters
=============================================================================

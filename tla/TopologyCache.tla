--------------------------- MODULE TopologyCache ---------------------------
(***************************************************************************)
(* The full topology the SSE broadcaster keeps for relationship lookups    *)
(* (cachedTopology and cachedTopologyDirty, internal/server/sse.go).  It   *)
(* is rebuilt by broadcastTopologyUpdate, which several goroutines call,   *)
(* and on demand by GetCachedTopology; a context switch clears it.         *)
(*                                                                         *)
(* A topology is known by what it shows: a cache and how many of its       *)
(* changes it reflects.  Building takes time and is not atomic; a topology *)
(* counts as reflecting what the cache held when its build began.          *)
(***************************************************************************)
EXTENDS Naturals

CONSTANTS
    Broadcasters, \* goroutines that run broadcastTopologyUpdate
    Readers,      \* HTTP handlers that call GetCachedTopology
    MaxChanges,   \* bound: changes to each cache
    MaxSwitches,  \* bound: context switches
    NoTopology

TopologyCacheAssumption ==
    /\ MaxChanges \in Nat /\ MaxSwitches \in Nat
    /\ Broadcasters \cap Readers = {}
    /\ NoTopology \notin [cache : Nat, version : Nat]

Builders == Broadcasters \cup Readers
Caches == 1 .. MaxSwitches + 1
NoCache == 0
Versions == 0 .. MaxChanges
Topologies == [cache : Caches, version : Versions]
Places == {"idle", "checked", "build", "store", "gate", "rebuild", "failed"}

VARIABLES
    switching, \* the place of the context switch under way
    switches,  \* switches begun
    cache,     \* the current resource cache, or NoCache
    made,      \* caches made
    version,   \* the changes each cache has seen
    clients,   \* some SSE client is connected
    warm,      \* the broadcaster is in its warm-up
    owed,      \* the watcher's debounce timer will run a broadcast
    scheduled, \* a callback started a goroutine that will run one
    topology,  \* cachedTopology
    dirty,     \* cachedTopologyDirty
    place,     \* the place of each builder
    built,     \* what it has read so far
    overlapped \* history: a build began, or a switch did, during another build

clusterVars == <<switching, switches, cache, made>>
envVars == <<clusterVars, version, clients, warm>>
wantVars == <<owed, scheduled>>
topoVars == <<topology, dirty>>
topologyCacheVars == <<envVars, wantVars, topoVars, place, built, overlapped>>

TopologyCacheTypeOK ==
    /\ switching \in {"no", "down", "up", "cleared"}
    /\ switches \in 0 .. MaxSwitches
    /\ made \in Caches /\ cache \in {NoCache, made}
    /\ version \in [Caches -> Versions]
    /\ clients \in BOOLEAN /\ warm \in BOOLEAN
    /\ owed \in BOOLEAN /\ scheduled \in BOOLEAN
    /\ topology \in Topologies \cup {NoTopology}
    /\ dirty \in BOOLEAN /\ overlapped \in BOOLEAN
    /\ place \in [Builders -> Places]
    /\ \A b \in Builders :
           built[b] \in (IF place[b] = "store" THEN Topologies ELSE {NoTopology})

\* The boot connection has just been made; its callback has scheduled the
\* first broadcast.
TopologyCacheInit ==
    /\ switching = "no"
    /\ switches = 0
    /\ cache = 1
    /\ made = 1
    /\ version = [c \in Caches |-> 0]
    /\ clients \in BOOLEAN
    /\ warm = TRUE
    /\ owed = FALSE
    /\ scheduled = TRUE
    /\ topology = NoTopology
    /\ dirty = FALSE
    /\ place = [b \in Builders |-> "idle"]
    /\ built = [b \in Builders |-> NoTopology]
    /\ overlapped = FALSE

Idle(b) == place[b] = "idle"
AllIdle == \A b \in Builders : Idle(b)
\* A step that begins a build or a switch.
Noting == overlapped' = (overlapped \/ ~AllIdle)
Go(b, p) == place' = [place EXCEPT ![b] = p]

-----------------------------------------------------------------------------
(* What changes around the topology. *)

\* A change reaches the watcher, which arms its debounce timer; a new cache's
\* changes wait in its channel until the watcher is restarted.
Change ==
    /\ cache # NoCache /\ version[cache] < MaxChanges
    /\ version' = [version EXCEPT ![cache] = @ + 1]
    /\ owed' = (owed \/ switching # "up")
    /\ UNCHANGED <<clusterVars, clients, warm, scheduled, topoVars, place, built, overlapped>>

ClientsComeOrGo ==
    /\ clients' = ~clients
    /\ UNCHANGED <<clusterVars, version, warm, wantVars, topoVars, place, built, overlapped>>

\* watchDeferredSync broadcasts, and then ends the warm-up; its broadcast may
\* be any of those that begin during the warm-up.
DeferredReady ==
    /\ warm /\ cache # NoCache /\ ~scheduled
    /\ scheduled' = TRUE
    /\ UNCHANGED <<envVars, owed, topoVars, place, built, overlapped>>

WarmupEnds ==
    /\ warm
    /\ warm' = FALSE
    /\ UNCHANGED <<clusterVars, version, clients, wantVars, topoVars, place, built, overlapped>>

\* A switch that fails leaves the cluster down until the next one.
SwitchDown ==
    /\ switching \in {"no", "down"} /\ switches < MaxSwitches
    /\ switching' = "down"
    /\ switches' = switches + 1
    /\ cache' = NoCache
    /\ Noting
    /\ UNCHANGED <<made, version, clients, warm, wantVars, topoVars, place, built>>

SwitchUp ==
    /\ switching = "down"
    /\ switching' = "up"
    /\ made' = made + 1
    /\ cache' = made'
    /\ UNCHANGED <<switches, version, clients, warm, wantVars, topoVars, place, built,
                   overlapped>>

\* The callback forgets the old context's topology, resets the warm-up and
\* restarts the watcher: a pending timer is lost, changes in the new cache's
\* channel are found ...
SwitchClears ==
    /\ switching = "up"
    /\ switching' = "cleared"
    /\ topology' = NoTopology
    /\ dirty' = FALSE
    /\ warm' = TRUE
    /\ owed' = (version[cache] > 0)
    /\ UNCHANGED <<switches, cache, made, version, clients, scheduled, place, built, overlapped>>

\* Mutant: context_changed is sent, and nothing schedules a broadcast.
SwitchOnlyAnnounces ==
    /\ switching = "cleared"
    /\ switching' = "no"
    /\ UNCHANGED <<switches, cache, made, version, clients, warm, wantVars,
                   topoVars, place, built, overlapped>>

\* ... and schedules a broadcast.
SwitchSchedules ==
    /\ switching = "cleared"
    /\ switching' = "no"
    /\ scheduled' = TRUE
    /\ UNCHANGED <<switches, cache, made, version, clients, warm, owed, topoVars,
                   place, built, overlapped>>

-----------------------------------------------------------------------------
(* broadcastTopologyUpdate. *)

\* With no cache the broadcast is skipped.
BroadcastBegins(b) ==
    /\ Idle(b)
    /\ \/ owed /\ owed' = FALSE /\ UNCHANGED scheduled
       \/ scheduled /\ scheduled' = FALSE /\ UNCHANGED owed
    /\ IF cache = NoCache THEN UNCHANGED place ELSE Go(b, "checked")
    /\ Noting
    /\ UNCHANGED <<envVars, topoVars, built>>

\* Mutant: the skipped build leaves no mark.
BroadcastSkipsQuietly(b) ==
    /\ place[b] = "checked"
    /\ ~clients \/ warm
    /\ Go(b, "idle")
    /\ UNCHANGED <<envVars, wantVars, topoVars, built, overlapped>>

\* Without clients, or during the warm-up, the full build is left to readers.
BroadcastMarksDirty(b) ==
    /\ place[b] = "checked"
    /\ ~clients \/ warm
    /\ dirty' = TRUE
    /\ Go(b, "idle")
    /\ UNCHANGED <<envVars, wantVars, topology, built, overlapped>>

BroadcastBuilds(b) ==
    /\ place[b] = "checked"
    /\ clients /\ ~warm
    /\ Go(b, "build")
    /\ UNCHANGED <<envVars, wantVars, topoVars, built, overlapped>>

\* buildFullTopology reads the cache that is current now; with none the build
\* fails, and a broadcast leaves it at that.
Build(b) ==
    /\ place[b] \in {"build", "rebuild"}
    /\ IF cache = NoCache
       THEN /\ Go(b, IF place[b] = "rebuild" THEN "failed" ELSE "idle")
            /\ UNCHANGED built
       ELSE /\ Go(b, "store")
            /\ built' = [built EXCEPT ![b] = [cache |-> cache, version |-> version[cache]]]
    /\ UNCHANGED <<envVars, wantVars, topoVars, overlapped>>

\* updateCachedTopology.
Store(b) ==
    /\ place[b] = "store"
    /\ topology' = built[b]
    /\ dirty' = FALSE
    /\ built' = [built EXCEPT ![b] = NoTopology]
    /\ Go(b, "idle")
    /\ UNCHANGED <<envVars, wantVars, overlapped>>

-----------------------------------------------------------------------------
(* GetCachedTopology: it returns what is there unless that is dirty.  Under
   the lock one reader takes the mark and rebuilds; the others return. *)

ReaderFindsDirty(r) ==
    /\ Idle(r)
    /\ dirty /\ cache # NoCache
    /\ Go(r, "gate")
    /\ Noting
    /\ UNCHANGED <<envVars, wantVars, topoVars, built>>

ReaderPassesGate(r) ==
    /\ place[r] = "gate"
    /\ dirty' = FALSE
    /\ Go(r, IF dirty THEN "rebuild" ELSE "idle")
    /\ UNCHANGED <<envVars, wantVars, topology, built, overlapped>>

ReaderFails(r) ==
    /\ place[r] = "failed"
    /\ dirty' = TRUE
    /\ Go(r, "idle")
    /\ UNCHANGED <<envVars, wantVars, topology, built, overlapped>>

-----------------------------------------------------------------------------
TopologyCacheNext ==
    \/ Change \/ ClientsComeOrGo \/ DeferredReady \/ WarmupEnds
    \/ SwitchDown \/ SwitchUp \/ SwitchClears \/ SwitchSchedules
    \/ \E b \in Broadcasters :
           BroadcastBegins(b) \/ BroadcastMarksDirty(b) \/ BroadcastBuilds(b)
    \/ \E b \in Builders : Build(b) \/ Store(b)
    \/ \E r \in Readers : ReaderFindsDirty(r) \/ ReaderPassesGate(r) \/ ReaderFails(r)

TopologyCacheSpec == TopologyCacheInit /\ [][TopologyCacheNext]_topologyCacheVars

-----------------------------------------------------------------------------
(* Properties. *)

\* Nothing is being built, nothing is promised, and no switch is under way.
Settled ==
    /\ AllIdle /\ ~owed /\ ~scheduled
    /\ switching = "no" /\ cache # NoCache

\* cachedTopologyDirty is "true when changes occurred but topology not yet
\* rebuilt": once settled, a topology that misses a change (or is another
\* cluster's, or is not there) is marked, so that the next reader rebuilds it.
\* That holds as long as builds do not overlap (a build that began before a
\* change clears the mark that change left).
DirtyCoversChanges ==
    Settled /\ ~overlapped => \/ dirty
               \/ topology = [cache |-> cache, version |-> version[cache]]

\* However builds, readers and switches overlap, a connected cluster does not
\* end up with neither a topology nor a mark to build one.
TopologyComesBack == Settled => dirty \/ topology # NoTopology
=============================================================================

-------------------------- MODULE TimelineRecording --------------------------
(***************************************************************************)
(* How the informers' changes of one resource become events of the         *)
(* timeline: recordToTimelineStore and the recreate stash (internal/k8s),  *)
(* on the global store of internal/timeline, across context switches.      *)
(*                                                                         *)
(* Each connection has a number; its informer calls the recorder from one  *)
(* goroutine.  ResetResourceCache stops that informer without waiting, so  *)
(* that its goroutine may still be recording when the next connection is   *)
(* made.  All clusters have a resource of the same kind, namespace and     *)
(* name: the key under which the store and the stash know it.  The kind is *)
(* one that is stashed, and whose adds carry the creation as history, such *)
(* as a Deployment.                                                        *)
(***************************************************************************)
EXTENDS Naturals, Sequences

CONSTANTS
    Clusters,       \* what kubeconfig contexts lead to
    MaxConnections, \* bound: connections made
    MaxCreations,   \* bound: times the resource is created, in any cluster
    MaxRevisions,   \* bound: changes to each
    MaxPending,     \* bound: notifications the recorder is behind
    Draining,       \* a stopped informer may still be recording
    Nothing

Connections == 1 .. MaxConnections
Uids == 1 .. MaxCreations
Objects == [cluster : Clusters, uid : Uids, revision : 0 .. MaxRevisions]

TimelineRecordingAssumption ==
    /\ MaxConnections \in Nat \ {0} /\ MaxCreations \in Nat
    /\ MaxRevisions \in Nat /\ MaxPending \in Nat \ {0}
    /\ Nothing \notin Clusters \cup Objects /\ Draining \in BOOLEAN

\* What an informer tells the recorder.  "before" is the object it last saw
\* deleted; the recorder is not told.
Notes == [op : {"add", "update", "delete"}, object : Objects, before : Objects \cup {Nothing}]
Events == [op : {"add", "update", "delete", "historical"}, object : Objects,
           tag : Clusters, joined : Objects \cup {Nothing}, before : Objects \cup {Nothing}]
Tasks == [at : {"idle", "stash", "join", "tag", "record", "mark"},
          note : Notes \cup {Nothing}, store : 0 .. MaxConnections,
          joined : Objects \cup {Nothing}, tag : Clusters \cup {Nothing}, sync : BOOLEAN]
NoTask == [at |-> "idle", note |-> Nothing, store |-> 0, joined |-> Nothing,
         tag |-> Nothing, sync |-> FALSE]

VARIABLES
    object,     \* each cluster's object
    creations,  \* objects created
    young,      \* the uids of those at most 30 seconds old
    persistent, \* the store is SQLite, not memory
    phase,      \* the place of the connection, or of the switch
    connection, \* the number of the newest one
    leadsTo,    \* the cluster each connection was made to
    context,    \* contextName: the cluster the clients lead to
    store,      \* globalStore: the connection it was opened for, or 0
    seen,       \* seenResources of each connection's store has the key
    onDisk,     \* the seen_resources table has it
    synced,     \* initialSyncComplete
    stash,      \* recreateStash
    cached,     \* what each connection's informer holds
    gone,       \* what it last saw deleted
    pending,    \* the notifications of its listener
    task,       \* the recorder's place in one of them
    recorded,   \* the store's events of this resource
    marker,     \* history: the uid whose add marked the key, 0 for none or before Radar
    inherited,  \* history: the key was found marked on opening, and not cleared since
    due         \* history: the uids whose creation is to be recorded

clusterSide == <<object, creations, young>>
storeVars == <<store, seen, onDisk>>
connectionVars == <<phase, connection, leadsTo, context>>
informerVars == <<cached, gone, pending>>
historyVars == <<marker, inherited, due>>
timelineRecordingVars == <<clusterSide, persistent, connectionVars, storeVars, synced, stash,
    informerVars, task, recorded, historyVars>>

Phases == {"swapped", "stored", "started", "up", "stopped", "closed", "failed"}

TimelineRecordingTypeOK ==
    /\ object \in [Clusters -> Objects \cup {Nothing}]
    /\ creations \in 0 .. MaxCreations /\ young \subseteq Uids
    /\ phase \in Phases /\ connection \in 0 .. MaxConnections
    /\ leadsTo \in [Connections -> Clusters \cup {Nothing}] /\ context \in Clusters
    /\ store \in {0, connection} /\ seen \in [Connections -> BOOLEAN]
    /\ {onDisk, persistent, synced, inherited} \subseteq BOOLEAN
    /\ stash \in Objects \cup {Nothing}
    /\ cached \in [Connections -> Objects \cup {Nothing}]
    /\ gone \in [Connections -> Objects \cup {Nothing}]
    /\ pending \in [Connections -> Seq(Notes)]
    /\ task \in [Connections -> Tasks]
    /\ recorded \subseteq Events /\ due \subseteq Uids /\ marker \in {0} \cup Uids

\* The program has built its clients; an SQLite store may know the resource
\* from an earlier run.
TimelineRecordingInit ==
    /\ object = [c \in Clusters |-> Nothing]
    /\ creations = 0 /\ young = {}
    /\ persistent \in BOOLEAN /\ onDisk \in {FALSE, persistent}
    /\ phase = "swapped" /\ connection = 0
    /\ leadsTo = [n \in Connections |-> Nothing]
    /\ context \in Clusters
    /\ store = 0 /\ seen = [n \in Connections |-> FALSE]
    /\ synced = FALSE /\ stash = Nothing
    /\ cached = [n \in Connections |-> Nothing]
    /\ gone = [n \in Connections |-> Nothing]
    /\ pending = [n \in Connections |-> <<>>]
    /\ task = [n \in Connections |-> NoTask]
    /\ recorded = {}
    /\ marker = 0 /\ inherited = FALSE /\ due = {}

Running(n) == n = connection /\ phase \in {"started", "up"}

-----------------------------------------------------------------------------
(* The clusters, and the time. *)

Keep(c, o) == object' = [object EXCEPT ![c] = o]

Create(c) ==
    /\ object[c] = Nothing /\ creations < MaxCreations
    /\ creations' = creations + 1
    /\ Keep(c, [cluster |-> c, uid |-> creations', revision |-> 0])
    /\ young' = young \cup {creations'}

Revise(c) ==
    /\ object[c] # Nothing /\ object[c].revision < MaxRevisions
    /\ Keep(c, [object[c] EXCEPT !.revision = @ + 1])
    /\ UNCHANGED <<creations, young>>

Remove(c) ==
    /\ object[c] # Nothing
    /\ Keep(c, Nothing)
    /\ UNCHANGED <<creations, young>>

GrowOld(u) ==
    /\ u \in young
    /\ young' = young \ {u}
    /\ UNCHANGED <<object, creations>>

ClusterMoves ==
    /\ \/ \E c \in Clusters : Create(c) \/ Revise(c) \/ Remove(c)
       \/ \E u \in Uids : GrowOld(u)
    /\ UNCHANGED <<persistent, connectionVars, storeVars, synced, stash, informerVars, task,
                   recorded, historyVars>>

-----------------------------------------------------------------------------
(* Connecting and switching: ResetAllSubsystems, SwitchContext and
   InitAllSubsystems, as far as the recorder sees them. *)

\* What they held is of no use any more.
InformersStop ==
    /\ phase \in {"up", "failed"} /\ connection < MaxConnections
    /\ Draining \/ \A n \in Connections : task[n] = NoTask
    /\ phase' = "stopped"
    /\ cached' = [n \in Connections |-> Nothing]
    /\ gone' = [n \in Connections |-> Nothing]

\* Mutant: the stash survives the switch.
StopCachesOnly ==
    /\ InformersStop
    /\ synced' = FALSE
    /\ UNCHANGED <<clusterSide, persistent, connection, leadsTo, context, storeVars, stash,
                   pending, task, recorded, historyVars>>

\* ResetDynamicResourceCache and ResetResourceCache stop the informers without
\* waiting for them, and forget the sync and the stash.
StopCaches ==
    /\ InformersStop
    /\ synced' = FALSE
    /\ stash' = Nothing
    /\ UNCHANGED <<clusterSide, persistent, connection, leadsTo, context, storeVars, pending,
                   task, recorded, historyVars>>

\* ResetStore; a store in memory is lost with its events.
ResetStore ==
    /\ phase = "stopped"
    /\ phase' = "closed"
    /\ store' = 0
    /\ seen' = [n \in Connections |-> FALSE]
    /\ recorded' = IF persistent THEN recorded ELSE {}
    /\ due' = IF persistent THEN due ELSE {}
    /\ UNCHANGED <<clusterSide, persistent, connection, leadsTo, context, onDisk,
                   synced, stash, informerVars, task, marker, inherited>>

\* SwitchContext, to another cluster or, for a retry, the same.
SwapContext(c) ==
    /\ phase = "closed"
    /\ context' = c
    /\ phase' = "swapped"
    /\ UNCHANGED <<clusterSide, persistent, connection, leadsTo, storeVars, synced, stash,
                   informerVars, task, recorded, historyVars>>

\* SwitchContext, the connectivity test after it, or the init before it starts
\* the informers fails.
SwitchFails ==
    /\ phase \in {"closed", "swapped", "stored"}
    /\ phase' = "failed"
    /\ UNCHANGED <<clusterSide, persistent, connection, leadsTo, context, storeVars, synced,
                   stash, informerVars, task, recorded, historyVars>>

\* ReinitStore; an SQLite store loads what it had seen.
InitStore ==
    /\ phase = "swapped"
    /\ phase' = "stored"
    /\ connection' = connection + 1
    /\ leadsTo' = [leadsTo EXCEPT ![connection'] = context]
    /\ store' = connection'
    /\ seen' = [seen EXCEPT ![connection'] = onDisk]
    /\ inherited' = onDisk
    /\ marker' = IF onDisk THEN marker ELSE 0
    /\ UNCHANGED <<clusterSide, persistent, context, onDisk, synced, stash, informerVars,
                   task, recorded, due>>

\* An SQLite file that cannot be opened leaves Radar without a store.
InitStoreFails ==
    /\ phase = "swapped" /\ persistent
    /\ phase' = "stored"
    /\ connection' = connection + 1
    /\ leadsTo' = [leadsTo EXCEPT ![connection'] = context]
    /\ UNCHANGED <<clusterSide, persistent, context, storeVars, synced, stash, informerVars,
                   task, recorded, historyVars>>

StartInformers ==
    /\ phase = "stored"
    /\ phase' = "started"
    /\ UNCHANGED <<clusterSide, persistent, connection, leadsTo, context, storeVars, synced,
                   stash, informerVars, task, recorded, historyVars>>

\* NewResourceCache has returned; deferred kinds and those of the dynamic cache
\* may yet have to list.
SyncCompletes ==
    /\ phase = "started"
    /\ phase' = "up"
    /\ synced' = TRUE
    /\ UNCHANGED <<clusterSide, persistent, connection, leadsTo, context, storeVars, stash,
                   informerVars, task, recorded, historyVars>>

Switching ==
    \/ StopCaches \/ ResetStore \/ SwitchFails \/ InitStore \/ InitStoreFails
    \/ StartInformers \/ SyncCompletes
    \/ \E c \in Clusters : SwapContext(c)

-----------------------------------------------------------------------------
(* The informer. *)

Note(n, op, o) == [op |-> op, object |-> o, before |-> gone[n]]

\* It lists, watches, or lists again after a broken watch: it finds what has
\* become of the object since it looked last, and notifies its listener.
Observe(n) ==
    LET now == object[leadsTo[n]]
        was == cached[n]
    IN /\ Running(n) /\ Len(pending[n]) < MaxPending
       /\ now # was
       /\ cached' = [cached EXCEPT ![n] = now]
       /\ gone' = IF now = Nothing THEN [gone EXCEPT ![n] = was] ELSE gone
       /\ pending' = [pending EXCEPT ![n] = Append(@,
              IF was = Nothing THEN Note(n, "add", now)
              ELSE IF now = Nothing THEN Note(n, "delete", was)
              ELSE Note(n, "update", now))]
       /\ UNCHANGED <<clusterSide, persistent, connectionVars, storeVars, synced, stash, task,
                      recorded, historyVars>>

\* A stopped informer closes its listener, with what that still had to tell.
ListenerEnds(n) ==
    /\ ~Running(n) /\ pending[n] # <<>>
    /\ pending' = [pending EXCEPT ![n] = <<>>]
    /\ UNCHANGED <<clusterSide, persistent, connectionVars, storeVars, synced, stash, cached,
                   gone, task, recorded, historyVars>>

-----------------------------------------------------------------------------
(* recordToTimelineStore. *)

Proceed(n, t) == task' = [task EXCEPT ![n] = t]
\* The key is marked or cleared in a store that may have been closed meanwhile.
Mark(s, b) ==
    /\ seen' = [seen EXCEPT ![s] = b]
    /\ onDisk' = IF persistent /\ store = s THEN b ELSE onDisk

\* What is not dropped at once goes on to "place".
Begin(n, place) ==
    Proceed(n, [NoTask EXCEPT !.at = place, !.note = Head(pending[n]), !.store = store])

Take(n) ==
    /\ Running(n) \/ Draining
    /\ task[n] = NoTask /\ pending[n] # <<>>
    /\ pending' = [pending EXCEPT ![n] = Tail(@)]
    /\ UNCHANGED <<clusterSide, persistent, connectionVars, store, synced, stash, cached, gone,
                   recorded>>

\* There is no store.
TakeNowhere(n) ==
    /\ Take(n)
    /\ store = 0
    /\ UNCHANGED <<task, seen, onDisk, historyVars>>

\* An add is dropped if the key was seen.
TakeAdd(n) ==
    LET o == Head(pending[n]).object
    IN /\ Take(n)
       /\ store # 0 /\ Head(pending[n]).op = "add"
       /\ IF seen[store] THEN UNCHANGED task ELSE Begin(n, "join")
       /\ due' = IF Running(n) /\ synced /\ o.uid \in young /\ ~inherited
                 THEN due \cup {o.uid} ELSE due
       /\ UNCHANGED <<seen, onDisk, marker, inherited>>

\* An update is dropped if ComputeDiff finds nothing and the generation stayed.
TakeUpdate(n) ==
    /\ Take(n)
    /\ store # 0 /\ Head(pending[n]).op = "update"
    /\ UNCHANGED task \/ Begin(n, "tag")
    /\ UNCHANGED <<seen, onDisk, historyVars>>

\* Mutant: a delete leaves the key marked.
TakeDeleteOnly(n) ==
    /\ Take(n)
    /\ store # 0 /\ Head(pending[n]).op = "delete"
    /\ Begin(n, "stash")
    /\ UNCHANGED <<seen, onDisk, historyVars>>

TakeDelete(n) ==
    /\ Take(n)
    /\ store # 0 /\ Head(pending[n]).op = "delete"
    /\ Begin(n, "stash")
    /\ Mark(store, FALSE)
    /\ marker' = 0 /\ inherited' = FALSE
    /\ UNCHANGED due

\* stashDeletedForRecreate.
StashDeleted(n) ==
    /\ task[n].at = "stash"
    /\ stash' = task[n].note.object
    /\ Proceed(n, [task[n] EXCEPT !.at = "tag"])
    /\ UNCHANGED <<storeVars, recorded, historyVars>>

\* takeRecreateMatch, for a young object after the sync; "differs" says that
\* what is compared, which excludes the status, shows a difference.
Join(n, differs) ==
    LET o == task[n].note.object
        tries == synced /\ o.uid \in young /\ stash # Nothing
    IN /\ task[n].at = "join"
       /\ stash' = IF tries THEN Nothing ELSE stash
       /\ Proceed(n, [task[n] EXCEPT !.at = "tag",
              !.joined = IF tries /\ stash.uid # o.uid /\ differs THEN stash ELSE Nothing])
       /\ UNCHANGED <<storeVars, recorded, historyVars>>

\* The cluster's name is put on the event, and an add found to be old, or one
\* of the initial list.
Tag(n) ==
    /\ task[n].at = "tag"
    /\ Proceed(n, [task[n] EXCEPT !.at = "record", !.tag = context,
           !.sync = /\ task[n].note.op = "add"
                    /\ ~synced \/ task[n].note.object.uid \notin young])
    /\ UNCHANGED <<storeVars, stash, recorded, historyVars>>

Event(n, op) ==
    [op |-> op, object |-> task[n].note.object, tag |-> task[n].tag,
     joined |-> IF op = "historical" THEN Nothing ELSE task[n].joined,
     before |-> task[n].note.before]

\* RecordEventsWithBroadcast asks for the store anew.
Record(n) ==
    LET op == task[n].note.op
    IN /\ task[n].at = "record" /\ store # 0
       /\ recorded' = recorded
                \cup (IF op = "add" THEN {Event(n, "historical")} ELSE {})
                \cup (IF task[n].sync THEN {} ELSE {Event(n, op)})
       /\ Proceed(n, IF op = "add" THEN [task[n] EXCEPT !.at = "mark"] ELSE NoTask)
       /\ UNCHANGED <<storeVars, stash, historyVars>>

\* There is none, or it fails: the drop is counted.
RecordFails(n) ==
    /\ task[n].at = "record"
    /\ store = 0 \/ persistent
    /\ due' = due \ {task[n].note.object.uid}
    /\ Proceed(n, NoTask)
    /\ UNCHANGED <<storeVars, stash, recorded, marker, inherited>>

\* The store that was asked at the beginning.
MarkSeen(n) ==
    /\ task[n].at = "mark"
    /\ Mark(task[n].store, TRUE)
    /\ marker' = task[n].note.object.uid
    /\ Proceed(n, NoTask)
    /\ UNCHANGED <<store, stash, recorded, inherited, due>>

RecorderStep(n) ==
    /\ \/ StashDeleted(n) \/ Tag(n) \/ Record(n) \/ RecordFails(n) \/ MarkSeen(n)
       \/ \E differs \in BOOLEAN : Join(n, differs)
    /\ UNCHANGED <<clusterSide, persistent, connectionVars, synced, informerVars>>

\* The entry has expired (recreateJoinTTL), or gave way to others.
StashForgets ==
    /\ stash # Nothing
    /\ stash' = Nothing
    /\ UNCHANGED <<clusterSide, persistent, connectionVars, storeVars, synced, informerVars,
                   task, recorded, historyVars>>

-----------------------------------------------------------------------------
TimelineRecordingNext ==
    \/ ClusterMoves \/ Switching \/ StashForgets
    \/ \E n \in Connections :
           \/ Observe(n) \/ ListenerEnds(n)
           \/ TakeNowhere(n) \/ TakeAdd(n) \/ TakeUpdate(n) \/ TakeDelete(n)
           \/ RecorderStep(n)

TimelineRecordingSpec == TimelineRecordingInit /\ [][TimelineRecordingNext]_timelineRecordingVars

-----------------------------------------------------------------------------
(* Properties. *)

\* "ClusterContext is the kubeconfig context the event was observed on"
\* (types.go): reads that scope to it leave other clusters' events out.
EventsAreOfTheirCluster == \A e \in recorded : e.tag = e.object.cluster

\* A re-creation is compared with the object that went before it, as its own
\* cluster last had it: "joining objects across clusters would fabricate diffs"
\* (recreate_stash.go).
JoinsThePredecessor == \A e \in recorded : e.joined \in {Nothing, e.before}

HistoryIsTrue == EventsAreOfTheirCluster /\ JoinsThePredecessor

\* An object created while Radar watched is recorded as added, also when its
\* name was used before: the mark that keeps later adds out goes with the
\* object.  Creations hidden by a mark that an SQLite store had on opening, and
\* those the store failed to take, are left out.
CreationsAreRecorded ==
    \A u \in due :
        \/ \E e \in recorded : e.op = "add" /\ e.object.uid = u
        \/ u \notin young
        \/ \E n \in Connections : task[n] # NoTask /\ task[n].note.object.uid = u

\* The mark is there so that "Add events for previously-seen resources
\* short-circuit" (sqlite_store.go): the new object it keeps out of the
\* timeline is one it has seen.
OnlyRepeatsAreDropped ==
    \A n \in Connections :
        Running(n) /\ synced /\ task[n] = NoTask /\ pending[n] # <<>> /\ store # 0 =>
            LET note == Head(pending[n])
            IN note.op = "add" /\ seen[store] => marker \in {0, note.object.uid}
=============================================================================

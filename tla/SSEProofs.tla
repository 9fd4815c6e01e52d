----------------------------- MODULE SSEProofs -----------------------------
(***************************************************************************)
(* Proofs about the broadcaster of internal/server/sse.go.                 *)
(*                                                                         *)
(* SSEHub: for any number of handlers and senders, any limit and any queue *)
(* size, the client table keeps to MaxSSEClients, a client's channel is    *)
(* closed at most once, and nobody who left stays in the table.  None of   *)
(* the three is inductive by itself: that a channel is not closed twice,   *)
(* say, needs that a handler is registered only once, and so that run is   *)
(* never adding a handler that is in the table, was refused or has left.   *)
(* HubInv adds what is known of the handler run is serving.                *)
(*                                                                         *)
(* SSEWatchers, the goroutines that follow the resource cache, for any     *)
(* number of switches: types, that a cache's change channel has one        *)
(* consumer that is there to stay, and that a warm-up ends once, after the *)
(* deferred sync of the cache in use.                                      *)
(***************************************************************************)
EXTENDS SSEHub, SSEWatchers, FiniteSetTheorems, TLAPS

-----------------------------------------------------------------------------
(* The clients (SSEHub). *)

\* A handler that has not been registered has an open channel and no entry.
NewcomersAreNew ==
    \A h \in Handlers :
        hpc[h] \in {"idle", "counted"} => h \notin clients /\ closes[h] = 0

\* Between the rendezvous and the table a handler is known to run only; it may
\* have streamed and want to leave by now, but cannot have left.
AddingIsNew ==
    run.place = "adding" =>
        /\ run.handler \in Handlers
        /\ hpc[run.handler] \in {"subscribed", "streaming", "leaving"}
        /\ run.handler \notin clients
        /\ closes[run.handler] = 0

RemovingHasLeft == run.place = "removing" => run.handler \in Handlers

HubInv == /\ TypeOK /\ IsFiniteSet(clients)
          /\ ClientLimit /\ ClosedOnce /\ NoGhostClients
          /\ NewcomersAreNew /\ AddingIsNew /\ RemovingHasLeft

\* Program start.
LEMMA InitHubInv == Init => HubInv
  <1> SUFFICES ASSUME Init PROVE HubInv
    OBVIOUS
  <1>1. TypeOK
    <2>1. 0 \in Versions
      BY HubAssumption DEF Versions
    <2>2. queue \in [Handlers -> Seq(Versions)] /\ \A h \in Handlers : Len(queue[h]) = 0
      BY DEF Init
    <2>3. \A h \in Handlers : Len(queue[h]) <= QueueSize
      BY <2>2, HubAssumption
    <2>4. run = [place |-> "select", handler |-> NoHandler, waiting |-> FALSE]
      BY DEF Init, Selecting, Serving
    <2>5. run \in [place : {"select", "adding", "removing", "stopping", "stopped"},
                   handler : Handlers \cup {NoHandler}, waiting : BOOLEAN]
      BY <2>4
    <2>6. /\ clients \subseteq Handlers /\ stopCh \in BOOLEAN
          /\ hpc \in [Handlers -> {"idle", "counted", "subscribed", "streaming",
                                   "leaving", "done"}]
          /\ closes \in [Handlers -> Nat]
      BY DEF Init
    <2>7. /\ known \in [Handlers -> Versions] /\ version \in Versions
          /\ sending \in [Senders -> Versions]
      BY <2>1 DEF Init
    <2>8. /\ spc \in [Senders -> {"idle", "locking", "events", "topology"}]
          /\ left \in [Senders -> SUBSET Handlers]
      BY DEF Init
    <2>9. QED
      BY <2>2, <2>3, <2>5, <2>6, <2>7, <2>8 DEF TypeOK
  <1>2. IsFiniteSet(clients) /\ ClientLimit
    BY HubAssumption, FS_EmptySet DEF Init, ClientLimit
  <1>3. ClosedOnce /\ NoGhostClients /\ NewcomersAreNew /\ AddingIsNew /\ RemovingHasLeft
    BY DEF Init, ClosedOnce, NoGhostClients, NewcomersAreNew, AddingIsNew,
       RemovingHasLeft, Selecting, Serving
  <1>4. QED
    BY <1>1, <1>2, <1>3 DEF HubInv

\* The cardinalities the limit needs: a table that gains or loses an entry.
LEMMA TableSizes ==
  ASSUME NEW S, IsFiniteSet(S), NEW x
  PROVE  /\ Cardinality(S) \in Nat
         /\ IsFiniteSet(S \cup {x}) /\ IsFiniteSet(S \ {x})
         /\ Cardinality(S \cup {x}) \in Nat
         /\ Cardinality(S \cup {x}) <= Cardinality(S) + 1
         /\ Cardinality(S \ {x}) \in Nat
         /\ Cardinality(S \ {x}) <= Cardinality(S)
  <1>1. Cardinality(S) \in Nat
    BY FS_CardinalityType
  <1>2. IsFiniteSet(S \cup {x}) /\ IsFiniteSet(S \ {x})
    BY FS_AddElement, FS_RemoveElement
  <1>3. Cardinality(S \cup {x}) \in Nat /\ Cardinality(S \ {x}) \in Nat
    BY <1>2, FS_CardinalityType
  <1>4. Cardinality(S \cup {x}) = IF x \in S THEN Cardinality(S) ELSE Cardinality(S) + 1
    BY FS_AddElement
  <1>5. Cardinality(S \ {x}) = IF x \in S THEN Cardinality(S) - 1 ELSE Cardinality(S)
    BY FS_RemoveElement
  <1>6. QED
    BY <1>1, <1>2, <1>3, <1>4, <1>5

\* A handler's steps: they move its place, and hand it to run or its events out.
LEMMA HandlerSteps ==
  ASSUME HubInv, NEW h \in Handlers, HandlerStep(h)
  PROVE  HubInv'
  <1> USE HubAssumption DEF HubInv, TypeOK, ClientLimit, ClosedOnce, NoGhostClients,
          NewcomersAreNew, AddingIsNew, RemovingHasLeft, hubVars, chanVars, sendVars
  <1>1. CASE CountClients(h)
    BY <1>1 DEF CountClients
  <1>2. CASE Subscribe(h)
    <2>1. /\ hpc[h] = "counted" /\ hpc' = [hpc EXCEPT ![h] = "subscribed"]
          /\ run' = [place |-> "adding", handler |-> h, waiting |-> FALSE]
          /\ UNCHANGED <<clients, stopCh, chanVars, known, sendVars>>
      BY <1>2 DEF Subscribe, Serving
    <2>2. TypeOK'
      BY <2>1
    <2>3. AddingIsNew' /\ RemovingHasLeft' /\ NewcomersAreNew'
      BY <2>1
    <2>4. ClientLimit' /\ ClosedOnce' /\ IsFiniteSet(clients')
      BY <2>1
    <2>5. \A g \in clients : hpc[g] # "done"
      BY <1>2 DEF Subscribe, Selecting, Serving
    <2>6. NoGhostClients'
      BY <2>1, <2>5
    <2> QED
      BY <2>2, <2>3, <2>4, <2>6
  <1>3. CASE SendCurrentStatus(h)
    <2>1. /\ hpc[h] = "subscribed" /\ hpc' = [hpc EXCEPT ![h] = "streaming"]
          /\ known' = [known EXCEPT ![h] = version]
          /\ UNCHANGED <<clients, run, stopCh, chanVars, sendVars>>
      BY <1>3 DEF SendCurrentStatus
    <2>2. TypeOK'
      BY <2>1
    <2>3. AddingIsNew' /\ RemovingHasLeft' /\ NewcomersAreNew'
      BY <2>1
    <2>4. ClientLimit' /\ ClosedOnce' /\ NoGhostClients' /\ IsFiniteSet(clients')
      BY <2>1
    <2> QED
      BY <2>2, <2>3, <2>4
  <1>4. CASE StreamEvent(h)
    <2>1. /\ Head(queue[h]) \in Versions
          /\ Tail(queue[h]) \in Seq(Versions)
          /\ Len(Tail(queue[h])) <= QueueSize
      BY <1>4 DEF StreamEvent
    <2>2. /\ queue' = [queue EXCEPT ![h] = Tail(queue[h])]
          /\ known' \in {known, [known EXCEPT ![h] = Head(queue[h])]}
          /\ UNCHANGED <<hubVars, hpc, closes, sendVars>>
      BY <1>4 DEF StreamEvent
    <2>3. queue' \in [Handlers -> Seq(Versions)] /\ \A g \in Handlers : Len(queue'[g]) <= QueueSize
      BY <2>1, <2>2
    <2>4. known' \in [Handlers -> Versions]
      BY <2>1, <2>2
    <2>5. TypeOK'
      BY <2>2, <2>3, <2>4
    <2>6. AddingIsNew' /\ RemovingHasLeft' /\ NewcomersAreNew'
      BY <2>2
    <2>7. ClientLimit' /\ ClosedOnce' /\ NoGhostClients' /\ IsFiniteSet(clients')
      BY <2>2
    <2> QED
      BY <2>5, <2>6, <2>7
  <1>5. CASE StopStreaming(h)
    <2>1. /\ hpc[h] = "streaming" /\ hpc' = [hpc EXCEPT ![h] = "leaving"]
          /\ UNCHANGED <<clients, run, stopCh, chanVars, known, sendVars>>
      BY <1>5 DEF StopStreaming
    <2>2. TypeOK'
      BY <2>1
    <2>3. AddingIsNew' /\ RemovingHasLeft' /\ NewcomersAreNew'
      BY <2>1
    <2>4. ClientLimit' /\ ClosedOnce' /\ NoGhostClients' /\ IsFiniteSet(clients')
      BY <2>1
    <2> QED
      BY <2>2, <2>3, <2>4
  <1>6. CASE Unsubscribe(h)
    BY <1>6 DEF Unsubscribe, Selecting, Serving
  <1>7. QED
    BY <1>1, <1>2, <1>3, <1>4, <1>5, <1>6 DEF HandlerStep

\* The steps of run, and Stop: only these change the table or close a channel.
LEMMA RunSteps ==
  ASSUME HubInv, RunStep \/ Stop
  PROVE  HubInv'
  <1> USE HubAssumption DEF HubInv, TypeOK, ClientLimit, ClosedOnce, NoGhostClients,
          NewcomersAreNew, AddingIsNew, RemovingHasLeft, hubVars, chanVars, sendVars
  <1>1. CASE RunWantsLock
    BY <1>1 DEF RunWantsLock
  <1>2. CASE AddClient
    <2>1. /\ IsFiniteSet(clients \cup {run.handler})
          /\ Cardinality(clients) \in Nat
          /\ Cardinality(clients \cup {run.handler}) \in Nat
          /\ Cardinality(clients \cup {run.handler}) <= Cardinality(clients) + 1
      BY TableSizes
    <2>2. /\ run.place = "adding" /\ run' = Selecting
          /\ UNCHANGED <<stopCh, hpc, queue, known, version, spc, sending, left>>
      BY <1>2 DEF AddClient, Locked
    <2>3. Selecting.place = "select" /\ Selecting \in
            [place : {"select", "adding", "removing", "stopping", "stopped"},
             handler : Handlers \cup {NoHandler}, waiting : BOOLEAN]
      BY DEF Selecting, Serving
    <2>4. CASE Cardinality(clients) >= MaxClients
      <3>1. /\ clients' = clients
            /\ closes' = [h \in Handlers |->
                   closes[h] + IF h = run.handler THEN 1 ELSE 0]
        BY <1>2, <2>4 DEF AddClient, Close
      <3>2. closes' \in [Handlers -> Nat] /\ \A h \in Handlers : closes'[h] <= 1
        BY <2>2, <3>1
      <3>3. QED
        BY <2>2, <2>3, <3>1, <3>2
    <2>5. CASE ~(Cardinality(clients) >= MaxClients)
      <3>1. clients' = clients \cup {run.handler} /\ closes' = closes
        BY <1>2, <2>5 DEF AddClient
      <3>2. ClientLimit' /\ IsFiniteSet(clients')
        <4>1. IsFiniteSet(clients')
          BY <2>1, <3>1
        <4>2. Cardinality(clients) + 1 <= MaxClients
          BY <2>1, <2>5
        <4>3. Cardinality(clients') <= MaxClients
          BY <2>1, <3>1, <4>2
        <4>4. QED
          BY <4>1, <4>3
      <3>3. TypeOK'
        BY <2>2, <2>3, <3>1
      <3>4. ClosedOnce' /\ NewcomersAreNew'
        BY <2>2, <3>1
      <3>5. NoGhostClients' /\ AddingIsNew' /\ RemovingHasLeft'
        BY <2>2, <2>3, <3>1
      <3>6. QED
        BY <3>2, <3>3, <3>4, <3>5
    <2>6. QED
      BY <2>4, <2>5
  <1>3. CASE RemoveClient
    <2>1. /\ IsFiniteSet(clients \ {run.handler})
          /\ Cardinality(clients) \in Nat
          /\ Cardinality(clients \ {run.handler}) \in Nat
          /\ Cardinality(clients \ {run.handler}) <= Cardinality(clients)
      BY TableSizes
    <2>2. /\ run.place = "removing" /\ run' = Selecting
          /\ clients' = clients \ {run.handler}
          /\ closes' = [h \in Handlers |->
                 closes[h] + IF h \in clients /\ h = run.handler THEN 1 ELSE 0]
          /\ UNCHANGED <<stopCh, hpc, queue, known, version, spc, sending, left>>
      BY <1>3 DEF RemoveClient, Close, Locked
    <2>3. Selecting.place = "select" /\ Selecting \in
            [place : {"select", "adding", "removing", "stopping", "stopped"},
             handler : Handlers \cup {NoHandler}, waiting : BOOLEAN]
      BY DEF Selecting, Serving
    <2>4. closes' \in [Handlers -> Nat]
      BY <2>2
    <2>5. ClientLimit' /\ IsFiniteSet(clients')
      BY <2>1, <2>2
    <2>6. ClosedOnce' /\ NoGhostClients'
      BY <2>2, <2>3
    <2>7. QED
      BY <2>2, <2>3, <2>4, <2>5, <2>6
  <1>4. CASE RunSeesStop
    BY <1>4 DEF RunSeesStop, Serving, Selecting
  <1>5. CASE RunStops
    BY <1>5, FS_EmptySet DEF RunStops, Close, Locked, Serving
  <1>6. CASE Stop
    BY <1>6 DEF Stop
  <1>7. QED
    BY <1>1, <1>2, <1>3, <1>4, <1>5, <1>6 DEF RunStep

\* A sender fills queues and leaves the table and the handlers alone.
LEMMA SenderSteps ==
  ASSUME HubInv, NEW s \in Senders, SenderStep(s)
  PROVE  HubInv'
  <1> USE HubAssumption
  <1> DEFINE Filled == queue' \in [Handlers -> Seq(Versions)]
                       /\ \A h \in Handlers : Len(queue'[h]) <= QueueSize
             Sent == /\ version' \in Versions
                     /\ spc' \in [Senders -> {"idle", "locking", "events", "topology"}]
                     /\ sending' \in [Senders -> Versions]
                     /\ left' \in [Senders -> SUBSET Handlers]
  <1>0. UNCHANGED <<clients, run, stopCh, hpc, closes, known>>
    BY DEF SenderStep, StatusChanges, EventHappens, StartSending, SafeSend, FinishSending,
       hubVars, chanVars
  <1>t. /\ queue \in [Handlers -> Seq(Versions)] /\ \A h \in Handlers : Len(queue[h]) <= QueueSize
        /\ clients \subseteq Handlers /\ version \in Versions
        /\ spc \in [Senders -> {"idle", "locking", "events", "topology"}]
        /\ sending \in [Senders -> Versions] /\ left \in [Senders -> SUBSET Handlers]
    BY DEF HubInv, TypeOK
  <1>1. ASSUME StatusChanges(s) PROVE Filled /\ Sent
    <2>1. version + 1 \in Versions
      BY <1>1, <1>t DEF StatusChanges, Versions
    <2>2. /\ version' = version + 1
          /\ spc' = [spc EXCEPT ![s] = "locking"]
          /\ sending' = [sending EXCEPT ![s] = version + 1]
          /\ UNCHANGED <<queue, left>>
      BY <1>1 DEF StatusChanges, chanVars
    <2> QED
      BY <1>t, <2>1, <2>2
  <1>2. ASSUME EventHappens(s) PROVE Filled /\ Sent
    BY <1>2, <1>t DEF EventHappens, chanVars
  <1>3. ASSUME StartSending(s) PROVE Filled /\ Sent
    <2>1. /\ left' = [left EXCEPT ![s] = clients]
          /\ \E place \in {"events", "topology"} : spc' = [spc EXCEPT ![s] = place]
          /\ UNCHANGED <<queue, version, sending>>
      BY <1>3 DEF StartSending, chanVars
    <2> QED
      BY <1>t, <2>1
  <1>4. ASSUME NEW h \in Handlers, SafeSend(s, h) PROVE Filled /\ Sent
    <2>1. /\ left' = [left EXCEPT ![s] = left[s] \ {h}]
          /\ UNCHANGED <<version, spc, sending>>
      BY <1>4 DEF SafeSend
    <2>2. Sent
      BY <1>t, <2>1
    <2>3. CASE IsOpen(h) /\ Len(queue[h]) < QueueSize
      <3>1. /\ Append(queue[h], sending[s]) \in Seq(Versions)
            /\ Len(Append(queue[h], sending[s])) <= QueueSize
        BY <1>t, <2>3
      <3>2. queue' = [queue EXCEPT ![h] = Append(queue[h], sending[s])]
        BY <1>4, <2>3 DEF SafeSend
      <3> QED
        BY <1>t, <2>2, <3>1, <3>2
    <2>4. CASE ~(IsOpen(h) /\ Len(queue[h]) < QueueSize)
      <3>1. queue' = queue
        BY <1>4, <2>4 DEF SafeSend
      <3> QED
        BY <1>t, <2>2, <3>1
    <2>5. QED
      BY <2>3, <2>4
  <1>5. ASSUME FinishSending(s) PROVE Filled /\ Sent
    <2>1. 0 \in Versions
      BY DEF Versions
    <2>2. /\ spc' = [spc EXCEPT ![s] = "idle"] /\ sending' = [sending EXCEPT ![s] = 0]
          /\ UNCHANGED <<queue, version, left>>
      BY <1>5 DEF FinishSending, chanVars
    <2> QED
      BY <1>t, <2>1, <2>2
  <1>6. Filled /\ Sent
    BY <1>1, <1>2, <1>3, <1>4, <1>5 DEF SenderStep
  <1>7. TypeOK'
    BY <1>0, <1>6 DEF HubInv, TypeOK
  <1>8. AddingIsNew' /\ RemovingHasLeft' /\ NewcomersAreNew'
    BY <1>0 DEF HubInv, AddingIsNew, RemovingHasLeft, NewcomersAreNew
  <1>9. ClientLimit' /\ ClosedOnce' /\ NoGhostClients' /\ IsFiniteSet(clients')
    BY <1>0 DEF HubInv, ClientLimit, ClosedOnce, NoGhostClients
  <1> QED
    BY <1>7, <1>8, <1>9 DEF HubInv

\* The invariant holds throughout.
LEMMA HubInvariant == Spec => []HubInv
  <1>1. HubInv /\ [Next]_vars => HubInv'
    <2> SUFFICES ASSUME HubInv, [Next]_vars PROVE HubInv'
      OBVIOUS
    <2>1. CASE UNCHANGED vars
      BY <2>1 DEF vars, hubVars, chanVars, sendVars, HubInv, TypeOK, ClientLimit,
         ClosedOnce, NoGhostClients, NewcomersAreNew, AddingIsNew, RemovingHasLeft
    <2>2. QED
      BY <2>1, HandlerSteps, RunSteps, SenderSteps DEF Next
  <1>2. QED
    BY InitHubInv, <1>1, PTL DEF Spec

\* Places, queues and versions stay in range (SSEHub TypeOK).
THEOREM HubTypeCorrect == Spec => []TypeOK
  BY HubInvariant, PTL DEF HubInv

\* However many handlers Subscribe let through at once, the table never
\* outgrows MaxSSEClients (SSEHub ClientLimit).
THEOREM ClientLimitHolds == Spec => []ClientLimit
  BY HubInvariant, PTL DEF HubInv

\* No client channel is closed twice, by refusal, unregistration or Stop, and
\* those in the table are open (SSEHub ClosedOnce).
THEOREM ClosedOnceHolds == Spec => []ClosedOnce
  BY HubInvariant, PTL DEF HubInv

\* A handler that returned is not left in the table (SSEHub NoGhostClients).
THEOREM NoGhostClientsHolds == Spec => []NoGhostClients
  BY HubInvariant, PTL DEF HubInv

-----------------------------------------------------------------------------
(* The watchers (SSEWatchers). *)

\* The goroutines that have captured their channels and have not ended.
WatcherRuns(p) == watcher[p].place \in {"reading", "registering", "waiting", "draining"}
WaiterRuns(p) == waiter[p].place \in {"polling", "waiting", "synced", "closing"}
HasCache(p) == waiter[p].place \in {"waiting", "synced", "closing"}

\* What the place of a switch says of the counters, the cache and the
\* channels: the warm-up's is behind the switch until it is reset, and the
\* stop channel until the restart.
Turns ==
    /\ made <= switches + 1
    /\ cluster = "boot" => made = 0 /\ switches = 0
    /\ cluster \in {"tearDown", "up"} => made <= switches
    /\ cluster \in {"bootUp", "callbacks", "restart", "connect"} => cache # NoCache
    /\ connected => cluster = "idle" /\ cache # NoCache
    /\ cluster \in {"tearDown", "up", "callbacks", "restart"} => restarts < switches
    /\ warmup = IF cluster = "restart" THEN switches ELSE restarts

\* Pair p was spawned by restart p.  If goroutines keep up, one that has yet
\* to capture its channels is the newest and finds its own; and no switch has
\* got further than its beginning.
PairInv(p) ==
    /\ "spawned" \in {watcher[p].place, waiter[p].place} =>
           p = restarts /\ cluster \notin {"tearDown", "up", "callbacks", "restart"}
    /\ p > restarts => watcher[p].place = "off" /\ waiter[p].place = "off"
    /\ WatcherRuns(p) => watcher[p].stop = p
    /\ WaiterRuns(p) => waiter[p].warm = p

\* A warm-up channel is closed by the waiter of its pair as the last thing it
\* does, for the cache in use or one that has been torn down since.
WarmupInv(p) ==
    /\ warmCloses[p] <= 1
    /\ WarmupDone(p) => waiter[p].place = "done"
    /\ cluster = "boot" => ~HasCache(p) /\ ~WarmupDone(p)
    /\ waiter[p].place \in {"synced", "closing"} => waiter[p].cache \in deferredDone
    /\ p = warmup /\ cluster # "callbacks" /\ cache # NoCache =>
           /\ HasCache(p) => waiter[p].cache = cache
           /\ WarmupDone(p) => cache \in deferredDone

WatchersInv ==
    /\ WatchersTypeOK
    /\ Turns
    /\ prompt => \A p \in Pairs : PairInv(p) /\ WarmupInv(p)

-----------------------------------------------------------------------------
(* Types and turns. *)

\* A goroutine's step changes at most its own record, and the warm-up channels;
\* what is left of the types and the turns is the cluster's.
ClusterTypes ==
    /\ prompt \in BOOLEAN
    /\ cluster \in {"boot", "bootUp", "idle", "tearDown", "up", "callbacks",
                    "restart", "connect"}
    /\ switches \in 0 .. MaxSwitches
    /\ made \in 0 .. MaxSwitches + 1
    /\ cache \in {NoCache, made}
    /\ deferredDone \subseteq 1 .. made
    /\ connected \in BOOLEAN
    /\ restarts \in Pairs /\ warmup \in restarts .. switches

WatcherRecords == [place : {"off", "spawned", "reading", "registering", "waiting", "draining",
                            "done"},
                   stop : Pairs, cache : Caches \cup {NoCache}, token : BOOLEAN]
WaiterRecords == [place : {"off", "spawned", "polling", "waiting", "synced", "closing", "done"},
                  stop : Pairs, warm : Pairs, cache : Caches \cup {NoCache}]

GoroutineTypes ==
    /\ warmCloses \in [Pairs -> Nat]
    /\ watcher \in [Pairs -> WatcherRecords]
    /\ waiter \in [Pairs -> WaiterRecords]

LEMMA TypeOKParts == WatchersTypeOK <=> ClusterTypes /\ GoroutineTypes
BY DEF WatchersTypeOK, ClusterTypes, GoroutineTypes, WatcherRecords, WaiterRecords

\* What a step may write into the record of a goroutine.
LEMMA WatcherWrites ==
    ASSUME 0 \in Pairs, NoCache \in Caches \cup {NoCache},
           NEW w \in WatcherRecords, NEW n \in Pairs, NEW c \in Caches \cup {NoCache},
           NEW t \in BOOLEAN
    PROVE  /\ NoWatcher("spawned") \in WatcherRecords /\ NoWatcher("done") \in WatcherRecords
           /\ [w EXCEPT !.stop = n, !.place = "reading"] \in WatcherRecords
           /\ [w EXCEPT !.place = "registering"] \in WatcherRecords
           /\ [w EXCEPT !.place = "waiting", !.token = t] \in WatcherRecords
           /\ [w EXCEPT !.place = "draining", !.cache = c] \in WatcherRecords
           /\ [w EXCEPT !.token = TRUE] \in WatcherRecords
<1>1. NoWatcher("spawned") \in WatcherRecords /\ NoWatcher("done") \in WatcherRecords
  BY DEF NoWatcher, WatcherRecords
<1> QED BY <1>1 DEF WatcherRecords

LEMMA WaiterWrites ==
    ASSUME 0 \in Pairs, NoCache \in Caches \cup {NoCache},
           NEW w \in WaiterRecords, NEW n \in Pairs, NEW m \in Pairs,
           NEW c \in Caches \cup {NoCache}
    PROVE  /\ NoWaiter("spawned") \in WaiterRecords /\ NoWaiter("done") \in WaiterRecords
           /\ [w EXCEPT !.stop = n, !.warm = m, !.place = "polling"] \in WaiterRecords
           /\ [w EXCEPT !.place = "waiting", !.cache = c] \in WaiterRecords
           /\ [w EXCEPT !.place = "synced"] \in WaiterRecords
           /\ [w EXCEPT !.place = "closing"] \in WaiterRecords
<1>1. NoWaiter("spawned") \in WaiterRecords /\ NoWaiter("done") \in WaiterRecords
  BY DEF NoWaiter, WaiterRecords
<1> QED BY <1>1 DEF WaiterRecords

\* The pairs of what is captured are numbers of switches.
LEMMA Numbers ==
    ASSUME SwitchesAssumption, ClusterTypes
    PROVE  /\ MaxSwitches \in Nat /\ switches \in Nat /\ switches \in Pairs
           /\ made \in Nat /\ cache \in Nat /\ cache \in Caches \cup {NoCache}
           /\ restarts \in Nat /\ warmup \in Nat /\ warmup \in Pairs
           /\ 0 \in Pairs /\ NoCache \in Caches \cup {NoCache}
BY SMT DEF SwitchesAssumption, ClusterTypes, Pairs, Caches, NoCache

LEMMA InitTypes == SwitchesAssumption /\ WatchersInit => WatchersTypeOK /\ Turns
<1> SUFFICES ASSUME SwitchesAssumption, WatchersInit PROVE WatchersTypeOK /\ Turns
  OBVIOUS
<1>1. ClusterTypes /\ Turns
  <2>1. /\ prompt \in BOOLEAN /\ cluster = "boot" /\ switches = 0 /\ made = 0 /\ cache = 0
        /\ deferredDone = {} /\ connected \in BOOLEAN /\ ~connected /\ restarts = 0 /\ warmup = 0
        /\ MaxSwitches \in Nat
    BY DEF WatchersInit, NoCache, SwitchesAssumption
  <2> QED BY <2>1, SMT DEF ClusterTypes, Turns, Pairs, NoCache
<1>2. 0 \in Pairs /\ NoCache \in Caches \cup {NoCache}
  BY SMT DEF SwitchesAssumption, Pairs, NoCache
<1>3. \A place \in {"off", "spawned"} :
          NoWatcher(place) \in WatcherRecords /\ NoWaiter(place) \in WaiterRecords
  BY <1>2, SMT DEF NoWatcher, NoWaiter, WatcherRecords, WaiterRecords
<1>4. GoroutineTypes
  BY <1>3 DEF WatchersInit, GoroutineTypes
<1> QED BY <1>1, <1>4, TypeOKParts

LEMMA ClusterStepTypes ==
    ASSUME SwitchesAssumption, ClusterTypes, Turns, [WatchersNext]_watchersVars
    PROVE  ClusterTypes' /\ Turns'
<1> USE DEF NoCache
<1>0. MaxSwitches \in Nat /\ switches \in Nat /\ made \in Nat /\ restarts \in Nat /\ warmup \in Nat
  BY Numbers
<1>1. CASE BeginSwitch
  <2>1. switches < MaxSwitches
    BY <1>0, <1>1, SMT DEF BeginSwitch, SwitchesAssumption, ClusterTypes
  <2>2. /\ cluster = "idle" /\ cluster' = "tearDown" /\ switches' = switches + 1
        /\ connected' \in BOOLEAN /\ ~connected'
        /\ UNCHANGED <<prompt, made, cache, deferredDone, restarts, warmup>>
    BY <1>1 DEF BeginSwitch, MoveTo, channelVars
  <2> QED BY <1>0, <2>1, <2>2, SMT DEF ClusterTypes, Turns, Pairs
<1>2. CASE BringUp
  BY <1>0, <1>2, SMT DEF BringUp, MoveTo, SwitchesAssumption, ClusterTypes, Turns, channelVars, Pairs
<1>3. CASE TearDown
  BY <1>0, <1>3, SMT DEF TearDown, MoveTo, SwitchesAssumption, ClusterTypes, Turns, channelVars, Pairs
<1>4. CASE SwitchFails
  BY <1>0, <1>4, SMT DEF SwitchFails, MoveTo, SwitchesAssumption, ClusterTypes, Turns, channelVars, Pairs
<1>5. CASE ResetWarmup
  BY <1>0, <1>5, SMT DEF ResetWarmup, MoveTo, SwitchesAssumption, ClusterTypes, Turns, Pairs
<1>6. CASE Restart
  BY <1>0, <1>6, SMT DEF Restart, MoveTo, SwitchesAssumption, ClusterTypes, Turns, Pairs
<1>7. CASE Connect
  BY <1>0, <1>7, SMT DEF Connect, MoveTo, SwitchesAssumption, ClusterTypes, Turns, channelVars, Pairs
<1>8. ASSUME NEW c \in Caches, DeferredDone(c) PROVE ClusterTypes' /\ Turns'
  BY <1>0, <1>8, SMT DEF DeferredDone, SwitchesAssumption, ClusterTypes, Turns, channelVars, Pairs
<1>9. ASSUME NEW p \in Pairs, WatcherStep(p) PROVE ClusterTypes' /\ Turns'
  <2>1. UNCHANGED <<clusterVars, channelVars>>
    BY <1>9 DEF WatcherStep, WatcherStarts, WatcherReadsCache, WatcherRegisters, WatcherWakes,
                WatcherStops, DrainOr, Watch
  <2> QED BY <2>1 DEF ClusterTypes, Turns, clusterVars, channelVars
<1>10. ASSUME NEW p \in Pairs, DeferredStep(p) PROVE ClusterTypes' /\ Turns'
  <2>1. UNCHANGED <<clusterVars, restarts, warmup>>
    BY <1>10 DEF DeferredStep, DeferredStarts, DeferredFindsCache, DeferredWakes,
                 DeferredChecksWarmup, DeferredClosesWarmup, CloseWarmup, DeferredStops, Wait,
                 channelVars
  <2> QED BY <2>1 DEF ClusterTypes, Turns, clusterVars
<1>11. CASE UNCHANGED watchersVars
  BY <1>11 DEF ClusterTypes, Turns, watchersVars, clusterVars, channelVars
<1> QED
  BY <1>1, <1>2, <1>3, <1>4, <1>5, <1>6, <1>7, <1>8, <1>9, <1>10, <1>11 DEF WatchersNext, ClusterStep

LEMMA GoroutineStepTypes ==
    ASSUME SwitchesAssumption, ClusterTypes, GoroutineTypes, [WatchersNext]_watchersVars
    PROVE  GoroutineTypes'
<1>0. /\ switches \in Pairs /\ cache \in Caches \cup {NoCache} /\ restarts \in Pairs
      /\ warmup \in Pairs /\ 0 \in Pairs /\ NoCache \in Caches \cup {NoCache}
      /\ connected \in BOOLEAN
  BY Numbers DEF ClusterTypes
<1>1. CASE UNCHANGED <<warmCloses, watcher, waiter>>
  BY <1>1 DEF GoroutineTypes
<1>2. CASE Restart
  <2>1. NoWatcher("spawned") \in WatcherRecords /\ NoWaiter("spawned") \in WaiterRecords
    BY <1>0, SMT DEF NoWatcher, NoWaiter, WatcherRecords, WaiterRecords
  <2> QED BY <1>0, <1>2, <2>1 DEF Restart, Spawn, GoroutineTypes
<1>3. CASE Connect
  <2>1. \A p \in Pairs : [watcher[p] EXCEPT !.token = TRUE] \in WatcherRecords
    BY <1>0, WatcherWrites DEF GoroutineTypes
  <2> QED BY <1>3, <2>1 DEF Connect, GoroutineTypes, channelVars
<1>4. ASSUME NEW p \in Pairs, WatcherStep(p) PROVE GoroutineTypes'
  <2>1. UNCHANGED <<warmCloses, waiter>>
    BY <1>4 DEF WatcherStep, WatcherStarts, WatcherReadsCache, WatcherRegisters, WatcherWakes,
                WatcherStops, DrainOr, Watch, channelVars
  <2>2. PICK w \in WatcherRecords : watcher' = [watcher EXCEPT ![p] = w]
    <3>0. watcher[p] \in WatcherRecords
      BY DEF GoroutineTypes
    <3>1. CASE WatcherStarts(p)
      BY <1>0, <3>0, <3>1, WatcherWrites DEF WatcherStarts, Watch
    <3>2. CASE WatcherReadsCache(p)
      BY <1>0, <3>0, <3>2, WatcherWrites DEF WatcherReadsCache, DrainOr, Watch
    <3>3. CASE WatcherRegisters(p)
      BY <1>0, <3>0, <3>3, WatcherWrites DEF WatcherRegisters, Watch
    <3>4. CASE WatcherWakes(p)
      BY <1>0, <3>0, <3>4, WatcherWrites DEF WatcherWakes, DrainOr, Watch
    <3>5. CASE WatcherStops(p)
      BY <1>0, <3>0, <3>5, WatcherWrites DEF WatcherStops, Watch
    <3> QED BY <1>4, <3>1, <3>2, <3>3, <3>4, <3>5 DEF WatcherStep
  <2> QED BY <2>1, <2>2 DEF GoroutineTypes
<1>5. ASSUME NEW p \in Pairs, DeferredStep(p) PROVE GoroutineTypes'
  <2>1. PICK w \in WaiterRecords : waiter' = [waiter EXCEPT ![p] = w]
    <3>0. waiter[p] \in WaiterRecords
      BY DEF GoroutineTypes
    <3>1. CASE DeferredStarts(p)
      BY <1>0, <3>0, <3>1, WaiterWrites DEF DeferredStarts, Wait
    <3>2. CASE DeferredFindsCache(p)
      BY <1>0, <3>0, <3>2, WaiterWrites DEF DeferredFindsCache, Wait
    <3>3. CASE DeferredWakes(p)
      BY <1>0, <3>0, <3>3, WaiterWrites DEF DeferredWakes, Wait
    <3>4. CASE DeferredChecksWarmup(p)
      BY <1>0, <3>0, <3>4, WaiterWrites DEF DeferredChecksWarmup, Wait
    <3>5. CASE DeferredClosesWarmup(p)
      BY <1>0, <3>0, <3>5, WaiterWrites DEF DeferredClosesWarmup, CloseWarmup, Wait
    <3>6. CASE DeferredStops(p)
      BY <1>0, <3>0, <3>6, WaiterWrites DEF DeferredStops, Wait
    <3> QED BY <1>5, <3>1, <3>2, <3>3, <3>4, <3>5, <3>6 DEF DeferredStep
  <2>2. UNCHANGED watcher
    BY <1>5 DEF DeferredStep, DeferredStarts, DeferredFindsCache, DeferredWakes,
                DeferredChecksWarmup, DeferredClosesWarmup, CloseWarmup, DeferredStops, Wait
  <2>3. warmCloses' \in [Pairs -> Nat]
    BY <1>5 DEF DeferredStep, DeferredStarts, DeferredFindsCache, DeferredWakes,
                DeferredChecksWarmup, DeferredClosesWarmup, CloseWarmup, DeferredStops, Wait,
                channelVars, GoroutineTypes
  <2> QED BY <2>1, <2>2, <2>3 DEF GoroutineTypes
<1>6. CASE BeginSwitch \/ BringUp \/ TearDown \/ SwitchFails \/ ResetWarmup
  BY <1>1, <1>6 DEF BeginSwitch, BringUp, TearDown, SwitchFails, ResetWarmup, channelVars
<1>7. CASE \E c \in Caches : DeferredDone(c)
  BY <1>1, <1>7 DEF DeferredDone, channelVars
<1>8. CASE UNCHANGED watchersVars
  BY <1>1, <1>8 DEF watchersVars, channelVars
<1> QED
  BY <1>2, <1>3, <1>4, <1>5, <1>6, <1>7, <1>8 DEF WatchersNext, ClusterStep

LEMMA TypeStep ==
    ASSUME SwitchesAssumption, WatchersTypeOK, Turns, [WatchersNext]_watchersVars
    PROVE  (WatchersTypeOK /\ Turns)'
<1>1. ClusterTypes /\ GoroutineTypes
  BY TypeOKParts
<1>2. ClusterTypes' /\ Turns' /\ GoroutineTypes'
  BY <1>1, ClusterStepTypes, GoroutineStepTypes
<1> QED BY <1>2 DEF WatchersTypeOK, ClusterTypes, GoroutineTypes, WatcherRecords, WaiterRecords

\* Whether goroutines keep up is chosen once.
LEMMA PromptStays == ASSUME [WatchersNext]_watchersVars PROVE prompt' = prompt
<1>1. ASSUME NEW p \in Pairs, WatcherStep(p) \/ DeferredStep(p) PROVE prompt' = prompt
  BY <1>1 DEF WatcherStep, WatcherStarts, WatcherReadsCache, WatcherRegisters, WatcherWakes,
              WatcherStops, DrainOr, Watch, DeferredStep, DeferredStarts, DeferredFindsCache,
              DeferredWakes, DeferredChecksWarmup, DeferredClosesWarmup, CloseWarmup,
              DeferredStops, Wait, clusterVars
<1>2. CASE BeginSwitch \/ ClusterStep \/ \E c \in Caches : DeferredDone(c)
  BY <1>2 DEF ClusterStep, BeginSwitch, BringUp, TearDown, SwitchFails, ResetWarmup, Restart,
              Connect, DeferredDone
<1> QED BY <1>1, <1>2 DEF WatchersNext, watchersVars, clusterVars

\* The counters, channels and goroutine records keep their types, and the
\* counters and channels the order the steps of a switch give them.
THEOREM WatchersTypeCorrect == SwitchesAssumption /\ WatchersSpec => [](WatchersTypeOK /\ Turns)
<1> SUFFICES ASSUME SwitchesAssumption PROVE WatchersSpec => [](WatchersTypeOK /\ Turns)
  BY DEF SwitchesAssumption
<1>1. WatchersInit => WatchersTypeOK /\ Turns
  BY InitTypes
<1>2. WatchersTypeOK /\ Turns /\ [WatchersNext]_watchersVars => (WatchersTypeOK /\ Turns)'
  BY TypeStep
<1> QED BY <1>1, <1>2, PTL DEF WatchersSpec

-----------------------------------------------------------------------------
(* Pairs of goroutines. *)

\* A step of a goroutine is its own; the first captures the channels in use,
\* the others keep what was captured.
LEMMA WatcherMoves ==
    ASSUME WatchersTypeOK, NEW p \in Pairs, WatcherStep(p)
    PROVE  /\ UNCHANGED <<clusterVars, channelVars, waiter>>
           /\ \A q \in Pairs : q # p => watcher'[q] = watcher[q]
           /\ watcher[p].place \notin {"off", "done"}
           /\ watcher'[p].place \notin {"off", "spawned"}
           /\ WatcherRuns(p)' => watcher'[p].stop =
                  IF watcher[p].place = "spawned" THEN restarts ELSE watcher[p].stop
<1>0. watcher \in [Pairs -> WatcherRecords]
  BY DEF WatchersTypeOK, WatcherRecords
<1>0a. watcher[p] \in WatcherRecords
  BY <1>0
<1> USE DEF Watches, Watch, WatcherRuns
<1>1. CASE WatcherStarts(p)
  BY <1>0, <1>0a, <1>1 DEF WatcherStarts, WatcherRecords
<1>2. CASE WatcherReadsCache(p)
  BY <1>0, <1>0a, <1>2 DEF WatcherReadsCache, DrainOr, WatcherRecords
<1>3. CASE WatcherRegisters(p)
  BY <1>0, <1>0a, <1>3 DEF WatcherRegisters, WatcherRecords
<1>4. CASE WatcherWakes(p)
  BY <1>0, <1>0a, <1>4 DEF WatcherWakes, DrainOr, WatcherRecords, NoWatcher
<1>5. CASE WatcherStops(p)
  BY <1>0, <1>0a, <1>5 DEF WatcherStops, WatcherRecords, NoWatcher
<1> QED BY <1>1, <1>2, <1>3, <1>4, <1>5 DEF WatcherStep

LEMMA WaiterMoves ==
    ASSUME WatchersTypeOK, NEW p \in Pairs, DeferredStep(p)
    PROVE  /\ UNCHANGED <<clusterVars, restarts, warmup, watcher>>
           /\ \A q \in Pairs : q # p => waiter'[q] = waiter[q]
           /\ waiter[p].place \notin {"off", "done"}
           /\ waiter'[p].place \notin {"off", "spawned"}
           /\ WaiterRuns(p)' => waiter'[p].warm =
                  IF waiter[p].place = "spawned" THEN warmup ELSE waiter[p].warm
<1>0. waiter \in [Pairs -> WaiterRecords]
  BY DEF WatchersTypeOK, WaiterRecords
<1>0a. waiter[p] \in WaiterRecords
  BY <1>0
<1> USE DEF Waits, Wait, WaiterRuns, channelVars
<1>1. CASE DeferredStarts(p)
  BY <1>0, <1>0a, <1>1 DEF DeferredStarts, WaiterRecords
<1>2. CASE DeferredFindsCache(p)
  BY <1>0, <1>0a, <1>2 DEF DeferredFindsCache, WaiterRecords
<1>3. CASE DeferredWakes(p)
  BY <1>0, <1>0a, <1>3 DEF DeferredWakes, WaiterRecords, NoWaiter
<1>4. CASE DeferredChecksWarmup(p)
  BY <1>0, <1>0a, <1>4 DEF DeferredChecksWarmup, WaiterRecords, NoWaiter
<1>5. CASE DeferredClosesWarmup(p)
  BY <1>0, <1>0a, <1>5 DEF DeferredClosesWarmup, CloseWarmup, WaiterRecords, NoWaiter
<1>6. CASE DeferredStops(p)
  BY <1>0, <1>0a, <1>6 DEF DeferredStops, WaiterRecords, NoWaiter
<1> QED BY <1>1, <1>2, <1>3, <1>4, <1>5, <1>6 DEF DeferredStep

\* The pairs that there are do not change while the cluster moves up to the
\* restart.
LEMMA PairsStep ==
    ASSUME SwitchesAssumption, WatchersTypeOK, Turns, prompt, \A p \in Pairs : PairInv(p), [WatchersNext]_watchersVars
    PROVE  \A p \in Pairs : PairInv(p)'
<1>0. /\ switches \in Nat /\ restarts \in Nat /\ switches \in Pairs
      /\ \A p \in Pairs : p \in Nat
      /\ watcher \in [Pairs -> WatcherRecords] /\ waiter \in [Pairs -> WaiterRecords]
  BY TypeOKParts, Numbers, SMT DEF Pairs, GoroutineTypes
<1>1. SUFFICES ASSUME NEW q \in Pairs, PairInv(q) PROVE PairInv(q)'
  OBVIOUS
<1> USE DEF PairInv, WatcherRuns, WaiterRuns
<1>2. CASE BeginSwitch
  <2>1. /\ watcher[q].place # "spawned" /\ waiter[q].place # "spawned"
        /\ UNCHANGED <<restarts, watcher, waiter>>
    BY <1>2 DEF BeginSwitch, channelVars
  <2> QED BY <2>1
<1>3. CASE BringUp \/ TearDown \/ SwitchFails \/ ResetWarmup
  BY <1>3 DEF BringUp, TearDown, SwitchFails, ResetWarmup, MoveTo, channelVars
<1>4. CASE Restart
  <2>1. /\ restarts' = switches /\ restarts < switches /\ cluster = "restart" /\ cluster' = "connect"
        /\ watcher' = [watcher EXCEPT ![switches] = NoWatcher("spawned")]
        /\ waiter' = [waiter EXCEPT ![switches] = NoWaiter("spawned")]
    BY <1>4 DEF Restart, MoveTo, Spawn, Turns
  <2>2. CASE q = switches
    BY <1>0, <2>1, <2>2 DEF NoWatcher, NoWaiter
  <2>3. CASE q # switches
    <3>1. watcher'[q] = watcher[q] /\ waiter'[q] = waiter[q] /\ q \in Nat
      BY <1>0, <2>1, <2>3
    <3>2. q > switches => q > restarts
      BY <1>0, <2>1, <3>1, SMT
    <3> QED BY <1>1, <2>1, <3>1, <3>2
  <2> QED BY <2>2, <2>3
<1>5. CASE Connect
  <2>1. /\ watcher'[q].place = watcher[q].place /\ watcher'[q].stop = watcher[q].stop
        /\ UNCHANGED <<restarts, waiter>> /\ cluster' = "idle"
    <3>1. watcher[q] \in WatcherRecords
      BY <1>0
    <3> QED BY <1>0, <1>5, <3>1 DEF Connect, MoveTo, channelVars, WatcherRecords
  <2>2. cluster \notin {"tearDown", "up", "callbacks", "restart"}
    BY <1>5 DEF Connect
  <2> QED BY <1>1, <2>1, <2>2
<1>6. ASSUME NEW c \in Caches, DeferredDone(c) PROVE PairInv(q)'
  BY <1>6 DEF DeferredDone, channelVars
<1>7. ASSUME NEW p \in Pairs, WatcherStep(p) PROVE PairInv(q)'
  <2>1. UNCHANGED <<cluster, restarts, waiter>>
    BY <1>7, WatcherMoves DEF clusterVars, channelVars
  <2>2. CASE q # p
    BY <1>1, <1>7, <2>1, <2>2, WatcherMoves
  <2>3. CASE q = p
    <3>1. /\ watcher[q].place \notin {"off", "done"} /\ watcher'[q].place \notin {"off", "spawned"}
          /\ WatcherRuns(q)' => watcher'[q].stop =
                IF watcher[q].place = "spawned" THEN restarts ELSE watcher[q].stop
          /\ watcher[q].place # "spawned" => WatcherRuns(q)
      <4>1. watcher[q] \in WatcherRecords
        BY <1>0
      <4> QED BY <1>7, <2>3, <4>1, WatcherMoves DEF WatcherRecords
    <3>2. ~(q > restarts)
      BY <1>1, <3>1
    <3> QED BY <1>1, <2>1, <3>1, <3>2
  <2> QED BY <2>2, <2>3
<1>8. ASSUME NEW p \in Pairs, DeferredStep(p) PROVE PairInv(q)'
  <2>1. UNCHANGED <<cluster, restarts, watcher>>
    BY <1>8, WaiterMoves DEF clusterVars
  <2>2. CASE q # p
    BY <1>1, <1>8, <2>1, <2>2, WaiterMoves
  <2>3. CASE q = p
    <3>1. /\ waiter[q].place \notin {"off", "done"} /\ waiter'[q].place \notin {"off", "spawned"}
          /\ WaiterRuns(q)' => waiter'[q].warm =
                IF waiter[q].place = "spawned" THEN warmup ELSE waiter[q].warm
          /\ waiter[q].place # "spawned" => WaiterRuns(q)
      <4>1. waiter[q] \in WaiterRecords
        BY <1>0
      <4> QED BY <1>8, <2>3, <4>1, WaiterMoves DEF WaiterRecords
    <3>2. ~(q > restarts)
      BY <1>1, <3>1
    <3>3. waiter[q].place = "spawned" => warmup = q
      BY <1>1 DEF Turns
    <3> QED BY <1>1, <2>1, <3>1, <3>2, <3>3
  <2> QED BY <2>2, <2>3
<1>9. CASE UNCHANGED watchersVars
  BY <1>9 DEF watchersVars, clusterVars, channelVars
<1> QED
  BY <1>2, <1>3, <1>4, <1>5, <1>6, <1>7, <1>8, <1>9 DEF WatchersNext, ClusterStep

LEMMA InitPairs ==
    ASSUME SwitchesAssumption, WatchersInit
    PROVE  \A p \in Pairs : PairInv(p) /\ WarmupInv(p)
<1> SUFFICES ASSUME NEW p \in Pairs PROVE PairInv(p) /\ WarmupInv(p)
  OBVIOUS
<1>1. p \in Nat
  BY SMT DEF SwitchesAssumption, Pairs
<1>2. /\ watcher[p].place = IF p = 0 THEN "spawned" ELSE "off"
      /\ waiter[p].place = IF p = 0 THEN "spawned" ELSE "off"
      /\ cluster = "boot" /\ restarts = 0 /\ warmup = 0 /\ warmCloses[p] = 0 /\ cache = NoCache
  BY DEF WatchersInit, NoWatcher, NoWaiter
<1> QED BY <1>1, <1>2, SMT DEF PairInv, WarmupInv, WatcherRuns, WaiterRuns, HasCache, WarmupDone

-----------------------------------------------------------------------------
(* The warm-up. *)

\* What the steps of a waiter do to its place, its cache and its warm-up.
LEMMA WaiterWarmups ==
    ASSUME WatchersTypeOK, NEW p \in Pairs, DeferredStep(p), WarmupInv(p),
           WaiterRuns(p) => waiter[p].warm = p
    PROVE  /\ \A q \in Pairs : q # p => warmCloses'[q] = warmCloses[q]
           /\ \/ UNCHANGED warmCloses
              \/ /\ waiter[p].place = "closing" /\ waiter'[p].place = "done"
                 /\ warmCloses'[p] = 1
           /\ HasCache(p)' => waiter'[p].cache =
                  IF HasCache(p) THEN waiter[p].cache ELSE cache
           /\ waiter'[p].place \in {"synced", "closing"} => waiter'[p].cache \in deferredDone
           /\ cluster = "boot" /\ cache = NoCache /\ ~HasCache(p) => ~HasCache(p)'
<1>0. /\ waiter[p] \in WaiterRecords /\ waiter \in [Pairs -> WaiterRecords]
      /\ warmCloses \in [Pairs -> Nat] /\ warmCloses[p] \in Nat
  BY DEF WatchersTypeOK, WaiterRecords
<1> USE DEF Waits, Wait, WaiterRuns, HasCache, channelVars
<1>1. CASE DeferredStarts(p)
  BY <1>0, <1>1 DEF DeferredStarts, WaiterRecords
<1>2. CASE DeferredFindsCache(p)
  BY <1>0, <1>2 DEF DeferredFindsCache, WaiterRecords
<1>3. CASE DeferredWakes(p)
  BY <1>0, <1>3 DEF DeferredWakes, WaiterRecords, NoWaiter
<1>4. CASE DeferredChecksWarmup(p)
  BY <1>0, <1>4 DEF DeferredChecksWarmup, WaiterRecords, NoWaiter, WarmupInv
<1>5. CASE DeferredClosesWarmup(p)
  <2>1. waiter[p].place = "closing" /\ waiter[p].warm = p
    BY <1>5 DEF DeferredClosesWarmup, CloseWarmup
  <2>2. warmCloses' = [warmCloses EXCEPT ![p] = @ + 1] /\ waiter' = [waiter EXCEPT ![p] = NoWaiter("done")]
    BY <1>5, <2>1 DEF DeferredClosesWarmup, CloseWarmup
  <2>3. warmCloses[p] = 0
    BY <1>0, <2>1, SMT DEF WarmupInv, WarmupDone
  <2> QED BY <1>0, <2>1, <2>2, <2>3 DEF NoWaiter
<1>6. CASE DeferredStops(p)
  BY <1>0, <1>6 DEF DeferredStops, WaiterRecords, NoWaiter
<1> QED BY <1>1, <1>2, <1>3, <1>4, <1>5, <1>6 DEF DeferredStep

\* A warm-up that is over, or that a waiter is about to end, is over for the
\* cache in use: a new cache finds the warm-up reset before it is switched to.
LEMMA WarmupsStep ==
    ASSUME SwitchesAssumption, WatchersTypeOK, Turns, prompt, \A p \in Pairs : PairInv(p) /\ WarmupInv(p),
           [WatchersNext]_watchersVars
    PROVE  \A p \in Pairs : WarmupInv(p)'
<1>0. /\ switches \in Nat /\ restarts \in Nat /\ switches \in Pairs
      /\ \A p \in Pairs : p \in Nat
      /\ waiter \in [Pairs -> WaiterRecords] /\ warmCloses \in [Pairs -> Nat]
  BY TypeOKParts, Numbers, SMT DEF Pairs, GoroutineTypes
<1>1. SUFFICES ASSUME NEW q \in Pairs, PairInv(q), WarmupInv(q) PROVE WarmupInv(q)'
  OBVIOUS
<1> USE DEF WarmupInv, HasCache, WarmupDone
<1>2. CASE BeginSwitch
  <2>1. cluster = "idle" /\ cluster' = "tearDown"
        /\ UNCHANGED <<waiter, warmup, warmCloses, cache, deferredDone>>
    BY <1>2 DEF BeginSwitch, MoveTo, channelVars
  <2> QED BY <1>1, <2>1
<1>3. CASE BringUp
  <2>1. UNCHANGED <<waiter, warmup, warmCloses, deferredDone>>
        /\ ((cluster = "boot" /\ cluster' = "bootUp") \/ cluster' = "callbacks")
    BY <1>3 DEF BringUp, MoveTo, channelVars
  <2> QED BY <1>1, <2>1
<1>4. CASE TearDown
  BY <1>1, <1>4 DEF TearDown, MoveTo, channelVars
<1>5. CASE SwitchFails
  BY <1>1, <1>5 DEF SwitchFails, MoveTo, channelVars
<1>6. CASE ResetWarmup
  <2>1. /\ cluster' = "restart" /\ warmup' = switches /\ restarts < switches
        /\ UNCHANGED <<waiter, warmCloses, cache, deferredDone>>
    BY <1>6 DEF ResetWarmup, MoveTo, Turns
  <2>2. q = switches => waiter[q].place = "off"
    BY <1>0, <1>1, <2>1, SMT DEF PairInv
  <2> QED BY <1>1, <2>1, <2>2
<1>7. CASE Restart
  <2>1. /\ cluster = "restart" /\ cluster' = "connect" /\ restarts < switches
        /\ waiter' = [waiter EXCEPT ![switches] = NoWaiter("spawned")]
        /\ UNCHANGED <<warmup, warmCloses, cache, deferredDone>>
    BY <1>7 DEF Restart, Spawn, MoveTo, Turns
  <2>2. CASE q = switches
    <3>1. waiter[q].place = "off" /\ waiter'[q].place = "spawned"
      BY <1>0, <1>1, <2>1, <2>2, SMT DEF PairInv, NoWaiter
    <3> QED BY <1>1, <2>1, <3>1
  <2>3. CASE q # switches
    BY <1>0, <1>1, <2>1, <2>3
  <2> QED BY <2>2, <2>3
<1>8. CASE Connect
  BY <1>1, <1>8 DEF Connect, MoveTo, channelVars
<1>9. ASSUME NEW c \in Caches, DeferredDone(c) PROVE WarmupInv(q)'
  BY <1>1, <1>9 DEF DeferredDone, channelVars
<1>10. ASSUME NEW p \in Pairs, WatcherStep(p) PROVE WarmupInv(q)'
  <2>1. UNCHANGED <<cluster, cache, deferredDone, warmup, warmCloses, waiter>>
    BY <1>10, WatcherMoves DEF clusterVars, channelVars
  <2> QED BY <1>1, <2>1
<1>11. ASSUME NEW p \in Pairs, DeferredStep(p) PROVE WarmupInv(q)'
  <2>0. UNCHANGED <<cluster, cache, deferredDone, warmup>>
    BY <1>11, WaiterMoves DEF clusterVars
  <2>1. WarmupInv(p) /\ (WaiterRuns(p) => waiter[p].warm = p)
    BY <1>1 DEF PairInv
  <2>2. CASE q # p
    <3>1. waiter'[q] = waiter[q] /\ warmCloses'[q] = warmCloses[q]
      BY <1>11, <2>1, <2>2, WaiterMoves, WaiterWarmups
    <3> QED BY <1>1, <2>0, <3>1
  <2>3. CASE q = p
    <3>1. /\ \/ warmCloses'[q] = warmCloses[q]
             \/ /\ waiter[q].place = "closing" /\ waiter'[q].place = "done"
                /\ warmCloses'[q] = 1
          /\ HasCache(q)' => waiter'[q].cache = IF HasCache(q) THEN waiter[q].cache ELSE cache
          /\ waiter'[q].place \in {"synced", "closing"} => waiter'[q].cache \in deferredDone
          /\ cluster = "boot" /\ cache = NoCache /\ ~HasCache(q) => ~HasCache(q)'
          /\ waiter[q].place # "done"
      BY <1>11, <2>1, <2>3, WaiterWarmups, WaiterMoves
    <3>2. cluster = "boot" => cache = NoCache
      BY SMT DEF WatchersTypeOK, Turns, NoCache
    <3>3. WarmupDone(q)' => waiter[q].place = "closing" /\ waiter'[q].place = "done" /\ warmCloses'[q] = 1
      BY <1>1, <3>1
    <3> QED BY <1>1, <2>0, <3>1, <3>2, <3>3, SMT
  <2> QED BY <2>2, <2>3
<1>12. CASE UNCHANGED watchersVars
  BY <1>1, <1>12 DEF watchersVars, clusterVars, channelVars
<1> QED
  BY <1>2, <1>3, <1>4, <1>5, <1>6, <1>7, <1>8, <1>9, <1>10, <1>11, <1>12 DEF WatchersNext, ClusterStep

-----------------------------------------------------------------------------
(* The theorems. *)

\* If goroutines keep up with the switches, each pair captures the channels
\* of its own restart, and each warm-up is ended by its own waiter.
LEMMA WatchersInvHolds == SwitchesAssumption /\ WatchersSpec => []WatchersInv
<1> SUFFICES ASSUME SwitchesAssumption PROVE WatchersSpec => []WatchersInv
  BY DEF SwitchesAssumption
<1>1. WatchersInit => WatchersInv
  BY InitTypes, InitPairs DEF WatchersInv
<1>2. WatchersInv /\ [WatchersNext]_watchersVars => WatchersInv'
  <2> SUFFICES ASSUME WatchersInv, [WatchersNext]_watchersVars PROVE WatchersInv'
    OBVIOUS
  <2>1. (WatchersTypeOK /\ Turns)'
    BY TypeStep DEF WatchersInv
  <2>2. prompt' = prompt
    BY PromptStays DEF WatchersInv
  <2>3. prompt => \A p \in Pairs : PairInv(p)' /\ WarmupInv(p)'
    BY PairsStep, WarmupsStep DEF WatchersInv
  <2> QED BY <2>1, <2>2, <2>3 DEF WatchersInv
<1> QED BY <1>1, <1>2, PTL DEF WatchersSpec

\* However many switches there are, if goroutines keep up with them a cache's
\* change channel has one consumer that is there to stay: restartResourceWatcher
\* closes the stop channel its predecessor captured.
THEOREM OneLiveWatcherHolds == SwitchesAssumption /\ WatchersSpec => []OneLiveWatcher
<1> SUFFICES ASSUME SwitchesAssumption PROVE WatchersSpec => []OneLiveWatcher
  BY DEF SwitchesAssumption
<1>1. WatchersInv => OneLiveWatcher
  <2> SUFFICES ASSUME WatchersInv, prompt,
                      NEW p \in Pairs, NEW q \in Pairs, Live(p), Live(q)
               PROVE  p = q
    BY DEF OneLiveWatcher
  <2>1. /\ watcher[p].stop = p /\ ~(p > restarts) /\ ~(p < restarts)
        /\ watcher[q].stop = q /\ ~(q > restarts) /\ ~(q < restarts)
    BY DEF WatchersInv, PairInv, WatcherRuns, Live, Watches, Stopped
  <2>2. p \in Nat /\ q \in Nat /\ restarts \in Nat
    BY SMT DEF WatchersInv, WatchersTypeOK, Pairs, SwitchesAssumption
  <2> QED BY <2>1, <2>2, SMT
<1> QED BY <1>1, WatchersInvHolds, PTL

\* Under the same condition no warm-up channel is closed twice, and between
\* switches the warm-up is over only if the deferred informers of the cache in
\* use are done: watchDeferredSync closes the channel it captured, not the field.
THEOREM WarmupEndsAfterSyncHolds == SwitchesAssumption /\ WatchersSpec => []WarmupEndsAfterSync
<1> SUFFICES ASSUME SwitchesAssumption PROVE WatchersSpec => []WarmupEndsAfterSync
  BY DEF SwitchesAssumption
<1>1. WatchersInv => WarmupEndsAfterSync
  <2> SUFFICES ASSUME WatchersInv, prompt
               PROVE  /\ cluster = "idle" /\ connected /\ WarmupDone(warmup) => cache \in deferredDone
                      /\ \A c \in Pairs : warmCloses[c] <= 1
    BY DEF WarmupEndsAfterSync
  <2>1. \A c \in Pairs : WarmupInv(c)
    BY DEF WatchersInv
  <2>2. warmup \in Pairs /\ (connected => cache # NoCache)
    <3>1. ClusterTypes /\ Turns
      BY TypeOKParts DEF WatchersInv
    <3> QED BY <3>1, Numbers DEF Turns
  <2> QED BY <2>1, <2>2 DEF WarmupInv
<1> QED BY <1>1, WatchersInvHolds, PTL
=============================================================================

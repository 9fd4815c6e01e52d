------------------------------- MODULE SSEHub -------------------------------
(***************************************************************************)
(* The client registry of the SSE broadcaster (internal/server/sse.go).    *)
(* One goroutine (run) owns the client table and is talked to over two     *)
(* unbuffered channels; HTTP handlers subscribe, stream and unsubscribe;   *)
(* broadcasts send without blocking to every client's buffered channel,    *)
(* either under the read lock (Broadcast) or from a copy of the table      *)
(* taken earlier (broadcastTopologyUpdate).                                *)
(*                                                                         *)
(* An event is a number: the version of the connection status it carries,  *)
(* or 0 for any other event.                                               *)
(***************************************************************************)
EXTENDS Naturals, Sequences, FiniteSets

CONSTANTS
    Handlers,    \* HandleSSE calls, each serving one request
    Senders,     \* goroutines that broadcast
    MaxClients,  \* MaxSSEClients
    QueueSize,   \* the buffer of a client's channel
    MaxVersion,  \* bound: connection status changes explored
    NoHandler

ASSUME HubAssumption ==
    /\ MaxClients \in Nat \ {0} /\ QueueSize \in Nat \ {0} /\ MaxVersion \in Nat
    /\ NoHandler \notin Handlers

VARIABLES
    clients,  \* the handlers whose channel is in b.clients
    run,      \* the place of run, the handler it serves, waiting for the lock
    stopCh,   \* stopCh is closed
    hpc,      \* the place of each handler in HandleSSE
    closes,   \* how often each handler's channel was closed
    queue,    \* the events buffered in it
    known,    \* the status version each client was last shown
    version,  \* the version of the connection status
    spc,      \* the place of each sender
    sending,  \* the event each sender carries
    left      \* the clients it has still to send to

hubVars  == <<clients, run, stopCh>>
chanVars == <<closes, queue>>
sendVars == <<version, spc, sending, left>>
vars == <<hubVars, hpc, chanVars, known, sendVars>>

Versions == 0 .. MaxVersion

TypeOK ==
    /\ clients \subseteq Handlers
    /\ run \in [place : {"select", "adding", "removing", "stopping", "stopped"},
                handler : Handlers \cup {NoHandler}, waiting : BOOLEAN]
    /\ stopCh \in BOOLEAN
    /\ hpc \in [Handlers -> {"idle", "counted", "subscribed", "streaming",
                             "leaving", "done"}]
    /\ closes \in [Handlers -> Nat]
    /\ queue \in [Handlers -> Seq(Versions)]
    /\ \A h \in Handlers : Len(queue[h]) <= QueueSize
    /\ known \in [Handlers -> Versions]
    /\ version \in Versions
    /\ spc \in [Senders -> {"idle", "locking", "events", "topology"}]
    /\ sending \in [Senders -> Versions]
    /\ left \in [Senders -> SUBSET Handlers]

Serving(place, h) == [place |-> place, handler |-> h, waiting |-> FALSE]
Selecting == Serving("select", NoHandler)

Init ==
    /\ clients = {}
    /\ run = Selecting
    /\ stopCh = FALSE
    /\ hpc = [h \in Handlers |-> "idle"]
    /\ closes = [h \in Handlers |-> 0]
    /\ queue = [h \in Handlers |-> <<>>]
    /\ known = [h \in Handlers |-> 0]
    /\ version = 0
    /\ spc = [s \in Senders |-> "idle"]
    /\ sending = [s \in Senders |-> 0]
    /\ left = [s \in Senders |-> {}]

\* b.mu, a sync.RWMutex: Broadcast holds it for reading over its loop, run
\* writes the table under it, and a waiting writer keeps new readers out.
Locked(place) == run.place = place /\ run.waiting /\ \A s \in Senders : spc[s] # "events"
IsOpen(h) == closes[h] = 0
Close(hs) == closes' = [h \in Handlers |-> closes[h] + IF h \in hs THEN 1 ELSE 0]

-----------------------------------------------------------------------------
(* HandleSSE. *)

\* Subscribe: the early check of the client limit, under the read lock.
CountClients(h) ==
    /\ hpc[h] = "idle" /\ ~run.waiting
    /\ hpc' = [hpc EXCEPT ![h] = IF Cardinality(clients) >= MaxClients
                                 THEN "done" ELSE "counted"]
    /\ UNCHANGED <<hubVars, chanVars, known, sendVars>>

\* The rendezvous on b.register: Subscribe returns as soon as run has the
\* registration in hand, before run has entered it into the table.
Subscribe(h) ==
    /\ hpc[h] = "counted"
    /\ run = Selecting
    /\ run' = Serving("adding", h)
    /\ hpc' = [hpc EXCEPT ![h] = "subscribed"]
    /\ UNCHANGED <<clients, stopCh, chanVars, known, sendVars>>

\* The current status is written first, so that the client knows it.
SendCurrentStatus(h) ==
    /\ hpc[h] = "subscribed"
    /\ known' = [known EXCEPT ![h] = version]
    /\ hpc' = [hpc EXCEPT ![h] = "streaming"]
    /\ UNCHANGED <<hubVars, chanVars, sendVars>>

StreamEvent(h) ==
    /\ hpc[h] = "streaming"
    /\ queue[h] # <<>>
    /\ queue' = [queue EXCEPT ![h] = Tail(@)]
    /\ known' = IF Head(queue[h]) = 0 THEN known
                ELSE [known EXCEPT ![h] = Head(queue[h])]
    /\ UNCHANGED <<hubVars, hpc, closes, sendVars>>

\* The client hangs up, or the channel is closed and drained.
StopStreaming(h) ==
    /\ hpc[h] = "streaming"
    /\ hpc' = [hpc EXCEPT ![h] = "leaving"]
    /\ UNCHANGED <<hubVars, chanVars, known, sendVars>>

Drained(h) == queue[h] = <<>> /\ ~IsOpen(h)

\* The rendezvous on b.unregister.
Unsubscribe(h) ==
    /\ hpc[h] = "leaving"
    /\ run = Selecting
    /\ run' = Serving("removing", h)
    /\ hpc' = [hpc EXCEPT ![h] = "done"]
    /\ UNCHANGED <<clients, stopCh, chanVars, known, sendVars>>

-----------------------------------------------------------------------------
(* run. *)

\* The limit is checked again; a refused client finds its channel closed.
AddClient ==
    /\ Locked("adding")
    /\ IF Cardinality(clients) >= MaxClients
       THEN Close({run.handler}) /\ clients' = clients
       ELSE clients' = clients \cup {run.handler} /\ closes' = closes
    /\ run' = Selecting
    /\ UNCHANGED <<stopCh, hpc, queue, known, sendVars>>

\* Mutants: the channel is closed even when the client is not in the table;
\* the client is left in it.
RemoveClientAlways ==
    /\ Locked("removing")
    /\ clients' = clients \ {run.handler}
    /\ Close({run.handler})
    /\ run' = Selecting
    /\ UNCHANGED <<stopCh, hpc, queue, known, sendVars>>

RemoveOnlyCloses ==
    /\ Locked("removing")
    /\ Close(clients \cap {run.handler})
    /\ run' = Selecting
    /\ UNCHANGED <<clients, stopCh, hpc, queue, known, sendVars>>

RemoveClient ==
    /\ Locked("removing")
    /\ clients' = clients \ {run.handler}
    /\ Close(clients \cap {run.handler})
    /\ run' = Selecting
    /\ UNCHANGED <<stopCh, hpc, queue, known, sendVars>>

RunWantsLock ==
    /\ run.place \in {"adding", "removing", "stopping"} /\ ~run.waiting
    /\ run' = [run EXCEPT !.waiting = TRUE]
    /\ UNCHANGED <<clients, stopCh, hpc, chanVars, known, sendVars>>

\* Stop closes stopCh; run sees it in its select, closes every client and
\* returns.  While it is selecting, any ready case may be taken first.
Stop ==
    /\ ~stopCh
    /\ stopCh' = TRUE
    /\ UNCHANGED <<clients, run, hpc, chanVars, known, sendVars>>

RunSeesStop ==
    /\ run = Selecting /\ stopCh
    /\ run' = Serving("stopping", NoHandler)
    /\ UNCHANGED <<clients, stopCh, hpc, chanVars, known, sendVars>>

RunStops ==
    /\ Locked("stopping")
    /\ Close(clients)
    /\ clients' = {}
    /\ run' = Serving("stopped", NoHandler)
    /\ UNCHANGED <<stopCh, hpc, queue, known, sendVars>>

-----------------------------------------------------------------------------
(* Broadcasts. *)

\* SetConnectionStatus stores the status, then calls the broadcaster back.
StatusChanges(s) ==
    /\ spc[s] = "idle"
    /\ version < MaxVersion
    /\ version' = version + 1
    /\ sending' = [sending EXCEPT ![s] = version']
    /\ spc' = [spc EXCEPT ![s] = "locking"]
    /\ UNCHANGED <<hubVars, hpc, chanVars, known, left>>

\* A heartbeat, a k8s_event, a context_changed event ...
EventHappens(s) ==
    /\ spc[s] = "idle"
    /\ spc' = [spc EXCEPT ![s] = "locking"]
    /\ UNCHANGED <<hubVars, hpc, chanVars, known, version, sending, left>>

\* Broadcast under the read lock; broadcastTopologyUpdate copies the table
\* under it, then builds and sends without it.
StartSending(s) ==
    /\ spc[s] = "locking" /\ ~run.waiting
    /\ left' = [left EXCEPT ![s] = clients]
    /\ \/ spc' = [spc EXCEPT ![s] = "events"]
       \/ sending[s] = 0 /\ spc' = [spc EXCEPT ![s] = "topology"]
    /\ UNCHANGED <<hubVars, hpc, chanVars, known, version, sending>>

\* Mutant: the send waits for room.
BlockingSend(s, h) ==
    /\ spc[s] \in {"events", "topology"}
    /\ h \in left[s]
    /\ IsOpen(h) => Len(queue[h]) < QueueSize
    /\ queue' = IF IsOpen(h)
                THEN [queue EXCEPT ![h] = Append(@, sending[s])] ELSE queue
    /\ left' = [left EXCEPT ![s] = @ \ {h}]
    /\ UNCHANGED <<hubVars, hpc, closes, known, version, spc, sending>>

\* safeSend: an event for a full channel is dropped, and so is one for a
\* channel closed since the table was copied (the panic is recovered).
SafeSend(s, h) ==
    /\ spc[s] \in {"events", "topology"}
    /\ h \in left[s]
    /\ queue' = IF IsOpen(h) /\ Len(queue[h]) < QueueSize
                THEN [queue EXCEPT ![h] = Append(@, sending[s])] ELSE queue
    /\ left' = [left EXCEPT ![s] = @ \ {h}]
    /\ UNCHANGED <<hubVars, hpc, closes, known, version, spc, sending>>

FinishSending(s) ==
    /\ spc[s] \in {"events", "topology"}
    /\ left[s] = {}
    /\ spc' = [spc EXCEPT ![s] = "idle"]
    /\ sending' = [sending EXCEPT ![s] = 0]
    /\ UNCHANGED <<hubVars, hpc, chanVars, known, version, left>>

-----------------------------------------------------------------------------
HandlerStep(h) ==
    \/ CountClients(h) \/ Subscribe(h) \/ SendCurrentStatus(h)
    \/ StreamEvent(h) \/ StopStreaming(h) \/ Unsubscribe(h)

SenderStep(s) ==
    \/ StatusChanges(s) \/ EventHappens(s) \/ StartSending(s)
    \/ \E h \in Handlers : SafeSend(s, h)
    \/ FinishSending(s)

RunStep == RunWantsLock \/ AddClient \/ RemoveClient \/ RunSeesStop \/ RunStops

Next ==
    \/ \E h \in Handlers : HandlerStep(h)
    \/ \E s \in Senders : SenderStep(s)
    \/ RunStep
    \/ Stop

Spec == Init /\ [][Next]_vars

\* run, the senders and the handlers keep going.  A handler leaves by itself
\* only when its channel is closed: clients need not hang up, events need not
\* happen, and Stop need not be called.
Fairness ==
    /\ WF_vars(RunStep)
    /\ \A h \in Handlers :
           /\ WF_vars(Subscribe(h)) /\ WF_vars(SendCurrentStatus(h))
           /\ WF_vars(StreamEvent(h)) /\ WF_vars(Unsubscribe(h))
           /\ WF_vars(Drained(h) /\ StopStreaming(h))
    /\ \A s \in Senders :
           /\ WF_vars(StartSending(s)) /\ WF_vars(FinishSending(s))
           /\ WF_vars(\E h \in Handlers : SafeSend(s, h))

FairSpec == Spec /\ Fairness

-----------------------------------------------------------------------------
(* Properties. *)

\* However many handlers passed the early count at once, the table never
\* outgrows MaxSSEClients.
ClientLimit == Cardinality(clients) <= MaxClients

\* A client's channel is closed at most once, whichever of rejection,
\* unregistration and Stop gets to it (a second close would panic run and with
\* it the process); and while it is in the table it is open.
ClosedOnce ==
    \A h \in Handlers :
        /\ closes[h] <= 1
        /\ h \in clients => closes[h] = 0

\* A handler that is gone leaves nothing in the table: once run has dealt with
\* its departure no broadcast is sent to it under the lock.
NoGhostClients ==
    \A h \in clients :
        hpc[h] = "done" => run.place = "removing" /\ run.handler = h

\* A slow or departed reader never wedges the hub: a handler that wants in or
\* out is served, whatever the queues look like, unless the hub is stopped.
HandlersAreServed ==
    \A h \in Handlers :
        hpc[h] \in {"counted", "leaving"} ~>
            hpc[h] \in {"subscribed", "streaming", "done"} \/ stopCh

\* "Send current connection state immediately so client knows current status":
\* a streaming client with nothing queued and nothing being sent knows it.
ClientsKnowStatus ==
    \A h \in clients :
        (hpc[h] = "streaming" /\ queue[h] = <<>> /\ \A s \in Senders : sending[s] = 0)
            => known[h] = version
=============================================================================

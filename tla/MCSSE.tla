-------------------------------- MODULE MCSSE --------------------------------
(***************************************************************************)
(* The broadcaster of internal/server/sse.go, one half at a time: its      *)
(* clients (SSEHub), or its watcher of the resource cache and its waiter   *)
(* for the deferred sync, across switches (SSEWatchers).                   *)
(***************************************************************************)
EXTENDS SSEHub, SSEWatchers

VARIABLE half

ASSUME SwitchesAssumption

sseVars == <<half, vars, watchersVars>>

SSEInit ==
    /\ half \in {"clients", "watchers"}
    /\ Init /\ WatchersInit
    /\ half = "clients" => prompt

Clients(step) == half = "clients" /\ step /\ UNCHANGED <<half, watchersVars>>
Watching(step) == half = "watchers" /\ step /\ UNCHANGED <<half, vars>>

\* With the switches used up every goroutine of the watchers waits for good.
WatchersWait ==
    /\ half = "watchers" /\ switches = IF prompt THEN MaxSwitches ELSE MaxLate
    /\ UNCHANGED sseVars

SSENext == Clients(Next) \/ Watching(WatchersNext) \/ WatchersWait

SSESpec == SSEInit /\ [][SSENext]_sseVars

\* The fairness of the two modules.
SSEFairness ==
    /\ WF_sseVars(Clients(RunStep))
    /\ \A h \in Handlers :
           /\ WF_sseVars(Clients(Subscribe(h))) /\ WF_sseVars(Clients(SendCurrentStatus(h)))
           /\ WF_sseVars(Clients(StreamEvent(h))) /\ WF_sseVars(Clients(Unsubscribe(h)))
           /\ WF_sseVars(Clients(Drained(h) /\ StopStreaming(h)))
    /\ \A s \in Senders :
           /\ WF_sseVars(Clients(StartSending(s))) /\ WF_sseVars(Clients(FinishSending(s)))
           /\ WF_sseVars(Clients(\E h \in Handlers : SafeSend(s, h)))
    /\ WF_sseVars(Watching(ClusterStep))
    /\ \A c \in Caches : WF_sseVars(Watching(DeferredDone(c)))
    /\ \A p \in Pairs :
           /\ WF_sseVars(Watching(WatcherStep(p)))
           /\ WF_sseVars(Watching(DeferredStep(p)))

SSEFairSpec == SSESpec /\ SSEFairness
=============================================================================

---------------------------- MODULE LiveQueries ----------------------------
(***************************************************************************)
(* How the lists on the page follow the cluster (web/src/App.tsx): each    *)
(* k8s_event of the stream marks its kind in one of two sets, which a 3 s  *)
(* and a 15 s timer turn into refetches; context_changed starts over, and  *)
(* a new stream's first connection_state refetches everything              *)
(* (updateFromSSE, web/src/context/ConnectionContext.tsx).                 *)
(*                                                                         *)
(* A list is known by the cluster it is of and how many of its kind's      *)
(* changes it shows.  React Query is external: invalidating a mounted list *)
(* cancels the fetch under way and starts another, removing a list forgets *)
(* its data too.                                                           *)
(***************************************************************************)
EXTENDS Naturals, Sequences

CONSTANTS
    Kinds,           \* the kinds whose lists are mounted
    MaxKindChanges,  \* bound: changes of each kind in each cluster
    MaxClusterMoves, \* bound: context switches
    MaxDrops,        \* bound: streams that break, or end with the page's unmount
    WireEvents,      \* bound: events under way; a change waits for room
    NoData

\* Assumed of the constants wherever the module is instantiated.
LiveQueriesAssumption ==
    /\ MaxKindChanges \in Nat /\ MaxClusterMoves \in Nat /\ MaxDrops \in Nat
    /\ WireEvents \in Nat
    /\ {"context_changed", "connected"} \cap Kinds = {}
    /\ NoData \notin [cluster : Nat, changes : Nat]

\* An addition or a deletion changes which rows there are.
Operations == {"add", "update"}
ListData == [cluster : 0 .. MaxClusterMoves, changes : 0 .. MaxKindChanges]
Events == [kind : Kinds \cup {"context_changed", "connected"}, operation : Operations]
Timers == {"null", "armed", "cleared"}

VARIABLES
    clusterMoves, \* context switches so far, which name the cluster in use
    changes,      \* the changes of each kind in this cluster
    streamUp,     \* the stream is open
    drops,        \* streams lost so far
    events,       \* messages under way
    structural,   \* fastInvalidationRef: structuralKinds ...
    fastTimer,    \* ... and timer
    updated,      \* slowInvalidationRef: updatedKinds ...
    slowTimer,    \* ... and timer
    list,         \* what each list shows
    fetching,     \* the lists whose fetch the server has not answered yet
    arriving      \* the answer on its way to each list

worldVars == <<clusterMoves, changes>>
linkVars == <<streamUp, drops, events>>
tierVars == <<structural, fastTimer, updated, slowTimer>>
listVars == <<list, fetching, arriving>>
liveQueriesVars == <<worldVars, linkVars, tierVars, listVars>>

LiveQueriesTypeOK ==
    /\ clusterMoves \in 0 .. MaxClusterMoves /\ changes \in [Kinds -> 0 .. MaxKindChanges]
    /\ streamUp \in BOOLEAN /\ drops \in 0 .. MaxDrops
    /\ events \in Seq(Events) /\ Len(events) <= WireEvents + 1
    /\ structural \subseteq Kinds /\ updated \subseteq Kinds
    /\ fastTimer \in Timers /\ slowTimer \in Timers
    /\ list \in [Kinds -> ListData \cup {NoData}]
    /\ fetching \subseteq Kinds
    /\ arriving \in [Kinds -> ListData \cup {NoData}]
    /\ \A k \in fetching : arriving[k] = NoData

LiveQueriesInit ==
    /\ clusterMoves = 0 /\ changes = [k \in Kinds |-> 0]
    /\ streamUp = TRUE /\ drops = 0 /\ events = <<>>
    /\ structural = {} /\ fastTimer = "null"
    /\ updated = {} /\ slowTimer = "null"
    /\ list = [k \in Kinds |-> NoData]
    /\ fetching = Kinds /\ arriving = [k \in Kinds |-> NoData]

-----------------------------------------------------------------------------
(* The cluster and its API. *)

Current(k) == [cluster |-> clusterMoves, changes |-> changes[k]]

Message(kind, op) == [kind |-> kind, operation |-> op]
Broadcast(m) == events' = IF streamUp THEN Append(events, m) ELSE events

\* A change of which an event is sent, when it is in the cache: a Pod's, a
\* deletion, an update with a diff.  (Nothing is sent of the addition of any
\* other kind, or of an update without a diff: those wait for a list's poll.)
Change(k, op) ==
    /\ changes[k] < MaxKindChanges /\ Len(events) < WireEvents
    /\ changes' = [changes EXCEPT ![k] = @ + 1]
    /\ Broadcast(Message(k, op))
    /\ UNCHANGED <<clusterMoves, streamUp, drops, tierVars, listVars>>

\* A fetch under way may be answered by the cluster that is left or the new one.
SwitchCluster ==
    /\ clusterMoves < MaxClusterMoves /\ Len(events) < WireEvents
    /\ clusterMoves' = clusterMoves + 1
    /\ changes' = [k \in Kinds |-> 0]
    /\ Broadcast(Message("context_changed", "update"))
    /\ UNCHANGED <<streamUp, drops, tierVars, listVars>>

ServerAnswers(k) ==
    /\ k \in fetching
    /\ fetching' = fetching \ {k}
    /\ arriving' = [arriving EXCEPT ![k] = Current(k)]
    /\ UNCHANGED <<worldVars, linkVars, tierVars, list>>

AnswerArrives(k) ==
    /\ arriving[k] # NoData
    /\ list' = [list EXCEPT ![k] = arriving[k]]
    /\ arriving' = [arriving EXCEPT ![k] = NoData]
    /\ UNCHANGED <<worldVars, linkVars, tierVars, fetching>>

Invalidate(ks) ==
    /\ fetching' = fetching \cup ks
    /\ arriving' = [k \in Kinds |-> IF k \in ks THEN NoData ELSE arriving[k]]

-----------------------------------------------------------------------------
(* The stream. *)

StreamLost ==
    /\ streamUp /\ drops < MaxDrops
    /\ streamUp' = FALSE
    /\ drops' = drops + 1
    /\ events' = <<>>
    /\ UNCHANGED <<worldVars, tierVars, listVars>>

\* HandleSSE greets the new stream with the connection state.
StreamReopens ==
    /\ ~streamUp
    /\ streamUp' = TRUE
    /\ events' = <<Message("connected", "update")>>
    /\ UNCHANGED <<worldVars, drops, tierVars, listVars>>

ClearTiers ==
    /\ structural' = {} /\ fastTimer' = "null"
    /\ updated' = {} /\ slowTimer' = "null"

\* The page is unmounted, and mounted again: its cleanup resets both tiers.
UnmountPage ==
    /\ streamUp /\ drops < MaxDrops
    /\ streamUp' = FALSE
    /\ drops' = drops + 1
    /\ events' = <<>>
    /\ ClearTiers
    /\ UNCHANGED <<worldVars, listVars>>

\* Mutant: the stream that came back refetches nothing.
ReceiveConnectedOnly ==
    /\ events # <<>> /\ Head(events).kind = "connected"
    /\ events' = Tail(events)
    /\ UNCHANGED <<worldVars, streamUp, drops, tierVars, listVars>>

\* updateFromSSE.
ReceiveConnected ==
    /\ events # <<>> /\ Head(events).kind = "connected"
    /\ events' = Tail(events)
    /\ Invalidate(Kinds)
    /\ UNCHANGED <<worldVars, streamUp, drops, tierVars, list>>

\* onContextChanged: every query is removed and fetched again.
ReceiveContextChange ==
    /\ events # <<>> /\ Head(events).kind = "context_changed"
    /\ events' = Tail(events)
    /\ list' = [k \in Kinds |-> NoData]
    /\ Invalidate(Kinds)
    /\ ClearTiers
    /\ UNCHANGED <<worldVars, streamUp, drops>>

-----------------------------------------------------------------------------
(* handleK8sEvent and its timers. *)

ArmedBy(tier, wanted) == IF tier = "null" /\ wanted THEN "armed" ELSE tier

\* Every event arms the fast timer, an update the slow one too.
Mark(k, op) ==
    /\ structural' = IF op = "update" THEN structural ELSE structural \cup {k}
    /\ updated' = IF op = "update" THEN updated \cup {k} ELSE updated
    /\ fastTimer' = ArmedBy(fastTimer, TRUE)
    /\ slowTimer' = ArmedBy(slowTimer, op = "update")

ReceiveK8sEvent ==
    /\ events # <<>> /\ Head(events).kind \in Kinds
    /\ events' = Tail(events)
    /\ Mark(Head(events).kind, Head(events).operation)
    /\ UNCHANGED <<worldVars, streamUp, drops, listVars>>

FastTimer ==
    /\ fastTimer = "armed"
    /\ Invalidate(structural)
    /\ structural' = {} /\ fastTimer' = "null"
    /\ UNCHANGED <<worldVars, linkVars, updated, slowTimer, list>>

SlowTimer ==
    /\ slowTimer = "armed"
    /\ Invalidate(updated)
    /\ updated' = {} /\ slowTimer' = "null"
    /\ UNCHANGED <<worldVars, linkVars, structural, fastTimer, list>>

-----------------------------------------------------------------------------
LiveQueriesNext ==
    \/ SwitchCluster \/ StreamLost \/ StreamReopens \/ UnmountPage
    \/ ReceiveConnected \/ ReceiveContextChange \/ ReceiveK8sEvent
    \/ FastTimer \/ SlowTimer
    \/ \E k \in Kinds : \/ ServerAnswers(k) \/ AnswerArrives(k)
                        \/ \E op \in Operations : Change(k, op)

LiveQueriesSpec == LiveQueriesInit /\ [][LiveQueriesNext]_liveQueriesVars

-----------------------------------------------------------------------------
(* Property. *)

\* A list that misses a change of which an event was sent, or is another
\* cluster's, is going to be fetched: its fetch is under way, a message that
\* will cause one is, or an armed timer has its kind marked.
NoListIsForgotten ==
    streamUp => \A k \in Kinds :
        \/ list[k] = Current(k)
        \/ k \in fetching \/ arriving[k] = Current(k)
        \/ \E i \in DOMAIN events : events[i].kind \in {k, "context_changed", "connected"}
        \/ k \in structural /\ fastTimer = "armed"
        \/ k \in updated /\ slowTimer = "armed"
=============================================================================

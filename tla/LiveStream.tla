----------------------------- MODULE LiveStream -----------------------------
(***************************************************************************)
(* The browser's end of the event stream: useEventSource (web/src/hooks),  *)
(* the context switch a user starts in the header (ContextSwitcher,        *)
(* ContextSwitchContext, useSwitchContext) and the overlay that covers the *)
(* page until the new cluster's topology has come.                         *)
(*                                                                         *)
(* A JavaScript task is one step: a message, a timer, a settled promise or *)
(* a click, with the state it sets and the effects that follow.  A         *)
(* topology is known by its cluster and its number among that cluster's.   *)
(* Of the clock two things are kept: whether the last update is recent     *)
(* enough to throttle the next, and that an armed timer fires later.  The  *)
(* server is reduced to the messages it sends and the answers it gives.    *)
(***************************************************************************)
EXTENDS Naturals, Sequences

CONSTANTS
    MaxSelects,    \* bound: clusters the user picks
    MaxTopologies, \* bound: different topologies of each cluster
    MaxBreaks,     \* bound: streams that break, or that the page replaces
    WireSize,      \* messages under way to the page; further ones are dropped
    NoTopology

ASSUME LiveStreamAssumption ==
    /\ MaxSelects \in Nat /\ MaxBreaks \in Nat
    /\ MaxTopologies \in Nat \ {0} /\ WireSize \in Nat \ {0}
    /\ NoTopology \notin [cluster : Nat, number : Nat]

Selects == 1 .. MaxSelects
Clusters == 1 .. MaxSelects + 1
Topologies == [cluster : Clusters, number : 1 .. MaxTopologies]
MaybeTopology == Topologies \cup {NoTopology}
Messages == [kind : {"topology"}, topology : Topologies]
            \cup [kind : {"context_changed"}, cluster : Clusters]

VARIABLES
    cluster,   \* server: the cluster of its current context ...
    up,        \* ... whether its caches serve that cluster ...
    number,    \* ... how many topologies it has had ...
    owes,      \* ... and whether a callback has scheduled a broadcast
    stream,    \* "opening", "open", or "down" until the reconnect timer
    wire,      \* messages under way
    breaks,    \* streams broken or replaced so far
    topology,  \* what useEventSource returns
    waiting,   \* waitingForTopologyAfterSwitch
    recent,    \* the last update is younger than the throttle interval
    pending,   \* pendingTopologyRef
    timer,     \* throttleTimeoutRef: "null", the id of an "armed" timer, or
               \* that of one that was "cleared"
    request,   \* the place of each pick of the user
    asked,     \* picks so far
    latest,    \* the pick whose POST the mutation observes, or 0
    switching, \* isSwitching: the overlay is shown
    newest,    \* history: the last topology received since context_changed
    fresh,     \* history: it came since the topology was last cleared
    announced, \* history: the cluster context_changed last named
    crossed,   \* history: context_changed came, or the stream was replaced,
               \* while a timer was armed
    missed     \* history: a message did not reach the page

serverVars == <<cluster, up, number, owes>>
streamVars == <<stream, wire, breaks>>
hookVars == <<topology, waiting, recent, pending, timer>>
switchVars == <<request, asked, latest, switching>>
historyVars == <<newest, fresh, announced, crossed, missed>>
liveStreamVars == <<serverVars, streamVars, hookVars, switchVars, historyVars>>

LiveStreamTypeOK ==
    /\ cluster \in Clusters /\ up \in BOOLEAN
    /\ number \in 1 .. MaxTopologies /\ owes \in BOOLEAN
    /\ stream \in {"opening", "open", "down"} /\ breaks \in 0 .. MaxBreaks
    /\ wire \in Seq(Messages) /\ Len(wire) <= WireSize
    /\ stream # "open" => wire = <<>>
    /\ topology \in MaybeTopology /\ pending \in MaybeTopology
    /\ waiting \in BOOLEAN /\ recent \in BOOLEAN
    /\ timer \in {"null", "armed", "cleared"}
    /\ request \in [Selects -> {"none", "counting", "confirm", "posted", "given up",
                                "switched", "failed", "done"}]
    /\ asked \in 0 .. MaxSelects /\ latest \in 0 .. asked
    /\ switching \in BOOLEAN
    /\ newest \in MaybeTopology /\ fresh \in BOOLEAN
    /\ announced \in Clusters
    /\ crossed \in BOOLEAN /\ missed \in BOOLEAN

\* The page has mounted and called connect; the server is connected.
LiveStreamInit ==
    /\ cluster = 1 /\ up = TRUE /\ number = 1 /\ owes = FALSE
    /\ stream = "opening" /\ wire = <<>> /\ breaks = 0
    /\ topology = NoTopology /\ waiting = FALSE /\ recent = FALSE
    /\ pending = NoTopology /\ timer = "null"
    /\ request = [s \in Selects |-> "none"] /\ asked = 0 /\ latest = 0
    /\ switching = FALSE
    /\ newest = NoTopology /\ fresh = FALSE /\ announced = 1
    /\ crossed = FALSE /\ missed = FALSE

-----------------------------------------------------------------------------
(* The server. *)

CurrentTopology == [cluster |-> cluster, number |-> number]
TopologyMessage(t) == [kind |-> "topology", topology |-> t]
Changed(c) == [kind |-> "context_changed", cluster |-> c]

\* Broadcast: only clients there are get it, and a full queue drops it.
Send(message) ==
    IF stream = "open" /\ Len(wire) < WireSize
    THEN wire' = Append(wire, message) /\ UNCHANGED missed
    ELSE missed' = TRUE /\ UNCHANGED wire

\* broadcastTopologyUpdate, for a callback that scheduled it or a change.
BroadcastTopology ==
    /\ up
    /\ \/ owes /\ UNCHANGED number
       \/ number < MaxTopologies /\ number' = number + 1
    /\ owes' = FALSE
    /\ Send(TopologyMessage([cluster |-> cluster, number |-> number']))
    /\ UNCHANGED <<cluster, up, stream, breaks, hookVars, switchVars,
                   newest, fresh, announced, crossed>>

Serving(s) == request[s] \in {"posted", "given up"}

\* What the server answers reaches a page that still waits for it.
Answer(s, answer) ==
    request' = [request EXCEPT ![s] = IF @ = "posted" THEN answer ELSE "done"]

\* The callback of a successful switch announces it and schedules a broadcast.
\* A later switch cancels what is left of an earlier one.
SwitchSucceeds(s) ==
    /\ Serving(s) /\ Serving(latest)
    /\ cluster' = cluster + 1
    /\ up' = TRUE
    /\ number' = 1
    /\ owes' = TRUE
    /\ Send(Changed(cluster'))
    /\ Answer(s, "switched")
    /\ UNCHANGED <<stream, breaks, hookVars, asked, latest, switching,
                   newest, fresh, announced, crossed>>

\* A switch that fails leaves the caches torn down; a cancelled one leaves them
\* to the later one.
SwitchFails(s) ==
    /\ Serving(s)
    /\ up' = (up /\ s # latest)
    /\ owes' = (owes /\ s # latest)
    /\ Answer(s, "failed")
    /\ UNCHANGED <<cluster, number, streamVars, hookVars, asked, latest, switching,
                   historyVars>>

-----------------------------------------------------------------------------
(* useEventSource: the stream.  There is one EventSource at a time. *)

\* onopen; HandleSSE greets a client of a connected server with a topology.
StreamOpens ==
    /\ stream = "opening"
    /\ stream' = "open"
    /\ wire' = IF up THEN <<TopologyMessage(CurrentTopology)>> ELSE <<>>
    /\ UNCHANGED <<serverVars, breaks, hookVars, switchVars, historyVars>>

LoseStream(at) ==
    /\ stream' = at
    /\ wire' = <<>>
    /\ missed' = (missed \/ wire # <<>>)

\* onerror closes the source and arms the reconnect timer.
StreamBreaks ==
    /\ stream \in {"opening", "open"} /\ breaks < MaxBreaks
    /\ breaks' = breaks + 1
    /\ LoseStream("down")
    /\ UNCHANGED <<serverVars, hookVars, switchVars, newest, fresh, announced, crossed>>

\* connect: the source there was is closed and its topology cleared.
Connect ==
    /\ LoseStream("opening")
    /\ topology' = NoTopology
    /\ fresh' = FALSE

\* The reconnect delay is never shorter than the throttle interval.
Reconnect ==
    /\ stream = "down" /\ timer # "armed"
    /\ Connect
    /\ UNCHANGED <<serverVars, breaks, waiting, recent, pending, timer, switchVars,
                   newest, announced, crossed>>

\* The refresh button.
Refresh ==
    /\ breaks < MaxBreaks
    /\ breaks' = breaks + 1
    /\ Connect
    /\ UNCHANGED <<serverVars, waiting, recent, pending, timer, switchVars,
                   newest, announced, crossed>>

\* The view, the namespace filter or the policy overlay changes: the effect's
\* cleanup clears both timers, and throttleTimeoutRef keeps its id.
Resubscribe ==
    /\ breaks < MaxBreaks
    /\ breaks' = breaks + 1
    /\ Connect
    /\ timer' = IF timer = "armed" THEN "cleared" ELSE timer
    /\ crossed' = (crossed \/ timer = "armed")
    /\ UNCHANGED <<serverVars, waiting, recent, pending, switchVars, newest, announced>>

-----------------------------------------------------------------------------
(* useEventSource: what the messages do. *)

Receive(kind) ==
    /\ wire # <<>> /\ Head(wire).kind = kind
    /\ wire' = Tail(wire)

Show(t) == topology' = t /\ recent' = TRUE

\* Mutants: a throttled update is kept without a timer; an update shown at
\* once leaves an older one pending.
ShowOrKeepOnly(t) ==
    IF recent
    THEN pending' = t /\ UNCHANGED <<topology, recent, timer>>
    ELSE Show(t) /\ pending' = NoTopology /\ UNCHANGED timer

ShowKeepingPending(t) ==
    IF recent
    THEN /\ pending' = t
         /\ timer' = IF timer = "null" THEN "armed" ELSE timer
         /\ UNCHANGED <<topology, recent>>
    ELSE Show(t) /\ UNCHANGED <<pending, timer>>

ShowOrThrottle(t) ==
    IF recent
    THEN /\ pending' = t
         /\ timer' = IF timer = "null" THEN "armed" ELSE timer
         /\ UNCHANGED <<topology, recent>>
    ELSE Show(t) /\ pending' = NoTopology /\ UNCHANGED timer

\* The first topology after context_changed is shown at once and ends the
\* switch (onContextSwitchComplete is endSwitch).
FinishSwitch(t) ==
    /\ waiting' = FALSE
    /\ switching' = FALSE
    /\ Show(t)
    /\ UNCHANGED <<pending, timer>>

ReceiveTopology ==
    /\ Receive("topology")
    /\ LET t == Head(wire).topology
       IN  /\ IF waiting THEN FinishSwitch(t)
              ELSE ShowOrThrottle(t) /\ UNCHANGED <<waiting, switching>>
           /\ newest' = t
    /\ fresh' = TRUE
    /\ UNCHANGED <<serverVars, stream, breaks, request, asked, latest, announced,
                   crossed, missed>>

\* The throttle interval ends; it may be shorter than the one a timer was
\* armed for, since each message sets it anew.
IntervalEnds ==
    /\ recent
    /\ recent' = FALSE
    /\ UNCHANGED <<serverVars, streamVars, topology, waiting, pending, timer, switchVars,
                   historyVars>>

ThrottleTimer ==
    /\ timer = "armed"
    /\ timer' = "null"
    /\ IF pending = NoTopology THEN UNCHANGED <<topology, recent>> ELSE Show(pending)
    /\ pending' = NoTopology
    /\ UNCHANGED <<serverVars, streamVars, waiting, switchVars, historyVars>>

ReceiveContextChanged ==
    /\ Receive("context_changed")
    /\ topology' = NoTopology
    /\ waiting' = TRUE
    /\ newest' = NoTopology
    /\ fresh' = FALSE
    /\ announced' = Head(wire).cluster
    /\ crossed' = (crossed \/ timer = "armed")
    /\ UNCHANGED <<serverVars, stream, breaks, recent, pending, timer, switchVars, missed>>

-----------------------------------------------------------------------------
(* ContextSwitcher. *)

MoveRequest(s, at) == request' = [request EXCEPT ![s] = at]

\* handleSelect does nothing while the mutation is pending; then it asks for
\* the sessions the switch would end.
Select ==
    /\ asked < MaxSelects
    /\ latest # 0 => request[latest] # "posted"
    /\ asked' = asked + 1
    /\ MoveRequest(asked', "counting")
    /\ UNCHANGED <<serverVars, streamVars, hookVars, latest, switching, historyVars>>

\* performSwitch.
PerformSwitch(s) ==
    /\ MoveRequest(s, "posted")
    /\ latest' = s
    /\ switching' = TRUE

\* No sessions, or the count failed: the switch goes ahead.
CountsLetSwitch(s) ==
    /\ request[s] = "counting"
    /\ PerformSwitch(s)
    /\ UNCHANGED <<serverVars, streamVars, hookVars, asked, historyVars>>

\* There are sessions: the pick is kept for the dialog, in place of another's.
CountsAskUser(s) ==
    /\ request[s] = "counting"
    /\ request' = [r \in Selects |-> IF r = s THEN "confirm"
                                     ELSE IF request[r] = "confirm" THEN "done"
                                     ELSE request[r]]
    /\ UNCHANGED <<serverVars, streamVars, hookVars, asked, latest, switching, historyVars>>

Confirm(s) ==
    /\ request[s] = "confirm"
    /\ PerformSwitch(s)
    /\ UNCHANGED <<serverVars, streamVars, hookVars, asked, historyVars>>

Cancel(s) ==
    /\ request[s] = "confirm"
    /\ MoveRequest(s, "done")
    /\ UNCHANGED <<serverVars, streamVars, hookVars, asked, latest, switching, historyVars>>

AnswerSwitched(s) ==
    /\ request[s] = "switched"
    /\ MoveRequest(s, "done")
    /\ UNCHANGED <<serverVars, streamVars, hookVars, asked, latest, switching, historyVars>>

\* Mutant: the overlay waits for the stream in any case.
EndOnStreamOnly(s, at) == MoveRequest(s, at) /\ UNCHANGED switching

\* performSwitch's catch: the error ends the overlay.
EndSwitch(s, at) == MoveRequest(s, at) /\ switching' = FALSE

AnswerFailed(s) ==
    /\ request[s] = "failed"
    /\ EndSwitch(s, "done")
    /\ UNCHANGED <<serverVars, streamVars, hookVars, asked, latest, historyVars>>

\* After CONTEXT_SWITCH_TIMEOUT the page aborts the request; the server may
\* still complete it.
GiveUp(s) ==
    /\ request[s] = "posted"
    /\ EndSwitch(s, "given up")
    /\ UNCHANGED <<serverVars, streamVars, hookVars, asked, latest, historyVars>>

-----------------------------------------------------------------------------
ServerStep == \E s \in Selects : SwitchSucceeds(s) \/ SwitchFails(s)

ReceiveStep == ReceiveTopology \/ ReceiveContextChanged

AnswerStep(s) ==
    CountsLetSwitch(s) \/ CountsAskUser(s) \/ AnswerSwitched(s) \/ AnswerFailed(s)

LiveStreamNext ==
    \/ BroadcastTopology \/ ServerStep
    \/ StreamOpens \/ StreamBreaks \/ Reconnect \/ Refresh \/ Resubscribe
    \/ ReceiveStep \/ IntervalEnds \/ ThrottleTimer
    \/ Select
    \/ \E s \in Selects : AnswerStep(s) \/ Confirm(s) \/ Cancel(s) \/ GiveUp(s)

LiveStreamSpec == LiveStreamInit /\ [][LiveStreamNext]_liveStreamVars

\* The server answers and broadcasts, messages arrive, timers fire.  Nothing
\* is asked of the user, of further changes or of a stream not to break.
LiveStreamFairness ==
    /\ WF_liveStreamVars(ServerStep)
    /\ WF_liveStreamVars(owes /\ BroadcastTopology)
    /\ WF_liveStreamVars(StreamOpens) /\ WF_liveStreamVars(Reconnect)
    /\ WF_liveStreamVars(ReceiveStep)
    /\ WF_liveStreamVars(ThrottleTimer)
    /\ \A s \in Selects : WF_liveStreamVars(AnswerStep(s))

LiveStreamFair == LiveStreamSpec /\ LiveStreamFairness

-----------------------------------------------------------------------------
(* Properties. *)

\* Throttling drops no news: the newest topology received is shown, or a timer
\* is armed that will show it.  (Unless a switch or a new subscription crossed
\* an armed timer.)
NewestIsShown ==
    fresh /\ ~crossed =>
        topology = newest \/ (timer = "armed" /\ pending = newest)

\* Once the page's stream stays up and loses nothing, what it shows becomes
\* what the server has.
PageCatchesUp ==
    <>[](stream = "open" /\ up /\ ~missed /\ ~crossed => topology = CurrentTopology)

\* The overlay of a switch comes down again, however the switch ends, as long
\* as the stream loses no message.
SwitchOverlayEnds == switching ~> (~switching \/ missed)
=============================================================================

-------------------------- MODULE ConnectionPanel --------------------------
(***************************************************************************)
(* What the page believes of the connection to the cluster                 *)
(* (ConnectionProvider, web/src/context/ConnectionContext.tsx).  It is told *)
(* from three sides: a poll while it believes "connecting", the answer to  *)
(* the user's retry, and the connection_state messages of the event        *)
(* stream, which once they have begun outrank the poll.                    *)
(*                                                                         *)
(* A status is "connecting", "connected" or one of two ways of being       *)
(* disconnected, which differ in their error text.  React Query is         *)
(* external: a poll's answer changes `data` only when it differs, and      *)
(* removing the queries drops the fetch under way with its data.           *)
(***************************************************************************)
EXTENDS Naturals, Sequences

CONSTANTS
    MaxChanges, \* bound: switches that another page makes
    MaxRetries, \* bound: retries of the user
    MaxLosses,  \* bound: streams that break, alone or with the server
    NoConnection

Errors == {"unreachable", "unauthorized"}
Statuses == {"connecting", "connected"} \cup Errors

\* Assumed of the constants wherever the module is instantiated.
ConnectionPanelAssumption ==
    /\ MaxChanges \in Nat /\ MaxRetries \in Nat /\ MaxLosses \in Nat
    /\ NoConnection \notin Statuses

VARIABLES
    serverStatus,  \* server: the status it last set
    others,        \* switches of other pages so far
    link,          \* the event stream: "down" or "open"
    inbox,         \* connection_state messages under way
    losses,        \* streams lost so far
    connection,    \* what the page believes
    sseActive,     \* sseActiveRef
    statusPoll,    \* "idle", "asked", or the answer on its way
    data,          \* the last answer of the poll
    retry,         \* the retry: "idle", "posted", or its answer on the way
    serving,       \* the server is at work on a retry
    presses,       \* retries so far
    retryOvertaken \* history: the answer to a retry came after a later status

panelServerVars == <<serverStatus, others, serving>>
panelLinkVars == <<link, inbox, losses>>
panelPageVars == <<connection, sseActive, statusPoll, data, retry, presses, retryOvertaken>>
connectionPanelVars == <<panelServerVars, panelLinkVars, panelPageVars>>

ConnectionPanelTypeOK ==
    /\ serverStatus \in Statuses /\ others \in 0 .. MaxChanges
    /\ link \in {"down", "open"} /\ inbox \in Seq(Statuses)
    /\ losses \in 0 .. MaxLosses
    /\ connection \in Statuses /\ sseActive \in BOOLEAN
    /\ statusPoll \in Statuses \cup {"idle", "asked"}
    /\ data \in Statuses \cup {NoConnection}
    /\ retry \in {"idle", "posted", "connected"} \cup Errors
    /\ serving \in BOOLEAN /\ presses \in 0 .. MaxRetries
    /\ retryOvertaken \in BOOLEAN

\* The page has mounted while the server boots.
ConnectionPanelInit ==
    /\ serverStatus = "connecting" /\ others = 0 /\ serving = FALSE
    /\ link = "down" /\ inbox = <<>> /\ losses = 0
    /\ connection = "connecting" /\ sseActive = FALSE
    /\ statusPoll = "asked" /\ data = NoConnection
    /\ retry = "idle" /\ presses = 0 /\ retryOvertaken = FALSE

-----------------------------------------------------------------------------
(* The server: SetConnectionStatus, and the stream it feeds. *)

SetStatus(s) ==
    /\ serverStatus' = s
    /\ inbox' = IF link = "open" THEN Append(inbox, s) ELSE inbox

\* The boot connection ends.
BootSettles ==
    /\ serverStatus = "connecting" /\ ~serving
    /\ \E s \in {"connected"} \cup Errors : SetStatus(s)
    /\ UNCHANGED <<others, serving, link, losses, panelPageVars>>

\* Another page switches the context; it does not announce "connecting".
SwitchElsewhere ==
    /\ serverStatus # "connecting" /\ ~serving /\ others < MaxChanges
    /\ others' = others + 1
    /\ \E s \in {"connected"} \cup Errors : SetStatus(s)
    /\ UNCHANGED <<serving, link, losses, panelPageVars>>

\* handleConnectionRetry: the same status is set and answered.
RetryIsServed ==
    /\ serving
    /\ serving' = FALSE
    /\ \E s \in {"connected"} \cup Errors :
        /\ SetStatus(s)
        /\ retry' = IF retry = "posted" THEN s ELSE retry
    /\ UNCHANGED <<others, link, losses, connection, sseActive, statusPoll, data, presses,
                   retryOvertaken>>

\* HandleSSE greets a new client with the status.
LinkOpens ==
    /\ link = "down"
    /\ link' = "open"
    /\ inbox' = <<serverStatus>>
    /\ UNCHANGED <<panelServerVars, losses, panelPageVars>>

LoseLink ==
    /\ losses < MaxLosses
    /\ losses' = losses + 1
    /\ link' = "down"
    /\ inbox' = <<>>

LinkBreaks ==
    /\ link = "open"
    /\ LoseLink
    /\ UNCHANGED <<panelServerVars, panelPageVars>>

\* The pod restarts: requests under way fail, and the new one boots.
ServerRestarts ==
    /\ LoseLink
    /\ serverStatus' = "connecting"
    /\ serving' = FALSE
    /\ statusPoll' = "idle"
    /\ retry' = IF retry = "posted" THEN "unreachable" ELSE retry
    /\ UNCHANGED <<others, connection, sseActive, data, presses, retryOvertaken>>

-----------------------------------------------------------------------------
(* The page: the poll. *)

\* refetchInterval: every 500 ms while the page believes "connecting".
StatusPollAsks ==
    /\ connection = "connecting" /\ statusPoll = "idle"
    /\ statusPoll' = "asked"
    /\ UNCHANGED <<panelServerVars, panelLinkVars, connection, sseActive, data, retry,
                   presses, retryOvertaken>>

PollIsAnswered ==
    /\ statusPoll = "asked"
    /\ statusPoll' = serverStatus
    /\ UNCHANGED <<panelServerVars, panelLinkVars, connection, sseActive, data, retry,
                   presses, retryOvertaken>>

\* Mutant: the poll is believed although the stream has begun.
BelieveThePoll(s) == connection' = IF s # data THEN s ELSE connection

\* The effect on `data`.
BelievePoll(s) ==
    connection' = IF s # data /\ ~sseActive THEN s ELSE connection

StatusPollArrives ==
    /\ statusPoll \in Statuses
    /\ BelievePoll(statusPoll)
    /\ data' = statusPoll
    /\ statusPoll' = "idle"
    /\ UNCHANGED <<panelServerVars, panelLinkVars, sseActive, retry, presses, retryOvertaken>>

-----------------------------------------------------------------------------
(* The page: the stream. *)

\* updateFromSSE: a restarted pod does not take the page back to "connecting".
BelieveStream(s) ==
    IF connection = "connected" /\ s = "connecting" THEN "connected" ELSE s

ReceiveStatus ==
    /\ inbox # <<>>
    /\ inbox' = Tail(inbox)
    /\ sseActive' = TRUE
    /\ connection' = BelieveStream(Head(inbox))
    \* invalidateQueries asks again.
    /\ statusPoll' = IF Head(inbox) = "connected" THEN "asked" ELSE statusPoll
    /\ UNCHANGED <<panelServerVars, link, losses, data, retry, presses, retryOvertaken>>

-----------------------------------------------------------------------------
(* The page: the retry, offered on the error screen. *)

Retry ==
    /\ connection \in Errors /\ retry = "idle" /\ ~serving
    /\ presses < MaxRetries
    /\ presses' = presses + 1
    /\ retry' = "posted"
    /\ serving' = TRUE
    /\ sseActive' = FALSE
    /\ connection' = "connecting"
    /\ UNCHANGED <<serverStatus, others, panelLinkVars, statusPoll, data, retryOvertaken>>

\* The answer is lost although the server goes on.
RetryIsLost ==
    /\ retry = "posted"
    /\ retry' = "unreachable"
    /\ UNCHANGED <<panelServerVars, panelLinkVars, connection, sseActive, statusPoll, data,
                   presses, retryOvertaken>>

\* An answer is overtaken when it is not what the server says last and no
\* message under way will say so.
Overtakes(s) ==
    retryOvertaken' = (retryOvertaken \/ (s # serverStatus /\ link = "open" /\ inbox = <<>>))

RetrySucceeds ==
    /\ retry = "connected"
    /\ retry' = "idle"
    /\ connection' = "connected"
    \* removeQueries, invalidateQueries
    /\ statusPoll' = "asked" /\ data' = NoConnection
    /\ Overtakes("connected")
    /\ UNCHANGED <<panelServerVars, panelLinkVars, sseActive, presses>>

RetryFails ==
    /\ retry \in Errors
    /\ retry' = "idle"
    /\ connection' = retry
    /\ Overtakes(retry)
    /\ UNCHANGED <<panelServerVars, panelLinkVars, sseActive, statusPoll, data, presses>>

-----------------------------------------------------------------------------
ConnectionPanelNext ==
    \/ BootSettles \/ SwitchElsewhere \/ RetryIsServed
    \/ LinkOpens \/ LinkBreaks \/ ServerRestarts
    \/ StatusPollAsks \/ PollIsAnswered \/ StatusPollArrives
    \/ ReceiveStatus
    \/ Retry \/ RetryIsLost \/ RetrySucceeds \/ RetryFails

ConnectionPanelSpec ==
    ConnectionPanelInit /\ [][ConnectionPanelNext]_connectionPanelVars

\* The server settles and answers, the stream reconnects, messages and answers
\* arrive, the poll's interval passes.
ConnectionPanelFairness ==
    /\ WF_connectionPanelVars(BootSettles) /\ WF_connectionPanelVars(RetryIsServed)
    /\ WF_connectionPanelVars(LinkOpens) /\ WF_connectionPanelVars(ReceiveStatus)
    /\ WF_connectionPanelVars(StatusPollAsks) /\ WF_connectionPanelVars(PollIsAnswered)
    /\ WF_connectionPanelVars(StatusPollArrives)
    /\ WF_connectionPanelVars(RetrySucceeds) /\ WF_connectionPanelVars(RetryFails)

ConnectionPanelFair == ConnectionPanelSpec /\ ConnectionPanelFairness

-----------------------------------------------------------------------------
(* Property. *)

\* The page comes to believe what the server says, whatever the order in which
\* poll, retry and stream tell it -- unless the answer to a retry came after
\* everything the stream had to say of a later status.
PageAgreesWithServer ==
    <>[](link = "open" /\ ~retryOvertaken => connection = serverStatus)
=============================================================================

---------------------------- MODULE TerminalTab ----------------------------
(***************************************************************************)
(* A terminal in the dock (packages/k8s-ui/src/components/dock/            *)
(* TerminalTab.tsx; LocalTerminalTab.tsx is the same without containers):  *)
(* connect asks the app for a session, opens its WebSocket, and is run     *)
(* again by the Reconnect and Retry buttons and by every change of the     *)
(* container.                                                              *)
(*                                                                         *)
(* Each run of connect that starts something is an attempt.  The browser   *)
(* is external: close() on a socket that is still opening makes it fail    *)
(* (an error event, then a close event), on an open one it only ends in a  *)
(* close event.  The terminal's element is there unless an error is shown. *)
(***************************************************************************)
EXTENDS Naturals

CONSTANTS
    MaxAttempts, \* bound: runs of connect that start something
    MaxPicks     \* bound: changes of the container

ASSUME TerminalTabAssumption == MaxAttempts \in Nat \ {0} /\ MaxPicks \in Nat

Attempts == 1 .. MaxAttempts

VARIABLES
    attempt,      \* the place of each attempt: "none", "asking" for a session,
                  \* "opening", "open", "failing" and "closing" (close() was
                  \* called), "over"
    tried,        \* attempts so far
    picks,        \* containers picked so far
    presses,      \* Reconnect or Retry was pressed (counted to 1)
    mounted,      \* the tab is there
    cancelled,    \* cancelledRef
    wsRef,        \* the attempt whose socket it holds, or 0
    isConnected, isConnecting,
    shownError,   \* error with errorType: "none", "shell_not_found", "other"
    debugging,    \* isCreatingDebug
    raced         \* history: connect ran while a session was being asked for

terminalTabVars == <<attempt, tried, picks, presses, mounted, cancelled, wsRef,
                     isConnected, isConnecting, shownError, debugging, raced>>

TerminalTabTypeOK ==
    /\ attempt \in [Attempts -> {"none", "asking", "opening", "open", "failing",
                                 "closing", "over"}]
    /\ tried \in 0 .. MaxAttempts /\ picks \in 0 .. MaxPicks /\ presses \in 0 .. 1
    /\ mounted \in BOOLEAN /\ cancelled \in BOOLEAN
    /\ wsRef \in 0 .. tried
    /\ isConnected \in BOOLEAN /\ isConnecting \in BOOLEAN
    /\ shownError \in {"none", "shell_not_found", "other"}
    /\ debugging \in BOOLEAN /\ raced \in BOOLEAN

\* The tab has mounted and its effect has run connect.
TerminalTabInit ==
    /\ attempt = [a \in Attempts |-> IF a = 1 THEN "asking" ELSE "none"]
    /\ tried = 1 /\ picks = 0 /\ presses = 0
    /\ mounted = TRUE /\ cancelled = FALSE /\ wsRef = 0
    /\ isConnected = FALSE /\ isConnecting = TRUE /\ shownError = "none"
    /\ debugging = FALSE /\ raced = FALSE

Live(a) == attempt[a] \in {"opening", "open"}

-----------------------------------------------------------------------------
(* connect and the effect's cleanup. *)

Closing(place) ==
    CASE place = "opening" -> "failing" [] place = "open" -> "closing" [] OTHER -> place

\* wsRef.current?.close()
Closed == [a \in Attempts |-> IF a = wsRef THEN Closing(attempt[a]) ELSE attempt[a]]

\* connect does nothing when the terminal's element is not there.
Connect(isShown) ==
    IF isShown
    THEN /\ tried < MaxAttempts
         /\ tried' = tried + 1
         /\ attempt' = [Closed EXCEPT ![tried + 1] = "asking"]
         /\ cancelled' = FALSE
         /\ isConnecting' = TRUE
         /\ raced' = (raced \/ \E a \in Attempts : attempt[a] = "asking")
    ELSE UNCHANGED <<tried, attempt, cancelled, isConnecting, raced>>

\* The buttons of the toolbar and of the error screen.
Press ==
    /\ mounted
    /\ (~isConnected /\ ~isConnecting) \/ shownError # "none"
    /\ presses' = 1
    /\ Connect(shownError = "none")
    /\ UNCHANGED <<picks, mounted, wsRef, isConnected, shownError, debugging>>

\* handleContainerChange: the effect's cleanup, then connect.
PickContainer ==
    /\ mounted /\ picks < MaxPicks
    /\ picks' = picks + 1
    /\ IF shownError = "none" THEN Connect(TRUE)
       ELSE /\ attempt' = Closed
            /\ cancelled' = TRUE
            /\ UNCHANGED <<tried, isConnecting, raced>>
    /\ UNCHANGED <<presses, mounted, wsRef, isConnected, shownError, debugging>>

\* The tab is closed.
CloseTab ==
    /\ mounted
    /\ mounted' = FALSE
    /\ cancelled' = TRUE
    /\ attempt' = Closed
    /\ UNCHANGED <<tried, picks, presses, wsRef, isConnected, isConnecting, shownError,
                   debugging, raced>>

-----------------------------------------------------------------------------
(* handleCreateDebugContainer, offered when the container has no shell. *)

CreateDebug ==
    /\ mounted /\ shownError = "shell_not_found" /\ ~debugging
    /\ debugging' = TRUE
    /\ UNCHANGED <<attempt, tried, picks, presses, mounted, cancelled, wsRef,
                   isConnected, isConnecting, shownError, raced>>

\* The error goes and the container changes in one render, so that connect
\* finds the terminal.
DebugCreated ==
    /\ debugging /\ mounted
    /\ debugging' = FALSE
    /\ shownError' = "none"
    /\ Connect(TRUE)
    /\ UNCHANGED <<picks, presses, mounted, wsRef, isConnected>>

DebugFails ==
    /\ debugging /\ mounted
    /\ debugging' = FALSE
    /\ shownError' = "other"
    /\ UNCHANGED <<attempt, tried, picks, presses, mounted, cancelled, wsRef,
                   isConnected, isConnecting, raced>>

-----------------------------------------------------------------------------
(* What becomes of an attempt.  Setting state of an unmounted tab does      *)
(* nothing that shows.                                                      *)

Move(a, place) == attempt' = [attempt EXCEPT ![a] = place]

\* Mutant: a session that comes late is used.
UseSessionAnyway(a) == Move(a, "opening") /\ wsRef' = a

UseSession(a) ==
    IF cancelled THEN Move(a, "over") /\ UNCHANGED wsRef
    ELSE Move(a, "opening") /\ wsRef' = a

SessionComes(a) ==
    /\ attempt[a] = "asking"
    /\ UseSession(a)
    /\ UNCHANGED <<tried, picks, presses, mounted, cancelled, isConnected, isConnecting,
                   shownError, debugging, raced>>

SessionFails(a) ==
    /\ attempt[a] = "asking"
    /\ Move(a, "over")
    /\ shownError' = "other"
    /\ isConnecting' = FALSE
    /\ UNCHANGED <<tried, picks, presses, mounted, cancelled, wsRef, isConnected,
                   debugging, raced>>

OnOpen(a) ==
    /\ attempt[a] = "opening"
    /\ Move(a, "open")
    /\ isConnected' = TRUE
    /\ isConnecting' = FALSE
    /\ UNCHANGED <<tried, picks, presses, mounted, cancelled, wsRef, shownError,
                   debugging, raced>>

\* A message of type "error".
OnErrorMessage(a, error) ==
    /\ attempt[a] = "open"
    /\ shownError' = error
    /\ isConnected' = FALSE
    /\ UNCHANGED <<attempt, tried, picks, presses, mounted, cancelled, wsRef,
                   isConnecting, debugging, raced>>

OnError(a) ==
    /\ attempt[a] \in {"opening", "open", "failing"}
    /\ Move(a, "closing")
    /\ shownError' = IF shownError = "none" THEN "other" ELSE shownError
    /\ isConnected' = FALSE
    /\ isConnecting' = FALSE
    /\ UNCHANGED <<tried, picks, presses, mounted, cancelled, wsRef, debugging, raced>>

NotConnected == isConnecting' = FALSE /\ isConnected' = FALSE

OnClose(a) ==
    /\ attempt[a] \in {"open", "closing"}
    /\ Move(a, "over")
    /\ NotConnected
    /\ UNCHANGED <<tried, picks, presses, mounted, cancelled, wsRef, shownError,
                   debugging, raced>>

-----------------------------------------------------------------------------
SocketStep(a) ==
    \/ SessionComes(a) \/ SessionFails(a)
    \/ OnOpen(a) \/ OnError(a) \/ OnClose(a)
    \/ \E error \in {"shell_not_found", "other"} : OnErrorMessage(a, error)

TerminalTabNext ==
    \/ Press \/ PickContainer \/ CloseTab
    \/ CreateDebug \/ DebugCreated \/ DebugFails
    \/ \E a \in Attempts : SocketStep(a)

TerminalTabSpec == TerminalTabInit /\ [][TerminalTabNext]_terminalTabVars

-----------------------------------------------------------------------------
(* Properties. *)

\* A tab has one live session, its newest, and none once it is closed: each
\* further exec would run on in its container unseen.  (Unless connect ran
\* while an earlier session was still being asked for.)
OneLiveSession ==
    ~raced => \A a \in Attempts : Live(a) => mounted /\ a = tried
=============================================================================

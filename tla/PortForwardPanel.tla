-------------------------- MODULE PortForwardPanel --------------------------
(***************************************************************************)
(* The panel of the port forwards: PortForwardProvider and PortForwardPanel*)
(* of web/src/components/portforward/PortForwardManager.tsx.  It opens by  *)
(* itself when the number of sessions grows and closes by itself after a   *)
(* while, unless the user has shown that it is to stay.                    *)
(***************************************************************************)
EXTENDS Naturals

CONSTANT MaxForwards \* bound: sessions at once

\* Assumed of the constant wherever the module is instantiated.
PortForwardPanelAssumption == MaxForwards \in Nat

VARIABLES
    count,     \* the sessions listed
    isOpen,    \* isPanelOpen
    armed,     \* autoMinimizeArmedRef
    timer,     \* autoMinimizeTimerRef is set
    hovering,  \* isHoveringRef
    over,      \* the mouse is over the panel
    kept       \* history: the user opened the panel, or used it since it opened

portForwardPanelVars == <<count, isOpen, armed, timer, hovering, over, kept>>

PortForwardPanelTypeOK ==
    /\ count \in 0 .. MaxForwards
    /\ {isOpen, armed, timer, hovering, over, kept} \subseteq BOOLEAN

PortForwardPanelInit ==
    /\ count = 0 /\ isOpen = FALSE /\ armed = FALSE /\ timer = FALSE
    /\ hovering = FALSE /\ over = FALSE /\ kept = FALSE

\* The state after setIsPanelOpen, with the timer cleared.
Put(open) == isOpen' = open /\ armed' = FALSE /\ timer' = FALSE

-----------------------------------------------------------------------------
\* Mutant: a panel that is open is given its while again.
OpensAnew(n) == n > count

\* The effect tells a new session by the number.
Opens(n) == n > count /\ ~isOpen

\* Other sessions are listed.  Without any the panel is unmounted, from under
\* the mouse, which then leaves without an event.
CountChanges(n) ==
    /\ n # count
    /\ count' = n
    /\ over' = (over /\ n > 0)
    /\ IF n = 0
       THEN Put(FALSE) /\ kept' = FALSE
       ELSE /\ isOpen' = (isOpen \/ n > count)
            /\ armed' = (armed \/ Opens(n))
            /\ timer' = (timer \/ (Opens(n) /\ ~hovering))
            /\ kept' = (kept /\ isOpen)
    /\ UNCHANGED hovering

\* commitInteraction: what the user clicks or types in the panel.
CommitInteraction ==
    /\ isOpen
    /\ Put(TRUE) /\ kept' = TRUE
    /\ UNCHANGED <<count, hovering, over>>

\* The indicator, next to the panel.
TogglePanel ==
    /\ count > 0 /\ ~over
    /\ Put(~isOpen) /\ kept' = ~isOpen
    /\ UNCHANGED <<count, hovering, over>>

\* The panel's button, and Escape.
MinimizePanel ==
    /\ isOpen
    /\ Put(FALSE) /\ kept' = FALSE
    /\ UNCHANGED <<count, hovering, over>>

AutoMinimize == timer /\ MinimizePanel

PanelHoverEnter ==
    /\ isOpen /\ ~over
    /\ over' = TRUE /\ hovering' = TRUE /\ timer' = FALSE
    /\ UNCHANGED <<count, isOpen, armed, kept>>

PanelHoverLeave ==
    /\ over
    /\ over' = FALSE /\ hovering' = FALSE /\ timer' = (timer \/ armed)
    /\ UNCHANGED <<count, isOpen, armed, kept>>

PortForwardPanelNext ==
    \/ \E n \in 0 .. MaxForwards : CountChanges(n)
    \/ CommitInteraction \/ TogglePanel \/ MinimizePanel \/ AutoMinimize
    \/ PanelHoverEnter \/ PanelHoverLeave

PortForwardPanelSpec == PortForwardPanelInit /\ [][PortForwardPanelNext]_portForwardPanelVars

-----------------------------------------------------------------------------
(* Property. *)

\* Neither sessions that come and go nor the mouse make the timer close a panel
\* that the user opened or used ("that would close a panel the user
\* deliberately kept visible").
KeptPanelStays == kept => ~timer
=============================================================================

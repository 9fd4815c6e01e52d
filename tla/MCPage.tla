------------------------------- MODULE MCPage -------------------------------
(***************************************************************************)
(* One of four parts of the page at a time: the event stream (LiveStream), *)
(* the connection status (ConnectionPanel), the graph (TopologyLayout),    *)
(* the update of the desktop app (DesktopUpdate).                          *)
(***************************************************************************)
EXTENDS LiveStream, ConnectionPanel, TopologyLayout, DesktopUpdate

VARIABLE part

ASSUME ConnectionPanelAssumption /\ TopologyLayoutAssumption

PageInit ==
    /\ part \in {"stream", "panel", "graph", "update"}
    /\ LiveStreamInit /\ ConnectionPanelInit /\ TopologyLayoutInit
    /\ DesktopUpdateInit

vars == <<part, liveStreamVars, connectionPanelVars, topologyLayoutVars, desktopUpdateVars>>

InStream == part = "stream"
            /\ UNCHANGED <<part, connectionPanelVars, topologyLayoutVars, desktopUpdateVars>>
InPanel  == part = "panel"
            /\ UNCHANGED <<part, liveStreamVars, topologyLayoutVars, desktopUpdateVars>>
InGraph  == part = "graph"
            /\ UNCHANGED <<part, liveStreamVars, connectionPanelVars, desktopUpdateVars>>
InUpdate == part = "update"
            /\ UNCHANGED <<part, liveStreamVars, connectionPanelVars, topologyLayoutVars>>

PageNext ==
    \/ LiveStreamNext /\ InStream
    \/ ConnectionPanelNext /\ InPanel
    \/ TopologyLayoutNext /\ InGraph
    \/ DesktopUpdateNext /\ InUpdate

\* The fairness of each part, for the part at hand.
PageFairness ==
    /\ WF_vars(part = "stream" /\ ServerStep /\ InStream)
    /\ WF_vars(part = "stream" /\ owes /\ BroadcastTopology /\ InStream)
    /\ WF_vars(part = "stream" /\ StreamOpens /\ InStream)
    /\ WF_vars(part = "stream" /\ Reconnect /\ InStream)
    /\ WF_vars(part = "stream" /\ ReceiveStep /\ InStream)
    /\ WF_vars(part = "stream" /\ ThrottleTimer /\ InStream)
    /\ \A s \in Selects : WF_vars(part = "stream" /\ AnswerStep(s) /\ InStream)
    /\ WF_vars(part = "panel" /\ BootSettles /\ InPanel)
    /\ WF_vars(part = "panel" /\ RetryIsServed /\ InPanel)
    /\ WF_vars(part = "panel" /\ LinkOpens /\ InPanel)
    /\ WF_vars(part = "panel" /\ ReceiveStatus /\ InPanel)
    /\ WF_vars(part = "panel" /\ StatusPollAsks /\ InPanel)
    /\ WF_vars(part = "panel" /\ PollIsAnswered /\ InPanel)
    /\ WF_vars(part = "panel" /\ StatusPollArrives /\ InPanel)
    /\ WF_vars(part = "panel" /\ RetrySucceeds /\ InPanel)
    /\ WF_vars(part = "panel" /\ RetryFails /\ InPanel)
    /\ WF_vars(part = "graph" /\ LayoutStep /\ InGraph)
    /\ \A a \in Attempts : WF_vars(part = "update" /\ DownloadStep(a) /\ InUpdate)
    /\ WF_vars(part = "update" /\ StartAnswered /\ InUpdate)
    /\ WF_vars(part = "update" /\ PollAsks /\ InUpdate)
    /\ WF_vars(part = "update" /\ PollIsServed /\ InUpdate)
    /\ WF_vars(part = "update" /\ PollArrives /\ InUpdate)

PageSpec == PageInit /\ [][PageNext]_vars /\ PageFairness
=============================================================================

------------------------------ MODULE MCPanels ------------------------------
(***************************************************************************)
(* One part of the page at a time: a pod's terminal (TerminalTab), the     *)
(* dock (Dock), a log (LogViewer), the lists (LiveQueries), the lanes of   *)
(* the timeline (LaneHierarchy), the namespaces (NamespaceScope), the port *)
(* forwards (PortForwards) and their panel (PortForwardPanel), a manifest  *)
(* (YamlEditing).                                                          *)
(***************************************************************************)
EXTENDS TerminalTab, Dock, LogViewer, LiveQueries, LaneHierarchy, NamespaceScope, PortForwards,
        PortForwardPanel, YamlEditing

VARIABLE part

ASSUME
    /\ DockAssumption /\ LogViewerAssumption /\ LiveQueriesAssumption
    /\ LaneHierarchyAssumption /\ NamespaceScopeAssumption
    /\ PortForwardsAssumption /\ PortForwardPanelAssumption

vars == <<part, terminalTabVars, dockAllVars, logViewerVars, liveQueriesVars, laneHierarchyVars,
    namespaceScopeVars, portForwardsVars, portForwardPanelVars, yamlEditingVars>>

\* The parts that are not at hand begin in one state only.
PanelsInit ==
    /\ part \in {"terminal", "dock", "log", "lists", "timeline", "namespaces",
                "forwards", "panel", "manifest"}
    /\ TerminalTabInit /\ DockInit /\ LogViewerInit /\ LiveQueriesInit
    /\ PortForwardsInit /\ PortForwardPanelInit /\ YamlEditingInit
    /\ part # "manifest" => at = (CHOOSE r \in Resources : TRUE)
    /\ part # "log" => selected = (CHOOSE c \in Containers : TRUE) /\ following
    /\ IF part = "timeline" THEN LaneHierarchyInit
       ELSE /\ own = {} /\ owned = {} /\ attached = {} /\ labelled = {}
            /\ LaneHierarchyInit
    /\ IF part = "namespaces" THEN NamespaceScopeInit
       ELSE pick = {} /\ url = {} /\ visited = {} /\ NamespaceScopeInit

PanelsNext ==
    \/ /\ part = "terminal" /\ TerminalTabNext
       /\ UNCHANGED <<part, dockAllVars, logViewerVars, liveQueriesVars, laneHierarchyVars,
                      namespaceScopeVars, portForwardsVars, portForwardPanelVars,
                      yamlEditingVars>>
    \/ /\ part = "dock" /\ DockNext
       /\ UNCHANGED <<part, terminalTabVars, logViewerVars, liveQueriesVars, laneHierarchyVars,
                      namespaceScopeVars, portForwardsVars, portForwardPanelVars,
                      yamlEditingVars>>
    \/ /\ part = "log" /\ LogViewerNext
       /\ UNCHANGED <<part, terminalTabVars, dockAllVars, liveQueriesVars, laneHierarchyVars,
                      namespaceScopeVars, portForwardsVars, portForwardPanelVars,
                      yamlEditingVars>>
    \/ /\ part = "lists" /\ LiveQueriesNext
       /\ UNCHANGED <<part, terminalTabVars, dockAllVars, logViewerVars, laneHierarchyVars,
                      namespaceScopeVars, portForwardsVars, portForwardPanelVars,
                      yamlEditingVars>>
    \/ /\ part = "timeline" /\ LaneHierarchyNext
       /\ UNCHANGED <<part, terminalTabVars, dockAllVars, logViewerVars, liveQueriesVars,
                      namespaceScopeVars, portForwardsVars, portForwardPanelVars,
                      yamlEditingVars>>
    \/ /\ part = "namespaces" /\ NamespaceScopeNext
       /\ UNCHANGED <<part, terminalTabVars, dockAllVars, logViewerVars, liveQueriesVars,
                      laneHierarchyVars, portForwardsVars, portForwardPanelVars,
                      yamlEditingVars>>
    \/ /\ part = "forwards" /\ PortForwardsNext
       /\ UNCHANGED <<part, terminalTabVars, dockAllVars, logViewerVars, liveQueriesVars,
                      laneHierarchyVars, namespaceScopeVars, portForwardPanelVars,
                      yamlEditingVars>>
    \/ /\ part = "panel" /\ PortForwardPanelNext
       /\ UNCHANGED <<part, terminalTabVars, dockAllVars, logViewerVars, liveQueriesVars,
                      laneHierarchyVars, namespaceScopeVars, portForwardsVars, yamlEditingVars>>
    \/ /\ part = "manifest" /\ YamlEditingNext
       /\ UNCHANGED <<part, terminalTabVars, dockAllVars, logViewerVars, liveQueriesVars,
                      laneHierarchyVars, namespaceScopeVars, portForwardsVars,
                      portForwardPanelVars>>

PanelsSpec == PanelsInit /\ [][PanelsNext]_vars
=============================================================================

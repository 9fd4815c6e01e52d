-------------------------------- MODULE Dock --------------------------------
(***************************************************************************)
(* The dock's tabs (packages/k8s-ui/src/components/dock/DockContext.tsx    *)
(* and BottomDock.tsx), and the debug pods behind its node terminals       *)
(* (NodeTerminalTab.tsx, with handleNodeDebug and handleNodeDebugCleanup   *)
(* of the server).                                                         *)
(*                                                                         *)
(* A tab is its number and what it is of.  A click is one step with the    *)
(* renders that follow.  Only node terminals act on the cluster; there is  *)
(* one node.                                                               *)
(***************************************************************************)
EXTENDS Naturals, SequencesExt

CONSTANTS
    Pods,     \* what terminal or log tabs may be of
    MaxTabs,  \* bound: tabs ever opened
    NoTab

\* The other keys: any number of local terminals, one tab of the node.
Keys == Pods \cup {"local", "node"}
TabIds == 1 .. MaxTabs

\* Assumed of the constants wherever the module is instantiated.
DockAssumption ==
    MaxTabs \in Nat /\ NoTab \notin TabIds /\ {"local", "node"} \cap Pods = {}

VARIABLES
    tabs,     \* tabs, in order: [id, key]
    active,   \* activeTabId
    expanded, \* isExpanded
    opened,   \* tabIdCounter
    shell,    \* each node terminal's request for its debug pod: "none",
              \* "posted", "ready", "failed"
    undone,   \* the node terminals whose cleanup has run (cleanupDoneRef)
    pods,     \* the debug pods on the node, by the tab they were made for
    deletes,  \* cleanups under way
    orphaned, \* history: pods whose tab was closed before they were made, or
              \* whose cleanup failed
    swept     \* history: pods deleted by the cleanup of another tab

dockVars == <<tabs, active, expanded, opened>>
shellVars == <<shell, undone, pods, deletes, orphaned, swept>>
dockAllVars == <<dockVars, shellVars>>

Ids == {tabs[i].id : i \in DOMAIN tabs}

DockTypeOK ==
    /\ tabs \in Seq([id : TabIds, key : Keys]) /\ Len(tabs) <= MaxTabs
    /\ active \in TabIds \cup {NoTab} /\ expanded \in BOOLEAN
    /\ opened \in 0 .. MaxTabs
    /\ shell \in [TabIds -> {"none", "posted", "ready", "failed"}]
    /\ undone \subseteq TabIds /\ pods \subseteq TabIds /\ deletes \subseteq TabIds
    /\ orphaned \subseteq TabIds /\ swept \subseteq TabIds

DockInit ==
    /\ tabs = <<>> /\ active = NoTab /\ expanded = FALSE /\ opened = 0
    /\ shell = [t \in TabIds |-> "none"]
    /\ undone = {} /\ pods = {} /\ deletes = {} /\ orphaned = {} /\ swept = {}

-----------------------------------------------------------------------------
(* DockProvider. *)

Show(t) == active' = t /\ expanded' = TRUE

\* The tab that addTab shows again instead of opening another.
SameKey(key) == {i \in DOMAIN tabs : tabs[i].key = key /\ key # "local"}

\* addTab; a node terminal asks for its pod when it mounts.
AddTab(key) ==
    IF SameKey(key) # {}
    THEN /\ \E i \in SameKey(key) : Show(tabs[i].id)
         /\ UNCHANGED <<tabs, opened, shellVars>>
    ELSE /\ opened < MaxTabs
         /\ opened' = opened + 1
         /\ tabs' = Append(tabs, [id |-> opened + 1, key |-> key])
         /\ Show(opened + 1)
         /\ shell' = IF key = "node" THEN [shell EXCEPT ![opened + 1] = "posted"] ELSE shell
         /\ UNCHANGED <<undone, pods, deletes, orphaned, swept>>

\* Mutant: only a tab that has its pod cleans up.
ReadyTabs(ts) == {t \in ts : shell[t] = "ready"}

NodeTabs(ts) == {t \in ts : shell[t] # "none"}

\* A node terminal's unmount asks, once, for the deletion of its node's pods.
Unmount(ts) ==
    LET gone == NodeTabs(ts) \ undone
    IN  /\ undone' = undone \cup gone
        /\ deletes' = deletes \cup gone
        /\ orphaned' = orphaned \cup {t \in gone : shell[t] = "posted"}
        /\ UNCHANGED <<shell, pods, swept>>

\* Mutant: the closed tab stays the active one.
ActiveStays(rest, t) ==
    IF rest = <<>> THEN active' = NoTab /\ expanded' = FALSE
    ELSE UNCHANGED <<active, expanded>>

\* The last tab becomes active in the place of an active one.
ActiveAfter(rest, t) ==
    IF rest = <<>> THEN active' = NoTab /\ expanded' = FALSE
    ELSE active' = (IF active = t THEN rest[Len(rest)].id ELSE active) /\ UNCHANGED expanded

\* The filter drops one tab: ids are given out once.
RemoveTab(t) ==
    /\ \E i \in DOMAIN tabs : tabs[i].id = t /\ tabs' = RemoveAt(tabs, i)
    /\ ActiveAfter(tabs', t)
    /\ Unmount({t})
    /\ UNCHANGED opened

SetActiveTab(t) ==
    /\ t \in Ids
    /\ Show(t)
    /\ UNCHANGED <<tabs, opened, shellVars>>

\* The button and the shortcut, which are there while there are tabs.
ToggleExpanded ==
    /\ tabs # <<>>
    /\ expanded' = ~expanded
    /\ UNCHANGED <<tabs, active, opened, shellVars>>

CloseAll ==
    /\ Len(tabs) > 1
    /\ tabs' = <<>> /\ active' = NoTab /\ expanded' = FALSE
    /\ Unmount(Ids)
    /\ UNCHANGED opened

-----------------------------------------------------------------------------
(* The node terminal's requests. *)

\* Whatever page state the answer is for, the pod is there.
PodIsMade(t) ==
    /\ shell[t] = "posted"
    /\ pods' = pods \cup {t}
    /\ shell' = [shell EXCEPT ![t] = "ready"]
    /\ UNCHANGED <<dockVars, undone, deletes, orphaned, swept>>

\* The request fails, or its answer is lost and the pod is there all the same.
PodIsRefused(t) ==
    /\ shell[t] = "posted"
    /\ shell' = [shell EXCEPT ![t] = "failed"]
    /\ pods' \in {pods, pods \cup {t}}
    /\ UNCHANGED <<dockVars, undone, deletes, orphaned, swept>>

\* The error screen's Retry: cleanup is due again.
RetryPod(t) ==
    /\ shell[t] = "failed" /\ t \in Ids
    /\ shell' = [shell EXCEPT ![t] = "posted"]
    /\ undone' = undone \ {t}
    /\ UNCHANGED <<dockVars, pods, deletes, orphaned, swept>>

\* DeleteNodeDebugPods deletes by the label of the node.
PodsAreDeleted(t) ==
    /\ t \in deletes
    /\ deletes' = deletes \ {t}
    /\ pods' = {}
    /\ swept' = swept \cup (pods \ {t})
    /\ UNCHANGED <<dockVars, shell, undone, orphaned>>

\* The page logs the failure of the cleanup.
DeletionFails(t) ==
    /\ t \in deletes
    /\ deletes' = deletes \ {t}
    /\ orphaned' = orphaned \cup pods
    /\ UNCHANGED <<dockVars, shell, undone, pods, swept>>

-----------------------------------------------------------------------------
DockNext ==
    \/ \E key \in Keys : AddTab(key)
    \/ ToggleExpanded \/ CloseAll
    \/ \E t \in TabIds :
        \/ RemoveTab(t) \/ SetActiveTab(t)
        \/ PodIsMade(t) \/ PodIsRefused(t) \/ RetryPod(t)
        \/ PodsAreDeleted(t) \/ DeletionFails(t)

DockSpec == DockInit /\ [][DockNext]_dockAllVars

-----------------------------------------------------------------------------
(* Properties. *)

\* The dock shows one of its tabs, is collapsed when it has none, and has one
\* tab for what it is asked for twice.
DockShowsATab ==
    /\ tabs = <<>> => active = NoTab /\ ~expanded
    /\ tabs # <<>> => active \in Ids
    /\ \A i, j \in DOMAIN tabs :
        tabs[i].key = tabs[j].key /\ tabs[i].key # "local" => i = j

\* A privileged debug pod has an open tab or a cleanup under way, and an open
\* tab that is ready has its pod.  (Unless a tab was closed before its pod was
\* made, a cleanup failed, or the cleanup of a closed tab came after the node
\* was opened again.)
DebugPodsAreCleanedUp ==
    /\ \A t \in pods \ orphaned : t \in Ids \/ deletes # {}
    /\ \A t \in Ids : shell[t] = "ready" => t \in pods \cup swept
=============================================================================

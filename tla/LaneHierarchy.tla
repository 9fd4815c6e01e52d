--------------------------- MODULE LaneHierarchy ---------------------------
(***************************************************************************)
(* How the timeline's events are put into lanes and lanes under each other *)
(* (buildResourceHierarchy, packages/k8s-ui/src/utils/                     *)
(* resource-hierarchy.ts): a lane's parent is taken from an event's owner, *)
(* else from the first topology edge that says one, else from its app      *)
(* label; all that is below a lane without a parent is shown inside it.    *)
(*                                                                         *)
(* There is at most one resource of each kind, so that a lane is known by  *)
(* its kind.  What events there are and what the topology is is arbitrary; *)
(* the edges come one by one, as the loop over them takes them.            *)
(***************************************************************************)
EXTENDS Naturals, FiniteSets

CONSTANTS
    Lanes,    \* the kinds there may be
    MaxEdges  \* bound: edges of the topology

\* kindPriority; equal priorities are told apart by the order of the lanes.
Priority ==
    [Service |-> 1, Ingress |-> 2, Gateway |-> 3, HTTPRoute |-> 4, Deployment |-> 5,
     StatefulSet |-> 6, ConfigMap |-> 7, ReplicaSet |-> 8, Pod |-> 9]

\* Assumed of the constants wherever the module is instantiated.
LaneHierarchyAssumption == Lanes \subseteq DOMAIN Priority /\ MaxEdges \in Nat

NoLane == "none"

\* The edges a topology can have; "manages" edges are left to the owners.
Edge(type, from, to) == [type |-> type, source |-> from, target |-> to]
Edges ==
    {e \in {Edge("exposes", "Service", "Deployment"), Edge("exposes", "Service", "StatefulSet"),
            Edge("routes-to", "Ingress", "Service"), Edge("routes-to", "HTTPRoute", "Service"),
            Edge("routes-to", "Gateway", "HTTPRoute"), Edge("routes-to", "Service", "Pod"),
            Edge("configures", "ConfigMap", "Deployment"),
            Edge("configures", "ConfigMap", "StatefulSet")}
        : {e.source, e.target} \subseteq Lanes}

VARIABLES
    own,      \* the lanes with events of their own
    owned,    \* those of them with an event that names an owner
    attached, \* the lanes that are the involved object of an Event
    labelled, \* the nodes that carry the app label
    lanes,    \* laneMap
    parent,   \* laneParent; NoLane where it has none
    taken,    \* edges taken so far
    step      \* "owners", "edges", "labels", "done"

inputVars == <<own, owned, attached, labelled>>
laneHierarchyVars == <<inputVars, lanes, parent, taken, step>>

\* appLabelEligibleKinds
Eligible == Lanes \ {"ReplicaSet", "Pod"}

\* Owner references form chains, from a Pod upwards.
Owner == [l \in Lanes |-> CASE l = "Pod" -> "ReplicaSet"
                            [] l = "ReplicaSet" -> "Deployment"
                            [] OTHER -> NoLane]

LaneHierarchyTypeOK ==
    /\ own \subseteq Lanes /\ owned \subseteq own /\ attached \subseteq Lanes
    /\ labelled \subseteq Eligible
    /\ lanes \subseteq Lanes /\ parent \in [Lanes -> Lanes \cup {NoLane}]
    /\ taken \subseteq Edges /\ Cardinality(taken) <= MaxEdges
    /\ step \in {"owners", "edges", "labels", "done"}

LaneHierarchyInit ==
    /\ own \in SUBSET Lanes
    /\ owned \in SUBSET {l \in own : Owner[l] \in Lanes}
    /\ attached \in SUBSET Lanes
    /\ labelled \in SUBSET Eligible
    /\ lanes = {} /\ parent = [l \in Lanes |-> NoLane] /\ taken = {}
    /\ step = "owners"

-----------------------------------------------------------------------------
\* Source 1.  An attached Event names the lane itself as its owner, and comes
\* after the lane's own events.
FromOwners ==
    /\ step = "owners"
    /\ parent' = [l \in Lanes |-> CASE l \in owned -> Owner[l]
                                    [] l \in attached \ owned -> l
                                    [] OTHER -> NoLane]
    /\ lanes' = own \cup attached \cup {Owner[l] : l \in owned}
    /\ step' = "edges"
    /\ UNCHANGED <<inputVars, taken>>

\* Which end of an edge goes under the other: the Service stands for the
\* routes to it, a configuration goes under what it configures.
Representative(e) ==
    e.type = "configures" \/ (e.type = "routes-to" /\ e.source \in {"Ingress", "HTTPRoute"})

Child(e) == IF Representative(e) THEN e.source ELSE e.target
Parent(e) == IF Representative(e) THEN e.target ELSE e.source

\* The child must have a lane and no parent yet; the parent is given a lane.
PutUnder(e) ==
    IF Child(e) \in lanes /\ parent[Child(e)] = NoLane
    THEN /\ parent' = [parent EXCEPT ![Child(e)] = Parent(e)]
         /\ lanes' = lanes \cup {Parent(e)}
    ELSE UNCHANGED <<parent, lanes>>

\* Source 2.
FromEdge(e) ==
    /\ step = "edges" /\ e \notin taken /\ Cardinality(taken) < MaxEdges
    /\ taken' = taken \cup {e}
    /\ PutUnder(e)
    /\ UNCHANGED <<inputVars, step>>

LastEdge ==
    /\ step = "edges"
    /\ step' = "labels"
    /\ UNCHANGED <<inputVars, lanes, parent, taken>>

\* Source 3: of the lanes of an app that have no parent, the first in priority
\* takes the others.  Pods and ReplicaSets are not eligible.
Grouped == {l \in lanes \cap labelled : parent[l] = NoLane}

FromLabels ==
    /\ step = "labels"
    /\ parent' =
        IF Grouped = {} THEN parent
        ELSE LET first == CHOOSE l \in Grouped : \A k \in Grouped : Priority[l] <= Priority[k]
             IN  [l \in Lanes |-> IF l \in Grouped \ {first} THEN first ELSE parent[l]]
    /\ step' = "done"
    /\ UNCHANGED <<inputVars, lanes, taken>>

-----------------------------------------------------------------------------
(* The second pass, read off the parents. *)

\* The lanes met on the way up from a lane; the last repeats where they end.
Above(l) ==
    LET up[n \in 0 .. Cardinality(Lanes) + 1] ==
            IF n = 0 THEN l
            ELSE IF parent[up[n - 1]] = NoLane THEN up[n - 1] ELSE parent[up[n - 1]]
    IN  up

\* Mutant: the parent is taken for the root.
ParentOnly(l) == IF parent[l] = NoLane THEN l ELSE parent[l]

\* findRoot: the lane without a parent, or the first met for the second time.
FindRoot(l) ==
    LET up == Above(l)
        Again(n) == \E m \in 0 .. n - 1 : up[m] = up[n]
        end == CHOOSE n \in DOMAIN up : Again(n) /\ \A k \in 0 .. n - 1 : ~Again(k)
    IN  up[end]

Children(l) == {k \in lanes : FindRoot(k) = l /\ k # l}
TopLevel == {l \in lanes : FindRoot(l) = l}

\* The lane returned for a rootResource: its own if it is at the top, else the
\* one it is shown in, else a placeholder.
Returned(asked) ==
    IF asked \in TopLevel THEN asked
    ELSE IF asked \in lanes THEN FindRoot(asked)
    ELSE asked

-----------------------------------------------------------------------------
LaneHierarchyNext ==
    \/ FromOwners \/ LastEdge \/ FromLabels
    \/ \E e \in Edges : FromEdge(e)

LaneHierarchySpec == LaneHierarchyInit /\ [][LaneHierarchyNext]_laneHierarchyVars

-----------------------------------------------------------------------------
(* Properties. *)

\* Children of children are not drawn: every lane is at the top or directly
\* inside one that is, and a workload's page is given the lane it asks for or
\* the one that is drawn in.
EveryLaneIsDrawn ==
    step = "done" =>
        /\ \A l \in lanes : l \in TopLevel \/ \E t \in TopLevel : l \in Children(t)
        /\ \A asked \in Lanes :
            \/ Returned(asked) = asked
            \/ Returned(asked) \in TopLevel /\ asked \in Children(Returned(asked))

\* Owners, edges and labels together put a Pod where its Service is: the chain
\* of owners leads to a Deployment, the Deployment goes under the Service that
\* exposes it, and what else the app's labels group does not part them.
\* (Unless an Event that names the Deployment has made it its own parent.)
PodsAreWithTheirService ==
    /\ step = "done"
    /\ {"Pod", "ReplicaSet"} \subseteq owned /\ "Deployment" \notin attached
    /\ Edge("exposes", "Service", "Deployment") \in taken
    => FindRoot("Pod") = FindRoot("Service")

\* Every lane is drawn, at the top or in one at the top, and a Pod of a Service
\* with it.
LanesAreShown == EveryLaneIsDrawn /\ PodsAreWithTheirService
=============================================================================

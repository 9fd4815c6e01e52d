--------------------------- MODULE TopologyLayout ---------------------------
(***************************************************************************)
(* How the topology graph is drawn (packages/k8s-ui/src/components/        *)
(* topology: TopologyGraph.tsx, layout.ts, layout.worker.ts).  A topology  *)
(* whose structure is new is sent to ELK, in a worker or, once that has    *)
(* died, inline; the result is drawn unless a newer layout has started.    *)
(* Nodes that were drawn keep their places, those the user dragged too,    *)
(* until something asks for a layout from scratch.                         *)
(*                                                                         *)
(* A topology is its nodes (edges are part of the structure like them) and *)
(* the number of the report it came with.  A view stands for               *)
(* all the user's choices in the structure key: view mode, grouping,       *)
(* levels of the groups, expanded pods.  A place is the layout that        *)
(* computed it.  The worker awaits each group of each request, so that     *)
(* results come in any order.                                              *)
(***************************************************************************)
EXTENDS Naturals

CONSTANTS
    Nodes,
    MaxReports,  \* bound: topologies that come
    MaxViews,    \* bound: choices of the user that change the view or reset places
    MaxFailures, \* bound: layouts that fail
    ByHand,      \* the place of a node the user dragged
    NoKey        \* prevStructureRef: ''

\* Assumed of the constants wherever the module is instantiated.
TopologyLayoutAssumption ==
    /\ MaxReports \in Nat /\ MaxViews \in Nat /\ MaxFailures \in Nat
    /\ ByHand \notin Nat
    /\ NoKey \notin [nodes : SUBSET Nodes, view : Nat, retries : Nat]

MaxLayouts == MaxReports + MaxViews + MaxFailures
Reports == [nodes : SUBSET Nodes, report : 0 .. MaxReports]
Keys == [nodes : SUBSET Nodes, view : 0 .. MaxViews, retries : 0 .. MaxFailures]
Places == 0 .. MaxLayouts \cup {ByHand}
Nothing == [nodes |-> {}, report |-> 0]

VARIABLES
    report,    \* the prop, with no nodes while there is none
    view, retries,
    structure, \* prevStructureRef
    version,   \* layoutVersionRef
    layouts,   \* those under way, with what they captured
    engine,    \* layoutEngine
    canvas,    \* the nodes and edges drawn
    place,     \* where each is drawn, 0 elsewhere
    saved,     \* savedPositionsRef, 0 where it has none
    error,     \* layoutError
    failures,  \* layouts failed so far
    anew       \* history: a layout from scratch was asked for and none was drawn since

topologyLayoutVars == <<report, view, retries, structure, version, layouts, engine, canvas,
                        place, saved, error, failures, anew>>

NoPlaces == [n \in Nodes |-> 0]

TopologyLayoutTypeOK ==
    /\ report \in Reports
    /\ view \in 0 .. MaxViews /\ retries \in 0 .. MaxFailures
    /\ structure \in Keys \cup {NoKey}
    /\ version \in 0 .. MaxLayouts
    /\ layouts \subseteq [version : 1 .. MaxLayouts, of : SUBSET Nodes, view : 0 .. MaxViews,
                          first : BOOLEAN]
    /\ engine \in {"worker", "main-thread"}
    /\ canvas \in [nodes : SUBSET Nodes, view : 0 .. MaxViews]
    /\ place \in [Nodes -> Places] /\ saved \in [Nodes -> Places]
    /\ error \in BOOLEAN /\ failures \in 0 .. MaxFailures /\ anew \in BOOLEAN

TopologyLayoutInit ==
    /\ report = Nothing /\ view = 0 /\ retries = 0
    /\ structure = NoKey /\ version = 0 /\ layouts = {} /\ engine = "worker"
    /\ canvas = [nodes |-> {}, view |-> 0]
    /\ place = NoPlaces /\ saved = NoPlaces
    /\ error = FALSE /\ failures = 0 /\ anew = TRUE

-----------------------------------------------------------------------------
(* The layout effect. *)

Draw(drawing, places) == canvas' = drawing /\ place' = places

Key == [nodes |-> report.nodes, view |-> view, retries |-> retries]

\* The effect, run whenever what it depends on has changed; kept are the saved
\* positions left by what caused it.
LayoutEffect(kept) ==
    IF report'.nodes = {}
    THEN \* A context switch, or a reset.
         /\ Draw([canvas EXCEPT !.nodes = {}], NoPlaces)
         /\ structure' = NoKey
         /\ saved' = NoPlaces
         /\ anew' = TRUE
         /\ UNCHANGED <<version, layouts>>
    ELSE /\ saved' = kept
         /\ IF structure = Key'
            THEN UNCHANGED <<structure, version, layouts>>
            ELSE /\ structure' = Key'
                 /\ version' = version + 1
                 /\ layouts' = layouts \cup {[version |-> version', of |-> report'.nodes,
                                              view |-> view', first |-> kept = NoPlaces]}
         /\ UNCHANGED <<canvas, place>>
         /\ anew' = (anew \/ kept = NoPlaces)

\* A topology comes: other nodes, other statuses of the same, or none.
Report(nodes) ==
    /\ report.report < MaxReports
    /\ report' = [nodes |-> nodes, report |-> report.report + 1]
    /\ UNCHANGED <<view, retries, engine, error, failures>>
    /\ LayoutEffect(saved)

\* A level, the grouping, expanded pods, another namespace: the saved places go.
ChangeView ==
    /\ view < MaxViews
    /\ view' = view + 1
    /\ UNCHANGED <<report, retries, engine, error, failures>>
    /\ LayoutEffect(NoPlaces)

\* Only offered where nothing is drawn.
RetryLayout ==
    /\ error /\ canvas.nodes = {} /\ report.nodes # {}
    /\ retries < MaxFailures
    /\ retries' = retries + 1
    /\ error' = FALSE
    /\ UNCHANGED <<report, view, engine, failures>>
    /\ LayoutEffect(NoPlaces)

-----------------------------------------------------------------------------
(* The result. *)

\* Mutants: every layout is drawn; nodes are moved by every layout.
AnyIsCurrent(l) == TRUE
IsCurrent(l) == l.version = version

AlwaysMoved(l, n) == l.version

PlaceBy(l, n) == IF l.first \/ saved[n] = 0 THEN l.version ELSE saved[n]

LayoutLands(l) ==
    /\ layouts' = layouts \ {l}
    /\ IF IsCurrent(l)
       THEN LET places == [n \in Nodes |-> IF n \in l.of THEN PlaceBy(l, n) ELSE 0]
            IN  /\ Draw([nodes |-> l.of, view |-> l.view], places)
                /\ saved' = places
                /\ error' = FALSE
                /\ anew' = FALSE
       ELSE UNCHANGED <<canvas, place, saved, error, anew>>
    /\ UNCHANGED <<report, view, retries, structure, version, engine, failures>>

LayoutFails(l) ==
    /\ failures < MaxFailures
    /\ failures' = failures + 1
    /\ layouts' = layouts \ {l}
    /\ error' = (error \/ IsCurrent(l))
    /\ UNCHANGED <<report, view, retries, structure, version, engine, canvas, place, saved,
                   anew>>

\* Mutant: the requests the worker had are forgotten.
ForgetPending == layouts' = {}

\* rejectPendingWorkerRequests: what was pending is laid out again inline.
RerunPending == UNCHANGED layouts

WorkerDies ==
    /\ engine = "worker" /\ layouts # {}
    /\ engine' = "main-thread"
    /\ RerunPending
    /\ UNCHANGED <<report, view, retries, structure, version, canvas, place, saved, error,
                   failures, anew>>

\* onNodesChange.
Drag(n) ==
    /\ n \in canvas.nodes /\ place[n] # ByHand
    /\ place' = [place EXCEPT ![n] = ByHand]
    /\ saved' = [saved EXCEPT ![n] = ByHand]
    /\ UNCHANGED <<report, view, retries, structure, version, layouts, engine, canvas, error,
                   failures, anew>>

-----------------------------------------------------------------------------
LayoutStep == \E l \in layouts : LayoutLands(l)

TopologyLayoutNext ==
    \/ ChangeView \/ RetryLayout \/ WorkerDies \/ LayoutStep
    \/ \E nodes \in SUBSET Nodes : Report(nodes)
    \/ \E l \in layouts : LayoutFails(l)
    \/ \E n \in Nodes : Drag(n)

TopologyLayoutSpec == TopologyLayoutInit /\ [][TopologyLayoutNext]_topologyLayoutVars

\* ELK comes to an end.
TopologyLayoutFairness == WF_topologyLayoutVars(LayoutStep)

-----------------------------------------------------------------------------
(* Properties. *)

LaidOut == \A l \in layouts : ~IsCurrent(l)

\* Whatever the order the results come in, once the newest layout is done what
\* is drawn are the topology's nodes in the view that is selected.
DrawnIsTheNewest ==
    report.nodes # {} /\ LaidOut /\ ~error =>
        canvas.nodes = report.nodes /\ canvas.view = view

\* Unless a layout from scratch was asked for, what is drawn stays where it
\* is, and what the user drags while a layout runs where he drags it.
NodesKeepTheirPlace ==
    [][\A n \in canvas.nodes \cap canvas'.nodes :
          anew \/ place'[n] \in {place[n], ByHand}]_topologyLayoutVars

\* Once the topology changes no more it is drawn, or the error is shown, also
\* when the worker dies with the layout.
GraphIsDrawn == <>[](report.nodes # {} => error \/ canvas.nodes = report.nodes)
=============================================================================

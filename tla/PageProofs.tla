----------------------------- MODULE PageProofs -----------------------------
(***************************************************************************)
(* Proofs about parts of the page, for any number of messages, clicks,     *)
(* failures and reloads: that the throttle of the event stream drops no    *)
(* news (LiveStream), that the graph drawn is the newest and leaves nodes  *)
(* in their places (TopologyLayout), and that an update has one download   *)
(* and an outcome that is the last attempt's (DesktopUpdate).              *)
(***************************************************************************)
EXTENDS LiveStream, TopologyLayout, DesktopUpdate, TLAPS

-----------------------------------------------------------------------------
(* LiveStream. *)

\* Messages, and what the page took from them, are topologies of some cluster.
SomeTopology == [cluster : Nat, number : Nat]
SomeMessages == [kind : {"topology"}, topology : SomeTopology]
                \cup [kind : {"context_changed"}, cluster : Nat]

StreamTypes ==
    /\ cluster \in Nat /\ number \in Nat /\ wire \in Seq(SomeMessages)
    /\ timer \in {"null", "armed", "cleared"}
    /\ waiting \in BOOLEAN /\ recent \in BOOLEAN /\ fresh \in BOOLEAN /\ crossed \in BOOLEAN
    /\ fresh => newest \in SomeTopology

\* Until something crosses an armed timer: what is pending has one, none runs
\* while the page waits for the first topology of a switch, and of the newest
\* topology received and what is pending nothing is older.
ThrottleInv ==
    /\ timer = "cleared" => crossed
    /\ ~crossed =>
          /\ pending # NoTopology => timer = "armed"
          /\ waiting => timer # "armed"
          /\ fresh => IF pending = NoTopology THEN topology = newest ELSE pending = newest

StreamInv == StreamTypes /\ ThrottleInv

LEMMA MessageFacts ==
    ASSUME NEW q \in Seq(SomeMessages), q # <<>>
    PROVE  /\ Tail(q) \in Seq(SomeMessages)
           /\ Head(q).kind = "topology" => Head(q).topology \in SomeTopology
<1> DEFINE S == SomeMessages
<1>1. Head(q) \in S /\ Tail(q) \in Seq(S)
  <2>1. q \in Seq(S)
    OBVIOUS
  <2> HIDE DEF S
  <2> QED
    BY <2>1, SMT
<1>2. \A m \in SomeMessages : m.kind = "topology" => m.topology \in SomeTopology
  BY DEF SomeMessages
<1> QED
  BY <1>1, <1>2

LEMMA SendTypes ==
    ASSUME StreamTypes, NEW m \in SomeMessages, Send(m)
    PROVE  wire' \in Seq(SomeMessages)
<1>1. Append(wire, m) \in Seq(SomeMessages)
  <2> DEFINE S == SomeMessages
  <2>1. wire \in Seq(S) /\ m \in S
    BY DEF StreamTypes
  <2> HIDE DEF S
  <2>2. Append(wire, m) \in Seq(S)
    BY <2>1, SMT
  <2> QED
    BY <2>2 DEF S
<1> QED
  BY <1>1 DEF Send, StreamTypes

\* Steps that leave the throttle alone.
LEMMA ThrottleLeftAlone ==
    ASSUME StreamInv, wire' \in Seq(SomeMessages), cluster' \in Nat, number' \in Nat,
           UNCHANGED <<hookVars, newest, fresh, crossed>>
    PROVE  StreamInv'
BY DEF StreamInv, StreamTypes, ThrottleInv, hookVars

LEMMA StreamInit == LiveStreamInit => StreamInv
<1>1. <<>> \in Seq(SomeMessages) /\ 1 \in Nat
  BY SMT
<1> QED
  BY <1>1 DEF LiveStreamInit, StreamInv, StreamTypes, ThrottleInv

LEMMA StreamStep == StreamInv /\ [LiveStreamNext]_liveStreamVars => StreamInv'
<1> SUFFICES ASSUME StreamInv, [LiveStreamNext]_liveStreamVars
             PROVE  StreamInv'
  OBVIOUS
<1> USE DEF serverVars, streamVars, switchVars, historyVars
<1>0. <<>> \in Seq(SomeMessages) /\ 1 \in Nat /\ StreamTypes
  BY SMT DEF StreamInv
<1>t. \A c, i \in Nat : TopologyMessage([cluster |-> c, number |-> i]) \in SomeMessages
  BY DEF TopologyMessage, SomeMessages, SomeTopology
<1>1. CASE BroadcastTopology
  <2>1. number' \in Nat /\ cluster' \in Nat
    BY <1>0, <1>1, SMT DEF BroadcastTopology, StreamTypes
  <2>2. wire' \in Seq(SomeMessages)
    BY <1>0, <1>1, <1>t, <2>1, SendTypes DEF BroadcastTopology, StreamTypes
  <2> QED
    BY <1>1, <2>1, <2>2, ThrottleLeftAlone DEF BroadcastTopology
<1>2. ASSUME NEW s \in Selects, SwitchSucceeds(s) \/ SwitchFails(s)
      PROVE  StreamInv'
  <2>1. CASE SwitchSucceeds(s)
    <3>1. cluster' \in Nat /\ number' \in Nat
      BY <1>0, <2>1, SMT DEF SwitchSucceeds, StreamTypes
    <3>2. Changed(cluster') \in SomeMessages
      BY <3>1 DEF Changed, SomeMessages
    <3>3. wire' \in Seq(SomeMessages)
      BY <1>0, <2>1, <3>2, SendTypes DEF SwitchSucceeds
    <3> QED
      BY <2>1, <3>1, <3>3, ThrottleLeftAlone DEF SwitchSucceeds
  <2>2. CASE SwitchFails(s)
    BY <1>0, <2>2, ThrottleLeftAlone DEF SwitchFails, StreamTypes
  <2> QED
    BY <1>2, <2>1, <2>2
<1>3. CASE StreamOpens
  <2>1. TopologyMessage(CurrentTopology) \in SomeMessages
    BY <1>0, <1>t DEF CurrentTopology, StreamTypes
  <2>2. <<TopologyMessage(CurrentTopology)>> \in Seq(SomeMessages)
    <3> DEFINE S == SomeMessages
               m == TopologyMessage(CurrentTopology)
    <3>1. m \in S
      BY <2>1
    <3> HIDE DEF S, m
    <3>2. <<m>> \in Seq(S)
      BY <3>1, SMT
    <3> QED
      BY <3>2 DEF S, m
  <2> QED
    BY <1>0, <1>3, <2>2, ThrottleLeftAlone DEF StreamOpens, StreamTypes
<1>4. CASE StreamBreaks
  BY <1>0, <1>4, ThrottleLeftAlone DEF StreamBreaks, LoseStream, StreamTypes
<1>5. CASE Reconnect \/ Refresh
  <2>1. /\ wire' = <<>> /\ fresh' = FALSE
        /\ UNCHANGED <<serverVars, waiting, recent, pending, timer, newest, crossed>>
    BY <1>5 DEF Reconnect, Refresh, Connect, LoseStream
  <2> QED
    BY <1>0, <2>1 DEF StreamInv, StreamTypes, ThrottleInv
<1>6. CASE Resubscribe
  BY <1>0, <1>6 DEF Resubscribe, Connect, LoseStream, StreamInv, StreamTypes, ThrottleInv
<1>7. CASE ReceiveTopology
  <2> DEFINE t == Head(wire).topology
  <2>1. t \in SomeTopology /\ wire' \in Seq(SomeMessages)
    BY <1>0, <1>7, MessageFacts DEF ReceiveTopology, Receive, StreamTypes
  <2>2. t # NoTopology
    BY <2>1, LiveStreamAssumption DEF LiveStreamAssumption, SomeTopology
  <2>3. /\ newest' = t /\ fresh' = TRUE /\ UNCHANGED <<cluster, number, crossed>>
        /\ \/ waiting /\ FinishSwitch(t)
           \/ ~waiting /\ ShowOrThrottle(t) /\ waiting' = waiting
    BY <1>7 DEF ReceiveTopology
  <2> HIDE DEF t
  <2>4. CASE waiting /\ FinishSwitch(t)
    BY <1>0, <2>1, <2>2, <2>3, <2>4 DEF FinishSwitch, Show, StreamInv, StreamTypes, ThrottleInv
  <2>5. CASE ~waiting /\ ShowOrThrottle(t) /\ waiting' = waiting
    BY <1>0, <2>1, <2>2, <2>3, <2>5 DEF ShowOrThrottle, Show, StreamInv, StreamTypes, ThrottleInv
  <2> QED
    BY <2>3, <2>4, <2>5
<1>8. CASE ReceiveContextChanged
  <2>1. wire' \in Seq(SomeMessages)
    BY <1>0, <1>8, MessageFacts DEF ReceiveContextChanged, Receive, StreamTypes
  <2> QED
    BY <1>0, <1>8, <2>1 DEF ReceiveContextChanged, StreamInv, StreamTypes, ThrottleInv
<1>9. CASE IntervalEnds
  <2>1. /\ recent' = FALSE
        /\ UNCHANGED <<cluster, number, wire, topology, waiting, pending, timer, newest, fresh,
                       crossed>>
    BY <1>9 DEF IntervalEnds
  <2> QED
    BY <1>0, <2>1 DEF StreamInv, StreamTypes, ThrottleInv
<1>10. CASE ThrottleTimer
  <2>1. /\ timer = "armed" /\ timer' = "null" /\ pending' = NoTopology
        /\ UNCHANGED <<cluster, number, wire, waiting, newest, fresh, crossed>>
        /\ recent' \in BOOLEAN
        /\ topology' = IF pending = NoTopology THEN topology ELSE pending
    BY <1>0, <1>10 DEF ThrottleTimer, Show, StreamTypes
  <2>2. StreamTypes'
    BY <1>0, <2>1 DEF StreamTypes
  <2>3. ThrottleInv'
    BY <2>1 DEF StreamInv, ThrottleInv
  <2> QED
    BY <2>2, <2>3 DEF StreamInv
<1>11. CASE Select
  BY <1>0, <1>11, ThrottleLeftAlone DEF Select, StreamTypes
<1>12. ASSUME NEW s \in Selects, AnswerStep(s) \/ Confirm(s) \/ Cancel(s) \/ GiveUp(s)
       PROVE  StreamInv'
  <2>1. UNCHANGED <<serverVars, streamVars, hookVars, historyVars>>
    BY <1>12 DEF AnswerStep, CountsLetSwitch, CountsAskUser, AnswerSwitched, AnswerFailed, Confirm,
        Cancel, GiveUp
  <2> QED
    BY <1>0, <2>1, ThrottleLeftAlone DEF StreamTypes
<1>13. CASE UNCHANGED liveStreamVars
  BY <1>0, <1>13, ThrottleLeftAlone DEF liveStreamVars, StreamTypes
<1> QED
  BY <1>1, <1>2, <1>3, <1>4, <1>5, <1>6, <1>7, <1>8, <1>9, <1>10, <1>11, <1>12, <1>13
  DEF LiveStreamNext, ServerStep, ReceiveStep

\* Throttling drops no news, for any number of topologies, breaks and switches.
THEOREM NewestIsShownHolds == LiveStreamSpec => []NewestIsShown
<1>1. LiveStreamInit => StreamInv
  BY StreamInit
<1>2. StreamInv /\ [LiveStreamNext]_liveStreamVars => StreamInv'
  BY StreamStep
<1>3. StreamInv => NewestIsShown
  <2> SUFFICES ASSUME StreamInv, fresh, ~crossed
               PROVE  topology = newest \/ (timer = "armed" /\ pending = newest)
    BY DEF NewestIsShown
  <2> QED
    BY DEF StreamInv, ThrottleInv
<1> QED
  BY <1>1, <1>2, <1>3, PTL DEF LiveStreamSpec

-----------------------------------------------------------------------------
(* TopologyLayout. *)

\* Layouts are known by their numbers, each asked for by a report, a choice of
\* the user or a retry, and the newest is of what the page shows.
LayoutInv ==
    /\ TopologyLayoutTypeOK
    /\ version <= report.report + view + retries
    /\ structure = IF report.nodes = {} THEN NoKey ELSE Key
    /\ \A l \in layouts :
          /\ l.version <= version
          /\ report.nodes # {} /\ IsCurrent(l) => l.of = report.nodes /\ l.view = view
          /\ IsCurrent(l) /\ l.first => anew
    /\ \A l, m \in layouts : l.version = m.version => l = m

\* Unless nodes are to be laid out from scratch, those that are drawn have a
\* place, and it is the one that is saved.
PlacesInv ==
    ~anew => saved = place /\ \A n \in canvas.nodes : saved[n] # 0

DrawingInv == LayoutInv /\ PlacesInv /\ DrawnIsTheNewest

LEMMA DrawingInit == TopologyLayoutAssumption /\ TopologyLayoutInit => DrawingInv
<1> SUFFICES ASSUME TopologyLayoutAssumption, TopologyLayoutInit
             PROVE  DrawingInv
  OBVIOUS
<1>1. Nothing \in Reports /\ Nothing.nodes = {} /\ Nothing.report = 0
  BY SMT DEF Nothing, Reports, TopologyLayoutAssumption
<1>2. 0 \in 0 .. MaxViews /\ 0 \in 0 .. MaxFailures /\ 0 \in 0 .. MaxLayouts /\ 0 <= 0 + 0 + 0
  BY SMT DEF TopologyLayoutAssumption, MaxLayouts
<1>3. NoPlaces \in [Nodes -> Places]
  BY <1>2 DEF NoPlaces, Places
<1>4. TopologyLayoutTypeOK
  BY <1>1, <1>2, <1>3 DEF TopologyLayoutInit, TopologyLayoutTypeOK
<1>5. LayoutInv
  BY <1>1, <1>2, <1>4 DEF TopologyLayoutInit, LayoutInv
<1> QED
  BY <1>1, <1>5 DEF TopologyLayoutInit, DrawingInv, PlacesInv, DrawnIsTheNewest

\* What the sum of the numbers bounds.
LEMMA VersionBound ==
    ASSUME TopologyLayoutAssumption, NEW r \in Reports, NEW v \in 0 .. MaxViews,
           NEW t \in 0 .. MaxFailures, NEW n \in Nat, n <= r.report + v + t
    PROVE  n \in 0 .. MaxLayouts
<1>1. r.report \in 0 .. MaxReports
  BY DEF Reports
<1> QED
  BY <1>1, SMT DEF TopologyLayoutAssumption, MaxLayouts

\* The effect, after whatever made it run.
LEMMA EffectKeeps ==
    ASSUME TopologyLayoutAssumption, DrawingInv, NEW kept \in {saved, NoPlaces}, LayoutEffect(kept),
           report' \in Reports, view' \in 0 .. MaxViews, retries' \in 0 .. MaxFailures,
           report'.report + view' + retries' = report.report + view + retries + 1,
           UNCHANGED <<engine, failures>>, error' \in BOOLEAN,
           error' = error \/ structure # Key'
    PROVE  DrawingInv' /\ (canvas'.nodes = {} \/ UNCHANGED <<canvas, place>>)
<1>t. /\ TopologyLayoutTypeOK /\ version \in Nat /\ version <= report.report + view + retries
      /\ report.report \in Nat /\ view \in Nat /\ retries \in Nat
      /\ layouts \subseteq [version : 1 .. MaxLayouts, of : SUBSET Nodes, view : 0 .. MaxViews,
                            first : BOOLEAN]
  <2>1. TopologyLayoutTypeOK /\ version <= report.report + view + retries
    BY DEF DrawingInv, LayoutInv
  <2>2. report.report \in 0 .. MaxReports
    BY <2>1 DEF TopologyLayoutTypeOK, Reports
  <2> QED
    BY <2>1, <2>2, SMT DEF TopologyLayoutTypeOK
<1>s. NoPlaces \in [Nodes -> Places] /\ kept \in [Nodes -> Places]
  <2>1. 0 \in Places
    BY SMT DEF Places, MaxLayouts, TopologyLayoutAssumption
  <2> QED
    BY <1>t, <2>1 DEF NoPlaces, TopologyLayoutTypeOK
<1>k. Key' \in Keys /\ Key'.nodes = report'.nodes /\ Key'.view = view'
  BY DEF Key, Keys, Reports
<1>1. CASE report'.nodes = {}
  <2>1. /\ structure' = NoKey /\ saved' = NoPlaces /\ place' = NoPlaces /\ anew' = TRUE
        /\ UNCHANGED <<version, layouts>> /\ canvas' = [canvas EXCEPT !.nodes = {}]
    BY <1>1 DEF LayoutEffect, Draw
  <2>2. canvas' \in [nodes : SUBSET Nodes, view : 0 .. MaxViews] /\ canvas'.nodes = {}
    BY <1>t, <2>1 DEF TopologyLayoutTypeOK
  <2>3. TopologyLayoutTypeOK'
    BY <1>t, <1>s, <2>1, <2>2 DEF TopologyLayoutTypeOK
  <2>4. version' <= report'.report + view' + retries'
    <3>1. version <= report.report + view + retries + 1
      BY <1>t, SMT
    <3> QED
      BY <2>1, <3>1
  <2>5. LayoutInv'
    BY <1>1, <2>1, <2>3, <2>4 DEF LayoutInv, DrawingInv, IsCurrent
  <2> QED
    BY <1>1, <2>1, <2>2, <2>5 DEF DrawingInv, PlacesInv, DrawnIsTheNewest
<1>2. CASE report'.nodes # {}
  <2>1. saved' = kept /\ UNCHANGED <<canvas, place>> /\ anew' = (anew \/ kept = NoPlaces)
    BY <1>2 DEF LayoutEffect
  <2>p. PlacesInv'
    BY <2>1 DEF DrawingInv, PlacesInv
  <2>2. CASE structure = Key'
    <3>1. UNCHANGED <<structure, version, layouts, error>>
      BY <1>2, <2>2 DEF LayoutEffect
    <3>2. structure # NoKey
      BY <1>k, <1>t, <2>2, SMT DEF TopologyLayoutAssumption, Keys
    <3>3. report.nodes # {} /\ Key = Key'
      BY <2>2, <3>2 DEF DrawingInv, LayoutInv
    <3>4. report.nodes = report'.nodes /\ view = view'
      BY <3>3 DEF Key
    <3>5. TopologyLayoutTypeOK'
      BY <1>t, <1>s, <2>1, <3>1 DEF TopologyLayoutTypeOK
    <3>6. version' <= report'.report + view' + retries'
      <4>1. version <= report.report + view + retries + 1
        BY <1>t, SMT
      <4> QED
        BY <3>1, <4>1
    <3>7. LayoutInv'
      BY <1>2, <2>1, <2>2, <3>1, <3>4, <3>5, <3>6 DEF LayoutInv, DrawingInv, IsCurrent
    <3>8. DrawnIsTheNewest'
      BY <2>1, <3>1, <3>4 DEF DrawingInv, DrawnIsTheNewest, LaidOut, IsCurrent
    <3> QED
      BY <2>1, <2>p, <3>7, <3>8 DEF DrawingInv
  <2>3. CASE structure # Key'
    <3> DEFINE l == [version |-> version', of |-> report'.nodes, view |-> view',
                     first |-> kept = NoPlaces]
    <3>1. structure' = Key' /\ version' = version + 1 /\ layouts' = layouts \cup {l}
      BY <1>2, <2>3 DEF LayoutEffect
    <3>2. version' <= report'.report + view' + retries' /\ version' \in Nat
      <4>1. version + 1 <= report.report + view + retries + 1 /\ version + 1 \in Nat
        BY <1>t, SMT
      <4> QED
        BY <3>1, <4>1
    <3>3. version' \in 0 .. MaxLayouts
      BY <3>2, VersionBound
    <3>4. version' \in 1 .. MaxLayouts
      BY <1>t, <3>1, <3>3, SMT
    <3>5. (kept = NoPlaces) \in BOOLEAN
      OBVIOUS
    <3>6. l \in [version : 1 .. MaxLayouts, of : SUBSET Nodes, view : 0 .. MaxViews,
                 first : BOOLEAN]
      BY <3>4, <3>5 DEF Reports
    <3>l. /\ l.version = version' /\ l.of = report'.nodes /\ l.view = view'
          /\ l.first = (kept = NoPlaces)
      OBVIOUS
    <3> HIDE DEF l
    <3>7. TopologyLayoutTypeOK'
      BY <1>k, <1>t, <1>s, <2>1, <3>1, <3>3, <3>6 DEF TopologyLayoutTypeOK
    <3>8. \A m \in layouts : m.version <= version' /\ m.version # version'
      <4>1. \A m \in layouts : m.version \in Nat /\ m.version <= version
        BY <1>t, SMT DEF DrawingInv, LayoutInv
      <4> QED
        BY <1>t, <3>1, <4>1, SMT
    <3>9. LayoutInv'
      <4>1. structure' = IF report'.nodes = {} THEN NoKey ELSE Key'
        BY <1>2, <3>1
      <4>2. ASSUME NEW m \in layouts'
            PROVE  /\ m.version <= version'
                   /\ IsCurrent(m)' => m.of = report'.nodes /\ m.view = view'
                   /\ IsCurrent(m)' /\ m.first => anew'
        <5>1. version' <= version'
          BY <3>2, SMT
        <5> QED
          BY <2>1, <3>1, <3>8, <3>l, <5>1 DEF IsCurrent
      <4>3. ASSUME NEW m \in layouts', NEW o \in layouts', m.version = o.version
            PROVE  m = o
        BY <3>1, <3>8, <3>l, <4>3 DEF DrawingInv, LayoutInv
      <4> QED
        BY <3>2, <3>7, <4>1, <4>2, <4>3 DEF LayoutInv
    <3>10. DrawnIsTheNewest'
      BY <3>1, <3>l DEF DrawnIsTheNewest, LaidOut, IsCurrent
    <3> QED
      BY <2>1, <2>p, <3>9, <3>10 DEF DrawingInv
  <2> QED
    BY <2>2, <2>3
<1> QED
  BY <1>1, <1>2

\* The result of the last layout, or of one that is not.
LEMMA LandingKeeps ==
    ASSUME TopologyLayoutAssumption, DrawingInv, NEW l \in layouts, LayoutLands(l)
    PROVE  DrawingInv' /\ (\A n \in canvas.nodes \cap canvas'.nodes : anew \/ place'[n] = place[n])
<1>t. /\ TopologyLayoutTypeOK /\ LayoutInv
      /\ l.version \in 1 .. MaxLayouts /\ l.of \subseteq Nodes /\ l.view \in 0 .. MaxViews
      /\ l.first \in BOOLEAN
  BY DEF DrawingInv, LayoutInv, TopologyLayoutTypeOK
<1>1. /\ layouts' = layouts \ {l}
      /\ UNCHANGED <<report, view, retries, structure, version, engine, failures>>
  BY DEF LayoutLands
<1>2. CASE ~IsCurrent(l)
  <2>1. UNCHANGED <<canvas, place, saved, error, anew>>
    BY <1>2 DEF LayoutLands
  <2>2. LayoutInv'
    BY <1>1, <1>t, <2>1 DEF LayoutInv, TopologyLayoutTypeOK, Key, IsCurrent
  <2>3. LaidOut' => LaidOut
    BY <1>1, <1>2 DEF LaidOut, IsCurrent
  <2> QED
    BY <1>1, <2>1, <2>2, <2>3 DEF DrawingInv, PlacesInv, DrawnIsTheNewest
<1>3. CASE IsCurrent(l)
  <2> DEFINE places == [n \in Nodes |-> IF n \in l.of THEN PlaceBy(l, n) ELSE 0]
  <2>1. /\ canvas' = [nodes |-> l.of, view |-> l.view] /\ place' = places /\ saved' = places
        /\ error' = FALSE /\ anew' = FALSE
    BY <1>3 DEF LayoutLands, Draw
  <2>2. places \in [Nodes -> Places]
    <3>1. 0 \in Places /\ l.version \in Places
      BY <1>t, SMT DEF Places, MaxLayouts, TopologyLayoutAssumption
    <3> QED
      BY <1>t, <3>1 DEF PlaceBy, TopologyLayoutTypeOK
  <2>3. canvas' \in [nodes : SUBSET Nodes, view : 0 .. MaxViews] /\ canvas'.nodes = l.of
        /\ canvas'.view = l.view
    BY <1>t, <2>1
  <2>4. TopologyLayoutTypeOK'
    BY <1>1, <1>t, <2>1, <2>2, <2>3 DEF TopologyLayoutTypeOK
  <2>5. ASSUME NEW m \in layouts'
        PROVE  ~IsCurrent(m)'
    BY <1>1, <1>3, <1>t, <2>5 DEF LayoutInv, IsCurrent
  <2>6. LayoutInv'
    BY <1>1, <1>t, <2>4, <2>5 DEF LayoutInv, Key
  <2>7. \A n \in l.of : places[n] # 0
    <3>1. l.version # 0
      BY <1>t, SMT
    <3> QED
      BY <1>t, <3>1 DEF PlaceBy
  <2>8. DrawnIsTheNewest'
    BY <1>1, <1>3, <1>t, <2>3 DEF DrawnIsTheNewest, LayoutInv
  <2>9. ASSUME NEW n \in canvas.nodes \cap canvas'.nodes, ~anew
        PROVE  place'[n] = place[n]
    <3>1. ~l.first /\ n \in l.of /\ n \in Nodes
      BY <1>3, <1>t, <2>3, <2>9 DEF LayoutInv
    <3>2. saved[n] = place[n] /\ saved[n] # 0
      BY <2>9 DEF DrawingInv, PlacesInv
    <3> QED
      BY <2>1, <3>1, <3>2 DEF PlaceBy
  <2> QED
    BY <2>1, <2>3, <2>6, <2>7, <2>8, <2>9 DEF DrawingInv, PlacesInv
<1> QED
  BY <1>2, <1>3

\* A step keeps what is said of the drawing, and nodes where they are.
LEMMA DrawingStep ==
    ASSUME TopologyLayoutAssumption, DrawingInv, [TopologyLayoutNext]_topologyLayoutVars
    PROVE  /\ DrawingInv'
           /\ \A n \in canvas.nodes \cap canvas'.nodes : anew \/ place'[n] \in {place[n], ByHand}
<1>t. TopologyLayoutTypeOK /\ LayoutInv
  BY DEF DrawingInv, LayoutInv
<1>n. /\ report.report \in 0 .. MaxReports /\ report.nodes \subseteq Nodes
      /\ view \in 0 .. MaxViews /\ retries \in 0 .. MaxFailures
      /\ MaxReports \in Nat /\ MaxViews \in Nat /\ MaxFailures \in Nat
  BY <1>t DEF TopologyLayoutTypeOK, Reports, TopologyLayoutAssumption
<1>1. ASSUME NEW nodes \in SUBSET Nodes, Report(nodes)
      PROVE  DrawingInv' /\ (canvas'.nodes = {} \/ UNCHANGED <<canvas, place>>)
  <2>1. report.report + 1 \in 0 .. MaxReports
    BY <1>1, <1>n, SMT DEF Report
  <2>2. report' \in Reports /\ report'.report = report.report + 1
    BY <1>1, <2>1 DEF Report, Reports
  <2>3. report'.report + view + retries = report.report + view + retries + 1
    BY <1>n, <2>2, SMT
  <2> QED
    BY <1>1, <1>t, <2>2, <2>3, EffectKeeps DEF Report, TopologyLayoutTypeOK
<1>2. ASSUME ChangeView
      PROVE  DrawingInv' /\ (canvas'.nodes = {} \/ UNCHANGED <<canvas, place>>)
  <2>1. view' \in 0 .. MaxViews /\ report.report + view' + retries = report.report + view + retries + 1
    BY <1>2, <1>n, SMT DEF ChangeView
  <2> QED
    BY <1>2, <1>t, <2>1, EffectKeeps DEF ChangeView, TopologyLayoutTypeOK
<1>3. ASSUME RetryLayout
      PROVE  DrawingInv' /\ (canvas'.nodes = {} \/ UNCHANGED <<canvas, place>>)
  <2>1. /\ retries' \in 0 .. MaxFailures /\ retries' # retries
        /\ report.report + view + retries' = report.report + view + retries + 1
    BY <1>3, <1>n, SMT DEF RetryLayout
  <2>2. structure = Key /\ Key' # Key
    BY <1>3, <1>t, <2>1 DEF RetryLayout, LayoutInv, Key
  <2>3. error' \in BOOLEAN /\ UNCHANGED <<report, view, engine, failures>> /\ LayoutEffect(NoPlaces)
    BY <1>3 DEF RetryLayout
  <2> QED
    BY <1>t, <2>1, <2>2, <2>3, EffectKeeps DEF TopologyLayoutTypeOK
<1>4. ASSUME NEW l \in layouts, LayoutFails(l)
      PROVE  DrawingInv' /\ UNCHANGED <<canvas, place>>
  <2>1. /\ layouts' = layouts \ {l} /\ error' = (error \/ IsCurrent(l))
        /\ UNCHANGED <<report, view, retries, structure, version, engine, canvas, place, saved, anew>>
    BY <1>4 DEF LayoutFails
  <2>2. failures' \in 0 .. MaxFailures /\ error' \in BOOLEAN
    <3>1. failures' \in 0 .. MaxFailures
      BY <1>4, <1>n, <1>t, SMT DEF LayoutFails, TopologyLayoutTypeOK
    <3> QED
      BY <1>t, <2>1, <3>1 DEF TopologyLayoutTypeOK, IsCurrent
  <2>3. TopologyLayoutTypeOK'
    BY <1>t, <2>1, <2>2 DEF TopologyLayoutTypeOK
  <2>4. LayoutInv'
    BY <1>t, <2>1, <2>3 DEF LayoutInv, Key, IsCurrent
  <2>5. LaidOut' /\ ~error' => LaidOut /\ ~error
    BY <2>1 DEF LaidOut, IsCurrent
  <2> QED
    BY <2>1, <2>4, <2>5 DEF DrawingInv, PlacesInv, DrawnIsTheNewest
<1>5. ASSUME WorkerDies \/ UNCHANGED topologyLayoutVars
      PROVE  DrawingInv' /\ UNCHANGED <<canvas, place>>
  <2>1. /\ UNCHANGED <<report, view, retries, structure, version, layouts, canvas, place, saved,
                       error, failures, anew>>
        /\ engine' \in {"worker", "main-thread"}
    BY <1>5, <1>t DEF WorkerDies, RerunPending, topologyLayoutVars, TopologyLayoutTypeOK
  <2> QED
    BY <2>1 DEF DrawingInv, LayoutInv, TopologyLayoutTypeOK, PlacesInv, DrawnIsTheNewest, LaidOut,
        IsCurrent, Key
<1>6. ASSUME NEW n \in Nodes, Drag(n)
      PROVE  /\ DrawingInv' /\ canvas' = canvas
             /\ \A m \in canvas.nodes : place'[m] \in {place[m], ByHand}
  <2>1. /\ n \in canvas.nodes
        /\ place' = [place EXCEPT ![n] = ByHand] /\ saved' = [saved EXCEPT ![n] = ByHand]
        /\ UNCHANGED <<report, view, retries, structure, version, layouts, engine, canvas, error,
                       failures, anew>>
    BY <1>6 DEF Drag
  <2>2. canvas.nodes \subseteq Nodes /\ ByHand \in Places /\ ByHand # 0
    BY <1>t, SMT DEF TopologyLayoutTypeOK, Places, TopologyLayoutAssumption
  <2>3. TopologyLayoutTypeOK'
    BY <1>t, <2>1, <2>2 DEF TopologyLayoutTypeOK
  <2>4. LayoutInv'
    BY <1>t, <2>1, <2>3 DEF LayoutInv, Key, IsCurrent
  <2>5. PlacesInv'
    BY <1>t, <2>1, <2>2 DEF DrawingInv, PlacesInv, TopologyLayoutTypeOK
  <2>6. DrawnIsTheNewest'
    BY <2>1 DEF DrawingInv, DrawnIsTheNewest, LaidOut, IsCurrent
  <2> QED
    BY <1>t, <2>1, <2>2, <2>4, <2>5, <2>6 DEF DrawingInv, TopologyLayoutTypeOK
<1>7. ASSUME NEW l \in layouts, LayoutLands(l)
      PROVE  /\ DrawingInv'
             /\ \A n \in canvas.nodes \cap canvas'.nodes : anew \/ place'[n] = place[n]
  BY <1>7, LandingKeeps
<1> QED
  BY <1>1, <1>2, <1>3, <1>4, <1>5, <1>6, <1>7 DEF TopologyLayoutNext, LayoutStep

\* The layout's variables keep their types: its numbers, which no action bounds,
\* never exceed the reports, choices and retries that ask for one.
THEOREM LayoutTypeCorrect ==
    TopologyLayoutAssumption => (TopologyLayoutSpec => []TopologyLayoutTypeOK)
<1> SUFFICES ASSUME TopologyLayoutAssumption
             PROVE  TopologyLayoutSpec => []TopologyLayoutTypeOK
  OBVIOUS
<1>1. TopologyLayoutInit => DrawingInv
  BY DrawingInit
<1>2. DrawingInv /\ [TopologyLayoutNext]_topologyLayoutVars => DrawingInv'
  BY DrawingStep
<1>3. DrawingInv => TopologyLayoutTypeOK
  BY DEF DrawingInv, LayoutInv
<1> QED
  BY <1>1, <1>2, <1>3, PTL DEF TopologyLayoutSpec

\* Results may come in any order: what is drawn once the newest has come is the
\* topology and the view of the page.
THEOREM DrawnIsTheNewestHolds ==
    TopologyLayoutAssumption => (TopologyLayoutSpec => []DrawnIsTheNewest)
<1> SUFFICES ASSUME TopologyLayoutAssumption
             PROVE  TopologyLayoutSpec => []DrawnIsTheNewest
  OBVIOUS
<1>1. TopologyLayoutInit => DrawingInv
  BY DrawingInit
<1>2. DrawingInv /\ [TopologyLayoutNext]_topologyLayoutVars => DrawingInv'
  BY DrawingStep
<1>3. DrawingInv => DrawnIsTheNewest
  BY DEF DrawingInv
<1> QED
  BY <1>1, <1>2, <1>3, PTL DEF TopologyLayoutSpec

\* No layout moves a node that was drawn, and none undoes a drag, unless places
\* were given up.
THEOREM NodesKeepTheirPlaceHolds ==
    TopologyLayoutAssumption => (TopologyLayoutSpec => NodesKeepTheirPlace)
<1> SUFFICES ASSUME TopologyLayoutAssumption
             PROVE  TopologyLayoutSpec => NodesKeepTheirPlace
  OBVIOUS
<1>1. TopologyLayoutInit => DrawingInv
  BY DrawingInit
<1>2. DrawingInv /\ [TopologyLayoutNext]_topologyLayoutVars
        => DrawingInv' /\ (\A n \in canvas.nodes \cap canvas'.nodes :
                              anew \/ place'[n] \in {place[n], ByHand})
  BY DrawingStep
<1> QED
  BY <1>1, <1>2, PTL DEF TopologyLayoutSpec, NodesKeepTheirPlace

-----------------------------------------------------------------------------
(* DesktopUpdate. *)

\* While a download runs no error is kept: StartDownload has cleared it, and
\* only the end of the download, or of a later Apply, sets one.
NoErrorMeanwhile == state = "downloading" => err = 0

\* None of the three is inductive alone: the attempt whose file becomes ready
\* is the last one because no other download runs, and it is ready without an
\* error because there was none while it ran.
UpdateInv ==
    /\ DesktopUpdateTypeOK
    /\ OneDownload
    /\ OutcomeIsOfTheLastAttempt
    /\ NoErrorMeanwhile

\* The records the page starts from are of their types.
LEMMA NothingYet ==
    /\ 0 \in 0 .. MaxAttempts /\ 0 \in 0 .. MaxApplies /\ 0 \in 0 .. MaxReloads
    /\ NoStatus \in Status
    /\ NoPoll \in [stage : {"idle", "asked", "answered"}, got : Status]
    /\ NoStart \in [stage : {"idle", "asked", "accepted", "refused"}, of : 0 .. MaxAttempts]
<1>1. 0 \in 0 .. MaxAttempts /\ 0 \in 0 .. MaxApplies /\ 0 \in 0 .. MaxReloads
    BY DesktopUpdateAssumption DEF DesktopUpdateAssumption
<1>2. NoStatus \in Status BY <1>1 DEF NoStatus, Status
<1>3. QED BY <1>1, <1>2 DEF NoPoll, NoStart

\* The Updater begins idle, with nothing downloaded.
LEMMA UpdateInit == DesktopUpdateInit => UpdateInv
<1> SUFFICES ASSUME DesktopUpdateInit PROVE UpdateInv
    OBVIOUS
<1>1. DesktopUpdateTypeOK
    <2>1. start \in [stage : {"idle", "asked", "accepted", "refused"}, of : 0 .. MaxAttempts]
        BY NothingYet DEF DesktopUpdateInit
    <2>2. QED BY <2>1, NothingYet DEF DesktopUpdateInit, DesktopUpdateTypeOK, States
<1>2. OneDownload /\ OutcomeIsOfTheLastAttempt /\ NoErrorMeanwhile
    BY DEF DesktopUpdateInit, OneDownload, OutcomeIsOfTheLastAttempt, NoErrorMeanwhile
<1>3. QED BY <1>1, <1>2 DEF UpdateInv

\* A step of the page that leaves the Updater alone keeps what is said of it.
LEMMA PageStepsKeepTheUpdater ==
    ASSUME UpdateInv, DesktopUpdateTypeOK', UNCHANGED updaterVars
    PROVE  UpdateInv'
BY DEF UpdateInv, updaterVars, OneDownload, OutcomeIsOfTheLastAttempt, NoErrorMeanwhile

\* Every step of the Updater and of the page preserves the invariant.
LEMMA UpdateStep == UpdateInv /\ [DesktopUpdateNext]_desktopUpdateVars => UpdateInv'
<1> SUFFICES ASSUME UpdateInv, [DesktopUpdateNext]_desktopUpdateVars
             PROVE  UpdateInv'
    OBVIOUS
<1> USE DesktopUpdateAssumption DEF DesktopUpdateAssumption
<1>1. DesktopUpdateTypeOK BY DEF UpdateInv
<1>2. CASE ServeStart /\ StartDownload
    <2>1. DesktopUpdateTypeOK'
        BY <1>1, <1>2, NothingYet DEF StartDownload, MayStart, Forget, DesktopUpdateTypeOK,
            Attempts, States, pageHistory
    <2>2. QED
        BY <1>1, <1>2, <2>1 DEF StartDownload, MayStart, Forget, UpdateInv, OneDownload,
            OutcomeIsOfTheLastAttempt, NoErrorMeanwhile, DesktopUpdateTypeOK, Attempts
<1>3. CASE ServeStart /\ RefuseDownload
    <2>1. DesktopUpdateTypeOK'
        BY <1>1, <1>3, NothingYet DEF RefuseDownload, DesktopUpdateTypeOK, updaterVars, pageHistory
    <2>2. UNCHANGED updaterVars BY <1>3 DEF RefuseDownload
    <2>3. QED BY <2>1, <2>2, PageStepsKeepTheUpdater
<1>4. ASSUME NEW a \in Attempts, DownloadAdvances(a) PROVE UpdateInv'
    <2>1. DesktopUpdateTypeOK'
        BY <1>1, <1>4 DEF DownloadAdvances, DesktopUpdateTypeOK, pageVars, pageHistory
    <2>2. QED
        BY <1>1, <1>4, <2>1 DEF DownloadAdvances, UpdateInv, OneDownload, OutcomeIsOfTheLastAttempt,
            NoErrorMeanwhile, DesktopUpdateTypeOK
<1>5. ASSUME NEW a \in Attempts, DownloadFails(a) PROVE UpdateInv'
    <2>1. DesktopUpdateTypeOK'
        BY <1>1, <1>5 DEF DownloadFails, DesktopUpdateTypeOK, pageVars, pageHistory, Attempts,
            States
    <2>2. a = attempt BY <1>5 DEF DownloadFails, UpdateInv, OneDownload
    <2>3. QED
        BY <1>1, <1>5, <2>1, <2>2 DEF DownloadFails, UpdateInv, OneDownload,
            OutcomeIsOfTheLastAttempt, NoErrorMeanwhile, DesktopUpdateTypeOK
<1>6. ASSUME NEW a \in Attempts, DownloadIsReady(a) PROVE UpdateInv'
    <2>1. DesktopUpdateTypeOK'
        BY <1>1, <1>6 DEF DownloadIsReady, DesktopUpdateTypeOK, pageVars, pageHistory, Attempts,
            States
    <2>2. a = attempt /\ err = 0
        BY <1>6 DEF DownloadIsReady, UpdateInv, OneDownload, NoErrorMeanwhile
    <2>3. QED
        BY <1>1, <1>6, <2>1, <2>2 DEF DownloadIsReady, UpdateInv, OneDownload,
            OutcomeIsOfTheLastAttempt, NoErrorMeanwhile, DesktopUpdateTypeOK
<1>7. CASE ServeApply
    <2>1. DesktopUpdateTypeOK'
        BY <1>1, <1>7 DEF ServeApply, DesktopUpdateTypeOK, pageHistory, States
    <2>2. QED
        BY <1>1, <1>7, <2>1 DEF ServeApply, UpdateInv, OneDownload, OutcomeIsOfTheLastAttempt,
            NoErrorMeanwhile
<1>8. CASE ApplySucceeds
    <2>1. DesktopUpdateTypeOK'
        BY <1>1, <1>8 DEF ApplySucceeds, DesktopUpdateTypeOK, pageVars, pageHistory, States
    <2>2. QED
        BY <1>1, <1>8, <2>1 DEF ApplySucceeds, UpdateInv, OneDownload, OutcomeIsOfTheLastAttempt,
            NoErrorMeanwhile
<1>9. CASE ApplyFails
    <2>1. DesktopUpdateTypeOK'
        BY <1>1, <1>9 DEF ApplyFails, DesktopUpdateTypeOK, pageVars, pageHistory, States
    <2>2. QED
        BY <1>1, <1>9, <2>1 DEF ApplyFails, UpdateInv, OneDownload, OutcomeIsOfTheLastAttempt,
            NoErrorMeanwhile
<1>10. CASE \/ ClickStart \/ StartAnswered \/ PollAsks \/ PollIsServed \/ PollArrives
            \/ ClickApply \/ Reload
    <2>1. UNCHANGED updaterVars
        BY <1>10 DEF ClickStart, StartAnswered, PollAsks, PollIsServed, PollArrives, ClickApply,
            Reload
    <2>2. DesktopUpdateTypeOK'
        <3> USE <1>1 DEF DesktopUpdateTypeOK, updaterVars, pageHistory
        <3>1. CASE ClickStart BY <3>1 DEF ClickStart
        <3>2. CASE StartAnswered BY <3>2, NothingYet DEF StartAnswered, StartPolling
        <3>3. CASE PollAsks BY <3>3 DEF PollAsks
        <3>4. CASE PollIsServed BY <3>4 DEF PollIsServed, Status
        <3>5. CASE PollArrives BY <3>5, NothingYet DEF PollArrives
        <3>6. CASE ClickApply BY <3>6 DEF ClickApply
        <3>7. CASE Reload
            <4>1. reloads' \in 0 .. MaxReloads BY <3>7 DEF Reload
            <4>2. QED BY <3>7, <4>1, NothingYet DEF Reload
        <3>8. QED BY <1>10, <3>1, <3>2, <3>3, <3>4, <3>5, <3>6, <3>7
    <2>3. QED BY <2>1, <2>2, PageStepsKeepTheUpdater
<1>11. CASE UNCHANGED desktopUpdateVars
    <2>1. UNCHANGED updaterVars BY <1>11 DEF desktopUpdateVars
    <2>2. DesktopUpdateTypeOK'
        BY <1>1, <1>11 DEF desktopUpdateVars, updaterVars, pageVars, pageHistory,
            DesktopUpdateTypeOK
    <2>3. QED BY <2>1, <2>2, PageStepsKeepTheUpdater
<1>12. QED
    BY <1>2, <1>3, <1>4, <1>5, <1>6, <1>7, <1>8, <1>9, <1>10, <1>11
    DEF DesktopUpdateNext, ServeStart, DownloadStep

\* Inv holds throughout.
LEMMA UpdateInvHolds == DesktopUpdateSpec => []UpdateInv
BY UpdateInit, UpdateStep, PTL DEF DesktopUpdateSpec

\* The variables keep their types.
THEOREM DesktopUpdateTypes == DesktopUpdateSpec => []DesktopUpdateTypeOK
<1>1. UpdateInv => DesktopUpdateTypeOK BY DEF UpdateInv
<1>2. QED BY <1>1, UpdateInvHolds, PTL

\* However many downloads are started, refused, retried and reloaded over, no
\* two run at once (StartDownload).
THEOREM OneDownloadAtATime == DesktopUpdateSpec => []OneDownload
<1>1. UpdateInv => OneDownload BY DEF UpdateInv
<1>2. QED BY <1>1, UpdateInvHolds, PTL

\* The file that Apply opens is the one the last attempt completed, and the
\* error Status reports is the last attempt's (Apply, Status).
THEOREM LastAttemptDecides == DesktopUpdateSpec => []OutcomeIsOfTheLastAttempt
<1>1. UpdateInv => OutcomeIsOfTheLastAttempt BY DEF UpdateInv
<1>2. QED BY <1>1, UpdateInvHolds, PTL
=============================================================================

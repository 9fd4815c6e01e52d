-------------------------- MODULE ClusterViewProofs --------------------------
(***************************************************************************)
(* Proofs about what the program knows of a cluster.                       *)
(*                                                                         *)
(* The cached topology (TopologyCache), for any number of builders,        *)
(* changes and switches: a settled cluster is never left with neither a    *)
(* topology nor a mark to build one, and without overlapping builds the    *)
(* mark covers every change.                                               *)
(*                                                                         *)
(* The timeline's recorders (TimelineRecording), for any number of         *)
(* connections, objects and revisions: events are of the cluster they are  *)
(* tagged with and join the right predecessor, and creations are recorded. *)
(***************************************************************************)
EXTENDS TopologyCache, TimelineRecording, TLAPS

-----------------------------------------------------------------------------
(* Types. *)

\* The cache is the last made except while a switch is down, and a cache is
\* left to be made for the switch under way.
SwitchInv ==
    /\ made <= switches + 1
    /\ switching = "down" => made <= switches
    /\ cache = IF switching = "down" THEN NoCache ELSE made

\* The functions are over the builders.
BuiltOnBuilders == built = [b \in Builders |-> built[b]]

TypeInv == TopologyCacheTypeOK /\ SwitchInv /\ BuiltOnBuilders

\* The topology of the cache in use as it is now.
Current == [cache |-> cache, version |-> version[cache]]

\* Some builder will leave a topology or a mark, or a switch is under way.
BuildPromised ==
    \E b \in Builders : place[b] \in {"checked", "build", "store", "rebuild", "failed"}

ComesBackInv ==
    \/ switching # "no" \/ owed \/ scheduled \/ dirty \/ topology # NoTopology
    \/ BuildPromised

\* Some builder will leave a topology that misses nothing, or a mark.
CurrentPromised ==
    \E b \in Builders :
        \/ place[b] \in {"checked", "build", "rebuild", "failed"}
        \/ place[b] = "store" /\ built[b] = Current

\* A builder about to store what is out of date by now is followed by a
\* broadcast that has not begun.
StaleIsOwed ==
    \A b \in Builders : place[b] = "store" /\ built[b] # Current => owed \/ scheduled

CoversInv ==
    ~overlapped /\ switching = "no" =>
        /\ owed \/ scheduled \/ dirty \/ topology = Current \/ CurrentPromised
        /\ StaleIsOwed

LEMMA InitTypes == TopologyCacheAssumption /\ TopologyCacheInit => TypeInv
<1> SUFFICES ASSUME TopologyCacheAssumption, TopologyCacheInit PROVE TypeInv
  OBVIOUS
<1>1. 1 \in Caches /\ 0 \in Versions
  BY SMT DEF TopologyCacheAssumption, Caches, Versions
<1>2. TopologyCacheTypeOK
  <2>1. /\ place \in [Builders -> Places]
        /\ \A b \in Builders : place[b] = "idle" /\ built[b] = NoTopology
    BY DEF TopologyCacheInit, Places
  <2>2. switches \in 0 .. MaxSwitches
    BY SMT DEF TopologyCacheInit, TopologyCacheAssumption
  <2> QED BY <1>1, <2>1, <2>2 DEF TopologyCacheInit, TopologyCacheTypeOK
<1>3. SwitchInv
  BY SMT DEF TopologyCacheInit, SwitchInv
<1>4. BuiltOnBuilders
  BY DEF TopologyCacheInit, BuiltOnBuilders
<1> QED BY <1>2, <1>3, <1>4 DEF TypeInv

\* A step of a builder moves it alone; a build reads the cache in use.
BuilderStep(b) ==
    \/ b \in Broadcasters /\ (BroadcastBegins(b) \/ BroadcastMarksDirty(b) \/ BroadcastBuilds(b))
    \/ Build(b) \/ Store(b)
    \/ b \in Readers /\ (ReaderFindsDirty(b) \/ ReaderPassesGate(b) \/ ReaderFails(b))

\* The steps of the cluster, the watcher and the callbacks.
EnvironmentStep ==
    \/ Change \/ ClientsComeOrGo \/ DeferredReady \/ WarmupEnds
    \/ SwitchDown \/ SwitchUp \/ SwitchClears \/ SwitchSchedules

LEMMA NextSteps ==
    ASSUME [TopologyCacheNext]_topologyCacheVars
    PROVE  \/ EnvironmentStep \/ UNCHANGED topologyCacheVars
           \/ \E b \in Builders : BuilderStep(b)
BY DEF TopologyCacheNext, EnvironmentStep, BuilderStep, Builders

LEMMA EnvironmentStepTypes ==
    ASSUME TopologyCacheAssumption, TypeInv, EnvironmentStep
    PROVE  TypeInv' /\ UNCHANGED <<place, built>>
<1>0. /\ MaxSwitches \in Nat /\ MaxChanges \in Nat /\ switches \in Nat /\ made \in Nat
      /\ switches <= MaxSwitches
  BY SMT DEF TopologyCacheAssumption, TypeInv, TopologyCacheTypeOK, Caches
<1>1. UNCHANGED <<place, built>>
  BY DEF EnvironmentStep, Change, ClientsComeOrGo, DeferredReady, WarmupEnds, SwitchDown, SwitchUp,
         SwitchClears, SwitchSchedules, envVars
<1>2. BuiltOnBuilders'
  BY <1>1 DEF TypeInv, BuiltOnBuilders
<1>3. /\ place' \in [Builders -> Places]
      /\ \A b \in Builders : built'[b] \in (IF place'[b] = "store" THEN Topologies ELSE {NoTopology})
  BY <1>1 DEF TypeInv, TopologyCacheTypeOK
<1>4. TopologyCacheTypeOK' /\ SwitchInv' => TypeInv' /\ UNCHANGED <<place, built>>
  BY <1>1, <1>2 DEF TypeInv
<1> USE DEF clusterVars, envVars, wantVars, topoVars
<1>5. CASE Change
  <2>1. cache \in Caches /\ version[cache] + 1 \in Versions
    BY <1>0, <1>5, SMT DEF Change, NoCache, Versions, TypeInv, TopologyCacheTypeOK
  <2>2. version' \in [Caches -> Versions]
    BY <1>5, <2>1 DEF Change, TypeInv, TopologyCacheTypeOK
  <2>3. TopologyCacheTypeOK'
    BY <1>3, <1>5, <2>2 DEF Change, TypeInv, TopologyCacheTypeOK
  <2>4. SwitchInv'
    BY <1>5 DEF Change, TypeInv, SwitchInv
  <2> QED BY <1>4, <2>3, <2>4
<1>6. CASE ClientsComeOrGo \/ DeferredReady \/ WarmupEnds
  <2>1. TopologyCacheTypeOK'
    <3>1. /\ clients' \in {clients, ~clients} /\ warm' \in {warm, FALSE}
          /\ scheduled' \in {scheduled, TRUE}
          /\ UNCHANGED <<switching, switches, made, cache, version, owed, topology, dirty,
                         overlapped>>
      BY <1>6 DEF ClientsComeOrGo, DeferredReady, WarmupEnds
    <3>2. clients' \in BOOLEAN /\ warm' \in BOOLEAN /\ scheduled' \in BOOLEAN
      BY <3>1 DEF TypeInv, TopologyCacheTypeOK
    <3> QED
      BY <1>3, <3>1, <3>2 DEF TypeInv, TopologyCacheTypeOK
  <2>2. SwitchInv'
    BY <1>6 DEF ClientsComeOrGo, DeferredReady, WarmupEnds, TypeInv, SwitchInv
  <2> QED BY <1>4, <2>1, <2>2
<1>7. CASE SwitchDown
  <2>1. /\ switching' = "down" /\ switches' = switches + 1 /\ switches < MaxSwitches /\ cache' = NoCache
        /\ UNCHANGED <<made, version, clients, warm, owed, scheduled, topology, dirty>>
        /\ overlapped' \in BOOLEAN
    BY <1>7 DEF SwitchDown, Noting
  <2>2. switches' \in 0 .. MaxSwitches /\ made <= switches' + 1 /\ made <= switches'
    BY <1>0, <2>1, SMT DEF TypeInv, SwitchInv
  <2>3. TopologyCacheTypeOK'
    BY <1>3, <2>1, <2>2 DEF TypeInv, TopologyCacheTypeOK
  <2>4. SwitchInv'
    BY <2>1, <2>2 DEF SwitchInv
  <2> QED BY <1>4, <2>3, <2>4
<1>8. CASE SwitchUp
  <2>1. /\ switching = "down" /\ switching' = "up" /\ made' = made + 1 /\ cache' = made'
        /\ UNCHANGED <<switches, version, clients, warm, owed, scheduled, topology, dirty, overlapped>>
    BY <1>8 DEF SwitchUp
  <2>2. made' \in Caches /\ made' <= switches + 1
    BY <1>0, <2>1, SMT DEF Caches, TypeInv, SwitchInv
  <2>3. TopologyCacheTypeOK'
    BY <1>3, <2>1, <2>2 DEF TypeInv, TopologyCacheTypeOK
  <2>4. SwitchInv'
    BY <2>1, <2>2 DEF SwitchInv
  <2> QED BY <1>4, <2>3, <2>4
<1>9. CASE SwitchClears
  <2>0. owed' \in BOOLEAN
    <3>1. CASE version[cache] > 0
      BY <1>9, <3>1 DEF SwitchClears
    <3>2. CASE ~(version[cache] > 0)
      BY <1>9, <3>2 DEF SwitchClears
    <3> QED BY <3>1, <3>2
  <2>1. owed' \in BOOLEAN /\ dirty' \in BOOLEAN /\ warm' \in BOOLEAN /\ topology' = NoTopology
        /\ switching' = "cleared"
        /\ UNCHANGED <<switches, made, cache, version, clients, scheduled, overlapped>>
    BY <1>9, <2>0 DEF SwitchClears
  <2>2. TopologyCacheTypeOK'
    BY <1>3, <2>1 DEF TypeInv, TopologyCacheTypeOK
  <2>3. SwitchInv'
    BY <1>9, <2>1 DEF SwitchClears, TypeInv, SwitchInv
  <2> QED BY <1>4, <2>2, <2>3
<1>10. CASE SwitchSchedules
  <2>1. TopologyCacheTypeOK'
    BY <1>3, <1>10 DEF SwitchSchedules, TypeInv, TopologyCacheTypeOK
  <2>2. SwitchInv'
    BY <1>10 DEF SwitchSchedules, TypeInv, SwitchInv
  <2> QED BY <1>4, <2>1, <2>2
<1> QED BY <1>1, <1>5, <1>6, <1>7, <1>8, <1>9, <1>10 DEF EnvironmentStep

\* A builder's step leaves the cluster, and what other builders do, alone.
LEMMA BuilderStepIsItsOwn ==
    ASSUME TypeInv, NEW b \in Builders, BuilderStep(b)
    PROVE  /\ UNCHANGED envVars
           /\ \A a \in Builders : a # b => place'[a] = place[a] /\ built'[a] = built[a]
<1>0. place \in [Builders -> Places] /\ BuiltOnBuilders
  BY DEF TypeInv, TopologyCacheTypeOK
<1> QED
  BY <1>0 DEF BuilderStep, BroadcastBegins, BroadcastMarksDirty, BroadcastBuilds, Build, Store,
              ReaderFindsDirty, ReaderPassesGate, ReaderFails, Go, BuiltOnBuilders

LEMMA BuilderStepTypes ==
    ASSUME TopologyCacheAssumption, TypeInv, NEW b \in Builders, BuilderStep(b)
    PROVE  TypeInv'
<1>0. /\ place \in [Builders -> Places] /\ BuiltOnBuilders
      /\ \A a \in Builders : built[a] \in (IF place[a] = "store" THEN Topologies ELSE {NoTopology})
  BY DEF TypeInv, TopologyCacheTypeOK
<1>1. UNCHANGED envVars
  BY BuilderStepIsItsOwn
<1>2. SwitchInv'
  BY <1>1 DEF TypeInv, SwitchInv, envVars, clusterVars
<1>3. /\ place' \in [Builders -> Places] /\ BuiltOnBuilders'
      /\ owed' \in BOOLEAN /\ scheduled' \in BOOLEAN /\ dirty' \in BOOLEAN /\ overlapped' \in BOOLEAN
      /\ topology' \in Topologies \cup {NoTopology}
      /\ built'[b] \in (IF place'[b] = "store" THEN Topologies ELSE {NoTopology})
  <2> USE DEF TypeInv, TopologyCacheTypeOK, Go, Places, wantVars, topoVars, BuiltOnBuilders
  <2>1. CASE BroadcastBegins(b)
    BY <1>0, <2>1 DEF BroadcastBegins, Idle, Noting
  <2>2. CASE BroadcastMarksDirty(b)
    BY <1>0, <2>2 DEF BroadcastMarksDirty
  <2>3. CASE BroadcastBuilds(b)
    BY <1>0, <2>3 DEF BroadcastBuilds
  <2>4. CASE Build(b)
    <3>1. CASE cache = NoCache
      BY <1>0, <2>4, <3>1 DEF Build
    <3>2. CASE cache # NoCache
      <4>1. [cache |-> cache, version |-> version[cache]] \in Topologies
        BY <3>2 DEF Topologies
      <4> QED BY <1>0, <2>4, <3>2, <4>1 DEF Build
    <3> QED BY <3>1, <3>2
  <2>5. CASE Store(b)
    BY <1>0, <2>5 DEF Store
  <2>6. CASE ReaderFindsDirty(b)
    BY <1>0, <2>6 DEF ReaderFindsDirty, Idle, Noting
  <2>7. CASE ReaderPassesGate(b)
    BY <1>0, <2>7 DEF ReaderPassesGate
  <2>8. CASE ReaderFails(b)
    BY <1>0, <2>8 DEF ReaderFails
  <2> QED BY <2>1, <2>2, <2>3, <2>4, <2>5, <2>6, <2>7, <2>8 DEF BuilderStep
<1>4. \A a \in Builders : built'[a] \in (IF place'[a] = "store" THEN Topologies ELSE {NoTopology})
  BY <1>0, <1>3, BuilderStepIsItsOwn
<1> QED
  BY <1>1, <1>2, <1>3, <1>4 DEF TypeInv, TopologyCacheTypeOK, envVars, clusterVars

LEMMA TypeStep ==
    ASSUME TopologyCacheAssumption, TypeInv, [TopologyCacheNext]_topologyCacheVars
    PROVE  TypeInv'
<1>1. CASE UNCHANGED topologyCacheVars
  BY <1>1 DEF TypeInv, TopologyCacheTypeOK, SwitchInv, BuiltOnBuilders, topologyCacheVars,
              envVars, clusterVars, wantVars, topoVars
<1> QED BY <1>1, NextSteps, EnvironmentStepTypes, BuilderStepTypes

\* Types; no topology counts as built for a builder that is not about to store
\* one, and switches do not make more caches than there are numbers for.
THEOREM TopologyTypeCorrect ==
    TopologyCacheAssumption /\ TopologyCacheSpec => []TopologyCacheTypeOK
<1> SUFFICES ASSUME TopologyCacheAssumption
             PROVE  TopologyCacheSpec => []TopologyCacheTypeOK
  BY DEF TopologyCacheAssumption
<1>1. TopologyCacheInit => TypeInv
  BY InitTypes
<1>2. TypeInv /\ [TopologyCacheNext]_topologyCacheVars => TypeInv'
  BY TypeStep
<1>3. TypeInv => TopologyCacheTypeOK
  BY DEF TypeInv
<1> QED BY <1>1, <1>2, <1>3, PTL DEF TopologyCacheSpec

-----------------------------------------------------------------------------
(* A topology or a mark. *)

LEMMA ComesBackStep ==
    ASSUME TopologyCacheAssumption, TypeInv, ComesBackInv, [TopologyCacheNext]_topologyCacheVars
    PROVE  ComesBackInv'
<1> USE DEF ComesBackInv
<1>0. BuildPromised /\ UNCHANGED place => BuildPromised'
  BY DEF BuildPromised
<1>1. CASE UNCHANGED topologyCacheVars
  BY <1>0, <1>1 DEF topologyCacheVars, envVars, clusterVars, wantVars, topoVars
<1>2. CASE EnvironmentStep
  BY <1>0, <1>2 DEF EnvironmentStep, Change, ClientsComeOrGo, DeferredReady, WarmupEnds, SwitchDown,
         SwitchUp, SwitchClears, SwitchSchedules, envVars, clusterVars, wantVars, topoVars
<1>3. ASSUME NEW b \in Builders, BuilderStep(b) PROVE ComesBackInv'
  <2>0. /\ place \in [Builders -> Places] /\ built[b] \in (IF place[b] = "store" THEN Topologies ELSE {NoTopology})
        /\ NoTopology \notin Topologies /\ (cache = NoCache => switching = "down")
    <3>1. Caches \subseteq Nat /\ Versions \subseteq Nat
      BY SMT DEF TopologyCacheAssumption, Caches, Versions
    <3>2. NoTopology \notin Topologies
      BY <3>1 DEF TopologyCacheAssumption, Topologies
    <3>3. cache = NoCache => switching = "down"
      BY SMT DEF TypeInv, TopologyCacheTypeOK, SwitchInv, NoCache, Caches, TopologyCacheAssumption
    <3> QED BY <3>2, <3>3 DEF TypeInv, TopologyCacheTypeOK
  <2>1. switching' = switching
    BY <1>3, BuilderStepIsItsOwn DEF envVars, clusterVars
  <2>2. \A a \in Builders : a # b => place'[a] = place[a]
    BY <1>3, BuilderStepIsItsOwn
  <2>3. place'[b] \in {"checked", "build", "store", "rebuild", "failed"} => BuildPromised'
    BY DEF BuildPromised
  <2>4. BuildPromised /\ place[b] \notin {"checked", "build", "store", "rebuild", "failed"} => BuildPromised'
    BY <2>2 DEF BuildPromised
  <2> USE DEF Go, wantVars, topoVars
  <2>5. CASE BroadcastBegins(b)
    BY <2>0, <2>1, <2>3, <2>5 DEF BroadcastBegins
  <2>6. CASE BroadcastMarksDirty(b)
    BY <2>6 DEF BroadcastMarksDirty
  <2>7. CASE BroadcastBuilds(b)
    BY <2>0, <2>3, <2>7 DEF BroadcastBuilds
  <2>8. CASE Build(b)
    BY <2>0, <2>1, <2>3, <2>8 DEF Build
  <2>9. CASE Store(b)
    BY <2>0, <2>9 DEF Store
  <2>10. CASE ReaderFindsDirty(b)
    BY <2>10 DEF ReaderFindsDirty
  <2>11. CASE ReaderPassesGate(b)
    BY <2>0, <2>1, <2>3, <2>4, <2>11 DEF ReaderPassesGate
  <2>12. CASE ReaderFails(b)
    BY <2>12 DEF ReaderFails
  <2> QED BY <1>3, <2>5, <2>6, <2>7, <2>8, <2>9, <2>10, <2>11, <2>12 DEF BuilderStep
<1> QED BY <1>1, <1>2, <1>3, NextSteps

\* However builds, readers and switches overlap, a connected cluster does not
\* end up with neither a topology nor a mark to build one: who takes the mark
\* stores a topology or puts the mark back, and a switch that forgets both
\* schedules a broadcast.
THEOREM TopologyComesBackHolds ==
    TopologyCacheAssumption /\ TopologyCacheSpec => []TopologyComesBack
<1> SUFFICES ASSUME TopologyCacheAssumption
             PROVE  TopologyCacheSpec => []TopologyComesBack
  BY DEF TopologyCacheAssumption
<1>1. TopologyCacheInit => TypeInv /\ ComesBackInv
  BY InitTypes DEF TopologyCacheInit, ComesBackInv
<1>2. TypeInv /\ ComesBackInv /\ [TopologyCacheNext]_topologyCacheVars => (TypeInv /\ ComesBackInv)'
  BY TypeStep, ComesBackStep
<1>3. TypeInv /\ ComesBackInv => TopologyComesBack
  BY DEF ComesBackInv, BuildPromised, TopologyComesBack, Settled, AllIdle, Idle
<1> QED BY <1>1, <1>2, <1>3, PTL DEF TopologyCacheSpec

-----------------------------------------------------------------------------
(* The mark covers every change. *)

LEMMA CoversEnvironmentStep ==
    ASSUME TypeInv, CoversInv, EnvironmentStep \/ UNCHANGED topologyCacheVars
    PROVE  CoversInv'
<1> USE DEF CoversInv, clusterVars, envVars, wantVars, topoVars
<1>1. CASE Change
  BY <1>1 DEF Change, StaleIsOwed
<1>2. CASE ClientsComeOrGo \/ DeferredReady \/ WarmupEnds \/ UNCHANGED topologyCacheVars
  <2>1. /\ UNCHANGED <<switching, cache, version, owed, topology, dirty, place, built, overlapped>>
        /\ scheduled => scheduled'
    BY <1>2 DEF ClientsComeOrGo, DeferredReady, WarmupEnds, topologyCacheVars
  <2>2. Current' = Current
    BY <2>1 DEF Current
  <2>3. CurrentPromised => CurrentPromised'
    BY <2>1, <2>2 DEF CurrentPromised
  <2>4. StaleIsOwed => StaleIsOwed'
    BY <2>1, <2>2 DEF StaleIsOwed
  <2> QED BY <2>1, <2>2, <2>3, <2>4
<1>3. CASE SwitchDown \/ SwitchUp \/ SwitchClears
  BY <1>3 DEF SwitchDown, SwitchUp, SwitchClears
<1>4. CASE SwitchSchedules
  BY <1>4 DEF SwitchSchedules, StaleIsOwed
<1> QED BY <1>1, <1>2, <1>3, <1>4 DEF EnvironmentStep

\* A broadcast begins, without overlap, when nobody is about to store; what is
\* stored is current unless a broadcast is owed.
LEMMA CoversBuilderStep ==
    ASSUME TopologyCacheAssumption, TypeInv, CoversInv, NEW b \in Builders, BuilderStep(b)
    PROVE  CoversInv'
<1>0. /\ place \in [Builders -> Places] /\ BuiltOnBuilders
      /\ UNCHANGED <<switching, cache, version>>
      /\ \A a \in Builders : a # b => place'[a] = place[a] /\ built'[a] = built[a]
  BY BuilderStepIsItsOwn DEF TypeInv, TopologyCacheTypeOK, envVars, clusterVars
<1>1. Current' = Current
  BY <1>0 DEF Current
<1>2. switching = "no" => cache # NoCache
  BY SMT DEF TypeInv, TopologyCacheTypeOK, SwitchInv, NoCache, Caches, TopologyCacheAssumption
<1>3. SUFFICES ASSUME ~overlapped', switching = "no"
      PROVE  /\ owed' \/ scheduled' \/ dirty' \/ topology' = Current \/ CurrentPromised'
             /\ StaleIsOwed'
  BY <1>0, <1>1 DEF CoversInv
<1>4. ~overlapped
  BY <1>3 DEF BuilderStep, BroadcastBegins, BroadcastMarksDirty, BroadcastBuilds, Build, Store,
              ReaderFindsDirty, ReaderPassesGate, ReaderFails, Noting
<1>5. /\ owed \/ scheduled \/ dirty \/ topology = Current \/ CurrentPromised
      /\ StaleIsOwed
  BY <1>3, <1>4 DEF CoversInv
\* What is promised by the others stays promised.
<1>6. /\ place'[b] \in {"checked", "build", "rebuild", "failed"} => CurrentPromised'
      /\ place'[b] = "store" /\ built'[b] = Current => CurrentPromised'
      /\ CurrentPromised /\ ~(place[b] \in {"checked", "build", "rebuild", "failed", "store"})
             => CurrentPromised'
  BY <1>0, <1>1 DEF CurrentPromised
<1>7. ASSUME UNCHANGED <<owed, scheduled>>, place'[b] = "store" => built'[b] = Current
      PROVE  StaleIsOwed'
  BY <1>0, <1>1, <1>5, <1>7 DEF StaleIsOwed
<1> USE DEF Go, wantVars, topoVars
<1>8. CASE BroadcastBegins(b)
  <2>1. place'[b] = "checked" /\ AllIdle
    BY <1>0, <1>2, <1>3, <1>8 DEF BroadcastBegins, Noting
  <2>2. StaleIsOwed'
    BY <1>0, <2>1 DEF StaleIsOwed, AllIdle, Idle
  <2> QED BY <1>6, <2>1, <2>2
<1>9. CASE BroadcastMarksDirty(b)
  BY <1>0, <1>7, <1>9 DEF BroadcastMarksDirty
<1>10. CASE BroadcastBuilds(b)
  BY <1>0, <1>6, <1>7, <1>10 DEF BroadcastBuilds
<1>11. CASE Build(b)
  <2>1. place'[b] = "store" /\ built'[b] = Current /\ UNCHANGED <<owed, scheduled>>
    BY <1>0, <1>2, <1>3, <1>11 DEF Build, Current, BuiltOnBuilders
  <2> QED BY <1>6, <1>7, <2>1
<1>12. CASE Store(b)
  <2>1. /\ place[b] = "store" /\ place'[b] = "idle" /\ topology' = built[b]
        /\ UNCHANGED <<owed, scheduled>>
    BY <1>0, <1>12 DEF Store
  <2>2. owed \/ scheduled \/ topology' = Current
    BY <1>5, <2>1 DEF StaleIsOwed
  <2> QED BY <1>7, <2>1, <2>2
<1>13. CASE ReaderFindsDirty(b)
  BY <1>0, <1>7, <1>13 DEF ReaderFindsDirty
<1>14. CASE ReaderPassesGate(b)
  <2>1. /\ place[b] = "gate" /\ UNCHANGED <<owed, scheduled, topology>>
        /\ place'[b] = IF dirty THEN "rebuild" ELSE "idle"
    BY <1>0, <1>14 DEF ReaderPassesGate
  <2> QED BY <1>5, <1>6, <1>7, <2>1
<1>15. CASE ReaderFails(b)
  BY <1>0, <1>7, <1>15 DEF ReaderFails
<1> QED
  BY <1>8, <1>9, <1>10, <1>11, <1>12, <1>13, <1>14, <1>15 DEF BuilderStep

\* cachedTopologyDirty is "true when changes occurred but topology not yet
\* rebuilt": while builds do not overlap, a settled topology that misses a
\* change is marked, so that the next reader rebuilds it.
THEOREM DirtyCoversChangesHolds ==
    TopologyCacheAssumption /\ TopologyCacheSpec => []DirtyCoversChanges
<1> SUFFICES ASSUME TopologyCacheAssumption
             PROVE  TopologyCacheSpec => []DirtyCoversChanges
  BY DEF TopologyCacheAssumption
<1>1. TopologyCacheInit => TypeInv /\ CoversInv
  BY InitTypes DEF TopologyCacheInit, CoversInv, StaleIsOwed
<1>2. TypeInv /\ CoversInv /\ [TopologyCacheNext]_topologyCacheVars => (TypeInv /\ CoversInv)'
  BY TypeStep, NextSteps, CoversEnvironmentStep, CoversBuilderStep
<1>3. TypeInv /\ CoversInv => DirtyCoversChanges
  BY DEF CoversInv, CurrentPromised, Current, DirtyCoversChanges, Settled, AllIdle, Idle
<1> QED BY <1>1, <1>2, <1>3, PTL DEF TopologyCacheSpec

-----------------------------------------------------------------------------
(* Types of the recorders, and what each holds at each place. *)

\* A connection whose informers have not started.
Unstarted(n) == n > connection \/ (n = connection /\ phase = "stored")

Untouched(n) ==
    pending[n] = <<>> /\ task[n] = NoTask /\ cached[n] = Nothing /\ gone[n] = Nothing

\* Connections are left to be made while a switch is under way, which closes
\* the store before it opens one for the cluster it comes to.
PhaseInv ==
    /\ phase \in {"stopped", "closed", "swapped"} => connection < MaxConnections
    /\ phase \in {"closed", "swapped"} => store = 0
    /\ phase \in {"stored", "started", "up"} =>
          connection \in Connections /\ leadsTo[connection] = context
    /\ \A n \in Connections : n <= connection => leadsTo[n] \in Clusters
    /\ \A n \in Connections : Unstarted(n) => Untouched(n)

\* What a recorder holds at each place.
TaskFits(t) ==
    /\ t.at = "idle" => t = NoTask
    /\ t.at # "idle" => t.note \in Notes
    /\ t.at = "stash" => t.note.op = "delete"
    /\ t.at \in {"join", "mark"} => t.note.op = "add"
    /\ t.at \in {"record", "mark"} => t.tag \in Clusters

RecordingTypes ==
    /\ TimelineRecordingTypeOK
    /\ PhaseInv
    /\ \A n \in Connections : TaskFits(task[n])

LEMMA NoTaskFacts ==
    ASSUME TimelineRecordingAssumption
    PROVE  NoTask \in Tasks /\ NoTask.at = "idle" /\ NoTask.joined = Nothing
BY SMT DEF NoTask, Tasks, TimelineRecordingAssumption

\* The steps of a recorder write its fields one by one.
LEMMA TaskField ==
    ASSUME NEW t \in Tasks
    PROVE  /\ \A p \in {"stash", "join", "tag", "record", "mark"} : [t EXCEPT !.at = p] \in Tasks
           /\ \A x \in Notes : [t EXCEPT !.note = x] \in Tasks
           /\ \A s \in 0 .. MaxConnections : [t EXCEPT !.store = s] \in Tasks
           /\ \A o \in Objects \cup {Nothing} : [t EXCEPT !.joined = o] \in Tasks
           /\ \A c \in Clusters : [t EXCEPT !.tag = c] \in Tasks
           /\ \A b \in BOOLEAN : [t EXCEPT !.sync = b] \in Tasks
BY DEF Tasks

\* Where a recorder begins with a note.
Begun(stop, note, s) == [NoTask EXCEPT !.at = stop, !.note = note, !.store = s]

LEMMA BeginFacts ==
    ASSUME TimelineRecordingAssumption, NEW note \in Notes, NEW stop \in {"stash", "join", "tag"},
           NEW s \in 0 .. MaxConnections
    PROVE  LET t == Begun(stop, note, s)
           IN  t \in Tasks /\ t.at = stop /\ t.note = note /\ t.store = s /\ t.joined = Nothing
<1>0. NoTask \in Tasks
  BY NoTaskFacts
<1>1. [NoTask EXCEPT !.at = stop] \in Tasks
  BY <1>0, TaskField
<1>2. [[NoTask EXCEPT !.at = stop] EXCEPT !.note = note] \in Tasks
  BY <1>1, TaskField
<1>3. [[[NoTask EXCEPT !.at = stop] EXCEPT !.note = note] EXCEPT !.store = s] \in Tasks
  BY <1>2, TaskField
<1> DEFINE t == [NoTask EXCEPT !.at = stop, !.note = note, !.store = s]
<1>4. t.at = stop /\ t.note = note
  BY <1>0, SMT DEF Tasks
<1>5. t.store = s /\ t.joined = NoTask.joined
  BY <1>0, SMT DEF Tasks
<1> QED
  BY <1>3, <1>4, <1>5, NoTaskFacts DEF Begun

\* Where it goes on from there.
Told(t) == [t EXCEPT !.at = "tag"]

LEMMA ToTag ==
    ASSUME NEW t \in Tasks
    PROVE  LET u == Told(t)
           IN  /\ u \in Tasks /\ u.at = "tag" /\ u.note = t.note /\ u.joined = t.joined
               /\ u.store = t.store
BY SMT DEF Tasks, Told

Joining(t, o) == [t EXCEPT !.at = "tag", !.joined = o]

LEMMA ToTagJoined ==
    ASSUME NEW t \in Tasks, NEW o \in Objects \cup {Nothing}
    PROVE  LET u == Joining(t, o)
           IN  /\ u \in Tasks /\ u.at = "tag" /\ u.note = t.note /\ u.joined = o
               /\ u.store = t.store
<1>1. [t EXCEPT !.at = "tag"] \in Tasks
  BY TaskField
<1>2. [[t EXCEPT !.at = "tag"] EXCEPT !.joined = o] \in Tasks
  BY <1>1, TaskField
<1> DEFINE u == [t EXCEPT !.at = "tag", !.joined = o]
<1>3. u.at = "tag" /\ u.note = t.note /\ u.joined = o /\ u.store = t.store
  BY SMT DEF Tasks
<1> QED
  BY <1>2, <1>3 DEF Joining

Tagged(t, c, b) == [t EXCEPT !.at = "record", !.tag = c, !.sync = b]

LEMMA ToRecord ==
    ASSUME NEW t \in Tasks, NEW c \in Clusters, NEW b \in BOOLEAN
    PROVE  LET u == Tagged(t, c, b)
           IN  /\ u \in Tasks /\ u.at = "record" /\ u.note = t.note /\ u.joined = t.joined
               /\ u.store = t.store /\ u.tag = c /\ u.sync = b
<1>1. [t EXCEPT !.at = "record"] \in Tasks
  BY TaskField
<1>2. [[t EXCEPT !.at = "record"] EXCEPT !.tag = c] \in Tasks
  BY <1>1, TaskField
<1>3. [[[t EXCEPT !.at = "record"] EXCEPT !.tag = c] EXCEPT !.sync = b] \in Tasks
  BY <1>2, TaskField
<1> DEFINE u == [t EXCEPT !.at = "record", !.tag = c, !.sync = b]
<1>4. u.at = "record" /\ u.note = t.note
  BY SMT DEF Tasks
<1>5. u.joined = t.joined /\ u.store = t.store
  BY SMT DEF Tasks
<1>6. u.tag = c /\ u.sync = b
  BY SMT DEF Tasks
<1> QED
  BY <1>3, <1>4, <1>5, <1>6 DEF Tagged

Marking(t) == [t EXCEPT !.at = "mark"]

LEMMA ToMark ==
    ASSUME NEW t \in Tasks
    PROVE  LET u == Marking(t)
           IN  /\ u \in Tasks /\ u.at = "mark" /\ u.note = t.note /\ u.joined = t.joined
               /\ u.store = t.store /\ u.tag = t.tag
BY SMT DEF Tasks, Marking

LEMMA AppendFacts ==
    ASSUME NEW S, NEW q \in Seq(S), NEW x \in S
    PROVE  /\ Append(q, x) \in Seq(S) /\ Append(q, x) # <<>>
           /\ Len(q) \in Nat /\ Len(Append(q, x)) = Len(q) + 1
           /\ \A i \in 1 .. Len(q) : Append(q, x)[i] = q[i]
           /\ Append(q, x)[Len(q) + 1] = x
           /\ q = <<>> => Head(Append(q, x)) = x
           /\ q # <<>> => Head(Append(q, x)) = Head(q)
<1>1. Append(q, x) \in Seq(S) /\ Len(q) \in Nat /\ Len(Append(q, x)) = Len(q) + 1
  BY SMT
<1>2. Append(q, x) # <<>>
  BY <1>1, SMT
<1>3. \A i \in 1 .. Len(q) : Append(q, x)[i] = q[i]
  BY SMT
<1>4. Append(q, x)[Len(q) + 1] = x
  BY SMT
<1>5. Head(Append(q, x)) = Append(q, x)[1]
  BY <1>1, <1>2, SMT
<1>6. q = <<>> => Len(q) = 0
  BY SMT
<1>7. q # <<>> => Head(q) = q[1] /\ Len(q) > 0
  BY SMT
<1> QED
  BY <1>1, <1>2, <1>3, <1>4, <1>5, <1>6, <1>7, SMT

LEMMA TailFacts ==
    ASSUME NEW S, NEW q \in Seq(S), q # <<>>
    PROVE  /\ Head(q) \in S /\ Head(q) = q[1] /\ Len(q) \in Nat /\ Len(q) > 0
           /\ Tail(q) \in Seq(S) /\ Len(Tail(q)) = Len(q) - 1
           /\ \A i \in 1 .. Len(q) - 1 : Tail(q)[i] = q[i + 1]
           /\ Tail(q) # <<>> => Head(Tail(q)) = q[2] /\ Len(q) > 1
           /\ Tail(q) = <<>> => Len(q) = 1
<1>1. Len(q) \in Nat /\ Len(q) > 0
  BY SMT
<1>2. Head(q) = q[1] /\ q[1] \in S
  BY <1>1, SMT
<1>3. Tail(q) \in Seq(S) /\ Len(Tail(q)) = Len(q) - 1
  BY <1>1, SMT
<1>4. \A i \in 1 .. Len(q) - 1 : Tail(q)[i] = q[i + 1]
  BY <1>1, SMT
<1>5. Tail(q) = <<>> => Len(q) = 1
  <2>1. Tail(q) = <<>> => Len(q) - 1 = Len(<<>>)
    BY <1>3, Zenon
  <2>2. Len(<<>>) = 0
    BY SMT
  <2> QED
    BY <1>1, <2>1, <2>2, SMT
<1>6. Tail(q) # <<>> => Head(Tail(q)) = Tail(q)[1] /\ Len(Tail(q)) > 0
  BY <1>3, SMT
<1> QED
  BY <1>1, <1>2, <1>3, <1>4, <1>5, <1>6, SMT

\* What a note of a type says of the sequences of notes.
LEMMA NotesAppend ==
    ASSUME NEW q \in Seq(Notes), NEW x \in Notes
    PROVE  Append(q, x) \in Seq(Notes)
BY AppendFacts

LEMMA NotesTail ==
    ASSUME NEW q \in Seq(Notes), q # <<>>
    PROVE  Head(q) \in Notes /\ Tail(q) \in Seq(Notes)
BY TailFacts

LEMMA TypesInit ==
    ASSUME TimelineRecordingAssumption, TimelineRecordingInit
    PROVE  RecordingTypes
<1>1. TimelineRecordingTypeOK
  <2>1. <<>> \in Seq(Notes)
    BY SMT
  <2>2. NoTask \in Tasks
    BY NoTaskFacts
  <2>3. 0 \in 0 .. MaxCreations /\ 0 \in 0 .. MaxConnections
    BY SMT DEF TimelineRecordingAssumption
  <2>4. {onDisk, persistent, synced, inherited} \subseteq BOOLEAN
    BY DEF TimelineRecordingInit
  <2> QED
    BY <2>1, <2>2, <2>3, <2>4, Zenon DEF TimelineRecordingInit, TimelineRecordingTypeOK, Phases
<1>2. PhaseInv
  BY SMT DEF TimelineRecordingInit, PhaseInv, Untouched, Unstarted, TimelineRecordingAssumption,
      Connections
<1>3. \A n \in Connections : TaskFits(task[n])
  BY NoTaskFacts DEF TimelineRecordingInit, TaskFits
<1> QED
  BY <1>1, <1>2, <1>3 DEF RecordingTypes

LEMMA TypesClusters ==
    ASSUME TimelineRecordingAssumption, RecordingTypes, ClusterMoves
    PROVE  RecordingTypes'
<1> USE DEF RecordingTypes
<1>1. /\ object' \in [Clusters -> Objects \cup {Nothing}]
      /\ creations' \in 0 .. MaxCreations /\ young' \subseteq Uids
  <2>1. ASSUME NEW c \in Clusters, Create(c)
        PROVE  /\ object' \in [Clusters -> Objects \cup {Nothing}]
               /\ creations' \in 0 .. MaxCreations /\ young' \subseteq Uids
    <3>1. creations' \in Uids /\ creations' \in 0 .. MaxCreations
      BY <2>1, SMT DEF Create, TimelineRecordingTypeOK, TimelineRecordingAssumption, Uids
    <3>2. [cluster |-> c, uid |-> creations', revision |-> 0] \in Objects
      BY <3>1, SMT DEF Objects, TimelineRecordingAssumption
    <3> QED
      BY <2>1, <3>1, <3>2 DEF Create, Keep, TimelineRecordingTypeOK
  <2>2. ASSUME NEW c \in Clusters, Revise(c)
        PROVE  /\ object' \in [Clusters -> Objects \cup {Nothing}]
               /\ creations' \in 0 .. MaxCreations /\ young' \subseteq Uids
    <3>1. object[c] \in Objects
      BY <2>2 DEF Revise, TimelineRecordingTypeOK
    <3>2. object[c].revision + 1 \in 0 .. MaxRevisions
      BY <2>2, <3>1, SMT DEF Revise, Objects, TimelineRecordingAssumption
    <3>3. [object[c] EXCEPT !.revision = object[c].revision + 1] \in Objects
      BY <3>1, <3>2 DEF Objects
    <3> QED
      BY <2>2, <3>3 DEF Revise, Keep, TimelineRecordingTypeOK
  <2>3. ASSUME NEW c \in Clusters, Remove(c)
        PROVE  /\ object' \in [Clusters -> Objects \cup {Nothing}]
               /\ creations' \in 0 .. MaxCreations /\ young' \subseteq Uids
    BY <2>3 DEF Remove, Keep, TimelineRecordingTypeOK
  <2>4. ASSUME NEW u \in Uids, GrowOld(u)
        PROVE  /\ object' \in [Clusters -> Objects \cup {Nothing}]
               /\ creations' \in 0 .. MaxCreations /\ young' \subseteq Uids
    BY <2>4 DEF GrowOld, TimelineRecordingTypeOK
  <2> QED
    BY <2>1, <2>2, <2>3, <2>4 DEF ClusterMoves
<1>2. UNCHANGED <<persistent, connectionVars, storeVars, synced, stash, informerVars, task,
                  recorded, historyVars>>
  BY DEF ClusterMoves
<1>3. TimelineRecordingTypeOK'
  BY <1>1, <1>2 DEF TimelineRecordingTypeOK, connectionVars, storeVars, informerVars, historyVars
<1>4. PhaseInv' /\ \A n \in Connections : TaskFits(task[n])'
  BY <1>2 DEF PhaseInv, Unstarted, Untouched, TaskFits, connectionVars, storeVars, informerVars
<1> QED
  BY <1>3, <1>4

LEMMA TypesSwitching ==
    ASSUME TimelineRecordingAssumption, RecordingTypes, Switching
    PROVE  RecordingTypes'
<1> USE DEF RecordingTypes, connectionVars, storeVars, informerVars, historyVars, clusterSide
<1>0. connection \in Nat /\ MaxConnections \in Nat
  BY SMT DEF TimelineRecordingTypeOK, TimelineRecordingAssumption
<1>t. task' = task /\ \A n \in Connections : TaskFits(task[n])'
  <2>1. task' = task
    BY DEF Switching, StopCaches, InformersStop, ResetStore, SwitchFails, InitStore,
        InitStoreFails, StartInformers, SyncCompletes, SwapContext
  <2> QED
    BY <2>1 DEF TaskFits
<1>1. CASE StopCaches
  <2>1. TimelineRecordingTypeOK'
    BY <1>1 DEF StopCaches, InformersStop, TimelineRecordingTypeOK, Phases
  <2>2. PhaseInv'
    BY <1>1, SMT DEF StopCaches, InformersStop, PhaseInv, Unstarted, Untouched, TimelineRecordingTypeOK
  <2> QED
    BY <1>t, <2>1, <2>2
<1>2. CASE ResetStore
  <2>1. TimelineRecordingTypeOK'
    BY <1>2 DEF ResetStore, TimelineRecordingTypeOK, Phases
  <2>2. PhaseInv'
    BY <1>2, SMT DEF ResetStore, PhaseInv, Unstarted, Untouched
  <2> QED
    BY <1>t, <2>1, <2>2
<1>3. CASE SwitchFails
  <2>1. TimelineRecordingTypeOK'
    BY <1>3 DEF SwitchFails, TimelineRecordingTypeOK, Phases
  <2>2. PhaseInv'
    BY <1>3, SMT DEF SwitchFails, PhaseInv, Unstarted, Untouched
  <2> QED
    BY <1>t, <2>1, <2>2
<1>4. CASE InitStore \/ InitStoreFails
  <2>1. /\ phase = "swapped" /\ phase' = "stored" /\ connection' = connection + 1
        /\ leadsTo' = [leadsTo EXCEPT ![connection'] = context]
        /\ UNCHANGED <<clusterSide, persistent, context, onDisk, synced, stash, informerVars, task,
                       recorded, due>>
    BY <1>4 DEF InitStore, InitStoreFails
  <2>2. connection < MaxConnections /\ store = 0
    BY <2>1 DEF PhaseInv
  <2>3. connection' \in Connections
    BY <1>0, <2>1, <2>2, SMT DEF Connections
  <2>4. /\ store' \in {0, connection'} /\ seen' \in [Connections -> BOOLEAN]
        /\ inherited' \in BOOLEAN /\ marker' \in {0} \cup Uids
    BY <1>4, <2>2 DEF InitStore, InitStoreFails, TimelineRecordingTypeOK
  <2>5. connection' \in 0 .. MaxConnections
    BY <2>3, SMT DEF Connections, TimelineRecordingAssumption
  <2>6. leadsTo' \in [Connections -> Clusters \cup {Nothing}]
    BY <2>1, <2>3 DEF TimelineRecordingTypeOK
  <2>7. TimelineRecordingTypeOK'
    BY <2>1, <2>4, <2>5, <2>6 DEF TimelineRecordingTypeOK, Phases
  <2>8. leadsTo'[connection'] = context'
    BY <2>1, <2>3 DEF TimelineRecordingTypeOK
  <2>9. ASSUME NEW n \in Connections, n <= connection'
        PROVE  leadsTo'[n] \in Clusters
    <3>1. CASE n = connection'
      BY <2>1, <2>8, <3>1 DEF TimelineRecordingTypeOK
    <3>2. CASE n # connection'
      <4>1. n <= connection
        BY <1>0, <2>1, <2>9, <3>2, SMT DEF Connections
      <4>2. leadsTo'[n] = leadsTo[n]
        BY <2>1, <3>2 DEF TimelineRecordingTypeOK
      <4> QED
        BY <4>1, <4>2 DEF PhaseInv
    <3> QED
      BY <3>1, <3>2
  <2>10. ASSUME NEW n \in Connections, Unstarted(n)'
         PROVE  Untouched(n)'
    <3>1. n > connection
      BY <1>0, <2>1, <2>10, SMT DEF Unstarted, Connections
    <3> QED
      BY <2>1, <3>1 DEF PhaseInv, Unstarted, Untouched
  <2>11. PhaseInv'
    BY <2>1, <2>3, <2>8, <2>9, <2>10 DEF PhaseInv
  <2> QED
    BY <1>t, <2>7, <2>11
<1>5. CASE StartInformers \/ SyncCompletes
  <2>1. TimelineRecordingTypeOK'
    BY <1>5 DEF StartInformers, SyncCompletes, TimelineRecordingTypeOK, Phases
  <2>2. PhaseInv'
    BY <1>5, SMT DEF StartInformers, SyncCompletes, PhaseInv, Unstarted, Untouched
  <2> QED
    BY <1>t, <2>1, <2>2
<1>6. ASSUME NEW c \in Clusters, SwapContext(c)
      PROVE  RecordingTypes'
  <2>1. TimelineRecordingTypeOK'
    BY <1>6 DEF SwapContext, TimelineRecordingTypeOK, Phases
  <2>2. PhaseInv'
    BY <1>6, SMT DEF SwapContext, PhaseInv, Unstarted, Untouched
  <2> QED
    BY <1>t, <2>1, <2>2
<1> QED
  BY <1>1, <1>2, <1>3, <1>4, <1>5, <1>6 DEF Switching

LEMMA TypesInformer ==
    ASSUME TimelineRecordingAssumption, RecordingTypes, NEW n \in Connections,
           Observe(n) \/ ListenerEnds(n)
    PROVE  RecordingTypes'
<1> USE DEF RecordingTypes, connectionVars, storeVars, historyVars, clusterSide
<1>1. UNCHANGED <<clusterSide, persistent, connectionVars, storeVars, synced, stash, task,
                  recorded, historyVars>>
  BY DEF Observe, ListenerEnds
<1>2. /\ cached' \in [Connections -> Objects \cup {Nothing}]
      /\ gone' \in [Connections -> Objects \cup {Nothing}]
      /\ pending' \in [Connections -> Seq(Notes)]
  <2>1. CASE Observe(n)
    <3> DEFINE now == object[leadsTo[n]]
               was == cached[n]
               note == IF was = Nothing THEN Note(n, "add", now)
                       ELSE IF now = Nothing THEN Note(n, "delete", was)
                       ELSE Note(n, "update", now)
    <3>1. /\ Running(n) /\ now # was /\ cached' = [cached EXCEPT ![n] = now]
          /\ gone' = (IF now = Nothing THEN [gone EXCEPT ![n] = was] ELSE gone)
          /\ pending' = [pending EXCEPT ![n] = Append(pending[n], note)]
      BY <2>1 DEF Observe
    <3>2. leadsTo[n] \in Clusters
      BY <3>1 DEF Running, PhaseInv, TimelineRecordingTypeOK
    <3>3. /\ now \in Objects \cup {Nothing} /\ was \in Objects \cup {Nothing}
          /\ gone[n] \in Objects \cup {Nothing}
      BY <3>2 DEF TimelineRecordingTypeOK
    <3>4. \A op \in {"add", "update", "delete"}, o \in Objects : Note(n, op, o) \in Notes
      BY <3>3 DEF Note, Notes
    <3>5. note \in Notes
      BY <3>1, <3>3, <3>4
    <3>6. Append(pending[n], note) \in Seq(Notes)
      BY <3>5, NotesAppend DEF TimelineRecordingTypeOK
    <3>7. pending' \in [Connections -> Seq(Notes)]
      BY <3>1, <3>6 DEF TimelineRecordingTypeOK
    <3> QED
      BY <3>1, <3>3, <3>7 DEF TimelineRecordingTypeOK
  <2>2. CASE ListenerEnds(n)
    <3>1. <<>> \in Seq(Notes)
      BY SMT
    <3> QED
      BY <2>2, <3>1 DEF ListenerEnds, TimelineRecordingTypeOK
  <2> QED
    BY <2>1, <2>2
<1>3. ~Unstarted(n) \/ pending[n] = <<>>
  BY DEF PhaseInv, Untouched
<1>4. ~Unstarted(n)
  BY <1>3, SMT DEF Observe, Running, Unstarted, ListenerEnds, TimelineRecordingTypeOK, Connections
<1>5. ASSUME NEW m \in Connections, Unstarted(m)'
      PROVE  Untouched(m)'
  <2>1. Unstarted(m) /\ m # n
    BY <1>1, <1>4, <1>5 DEF Unstarted
  <2>2. cached'[m] = cached[m] /\ gone'[m] = gone[m] /\ pending'[m] = pending[m]
    BY <2>1 DEF Observe, ListenerEnds, TimelineRecordingTypeOK
  <2> QED
    BY <1>1, <2>1, <2>2 DEF PhaseInv, Untouched
<1> QED
  BY <1>1, <1>2, <1>5 DEF TimelineRecordingTypeOK, PhaseInv, TaskFits

\* What all of a recorder's moves have in common.
RecorderTypes ==
    /\ task \in [Connections -> Tasks] /\ \A n \in Connections : TaskFits(task[n])
    /\ pending \in [Connections -> Seq(Notes)]
    /\ seen \in [Connections -> BOOLEAN] /\ onDisk \in BOOLEAN /\ inherited \in BOOLEAN
    /\ stash \in Objects \cup {Nothing} /\ recorded \subseteq Events
    /\ due \subseteq Uids /\ marker \in {0} \cup Uids

LEMMA TypesRecorder ==
    ASSUME RecordingTypes, NEW n \in Connections, ~Unstarted(n), RecorderTypes',
           UNCHANGED <<clusterSide, persistent, connectionVars, store, synced, cached, gone>>,
           \A m \in Connections : m # n => task'[m] = task[m] /\ pending'[m] = pending[m]
    PROVE  RecordingTypes'
<1> USE DEF RecordingTypes, connectionVars, clusterSide
<1>1. TimelineRecordingTypeOK'
  BY DEF TimelineRecordingTypeOK, RecorderTypes
<1>2. ASSUME NEW m \in Connections, Unstarted(m)'
      PROVE  Untouched(m)'
  <2>1. Unstarted(m) /\ m # n
    BY <1>2 DEF Unstarted
  <2> QED
    BY <2>1 DEF PhaseInv, Untouched
<1> QED
  BY <1>1, <1>2 DEF PhaseInv, RecorderTypes

LEMMA TypesTake ==
    ASSUME TimelineRecordingAssumption, RecordingTypes, NEW n \in Connections,
           TakeNowhere(n) \/ TakeAdd(n) \/ TakeUpdate(n) \/ TakeDelete(n)
    PROVE  RecordingTypes'
<1> USE DEF RecordingTypes
<1>1. /\ task[n] = NoTask /\ pending[n] # <<>>
      /\ pending' = [pending EXCEPT ![n] = Tail(pending[n])]
      /\ UNCHANGED <<clusterSide, persistent, connectionVars, store, synced, stash, cached, gone,
                     recorded>>
  BY DEF TakeNowhere, TakeAdd, TakeUpdate, TakeDelete, Take
<1>2. ~Unstarted(n)
  BY <1>1 DEF PhaseInv, Untouched
<1>3. Head(pending[n]) \in Notes /\ Tail(pending[n]) \in Seq(Notes)
  BY <1>1, NotesTail DEF TimelineRecordingTypeOK
<1>4. pending' \in [Connections -> Seq(Notes)]
  BY <1>1, <1>3 DEF TimelineRecordingTypeOK
<1>5. store \in 0 .. MaxConnections
  BY SMT DEF TimelineRecordingTypeOK, TimelineRecordingAssumption
<1>6. \/ task' = task
      \/ \E stop \in {"stash", "join", "tag"} :
            /\ Begin(n, stop)
            /\ stop = "stash" => Head(pending[n]).op = "delete"
            /\ stop = "join" => Head(pending[n]).op = "add"
  BY DEF TakeNowhere, TakeAdd, TakeUpdate, TakeDelete
<1>7. PICK t \in Tasks : task' = [task EXCEPT ![n] = t] /\ TaskFits(t)
  <2>1. CASE task' = task
    BY <2>1 DEF TimelineRecordingTypeOK
  <2>2. ASSUME NEW stop \in {"stash", "join", "tag"}, Begin(n, stop),
               stop = "stash" => Head(pending[n]).op = "delete",
               stop = "join" => Head(pending[n]).op = "add"
        PROVE  \E t \in Tasks : task' = [task EXCEPT ![n] = t] /\ TaskFits(t)
    <3> DEFINE t == Begun(stop, Head(pending[n]), store)
    <3>1. t \in Tasks /\ t.at = stop /\ t.note = Head(pending[n])
      BY <1>3, <1>5, BeginFacts
    <3>2. TaskFits(t)
      BY <1>3, <2>2, <3>1 DEF TaskFits
    <3>3. task' = [task EXCEPT ![n] = t]
      BY <2>2 DEF Begin, Begun, Proceed
    <3> QED
      BY <3>1, <3>2, <3>3
  <2> QED
    BY <1>6, <2>1, <2>2
<1>8. task' \in [Connections -> Tasks] /\ \A m \in Connections : TaskFits(task'[m])
  BY <1>7 DEF TimelineRecordingTypeOK
<1>9. /\ seen' \in [Connections -> BOOLEAN] /\ onDisk' \in BOOLEAN /\ inherited' \in BOOLEAN
      /\ due' \subseteq Uids /\ marker' \in {0} \cup Uids
  <2>1. CASE TakeNowhere(n) \/ TakeUpdate(n)
    BY <2>1 DEF TakeNowhere, TakeUpdate, historyVars, TimelineRecordingTypeOK
  <2>2. CASE TakeAdd(n)
    <3>1. Head(pending[n]).object.uid \in Uids
      BY <1>3 DEF Notes, Objects
    <3> QED
      BY <2>2, <3>1 DEF TakeAdd, TimelineRecordingTypeOK
  <2>3. CASE TakeDelete(n)
    BY <2>3 DEF TakeDelete, Mark, TimelineRecordingTypeOK
  <2> QED
    BY <2>1, <2>2, <2>3
<1>10. RecorderTypes'
  BY <1>1, <1>4, <1>8, <1>9 DEF RecorderTypes, TimelineRecordingTypeOK, TaskFits
<1>11. \A m \in Connections : m # n => task'[m] = task[m] /\ pending'[m] = pending[m]
  BY <1>1, <1>7 DEF TimelineRecordingTypeOK
<1> QED
  BY <1>1, <1>2, <1>10, <1>11, TypesRecorder

LEMMA EventTyped ==
    ASSUME RecordingTypes, NEW n \in Connections, task[n].at = "record",
           NEW op \in {"add", "update", "delete", "historical"}
    PROVE  Event(n, op) \in Events
<1>1. task[n] \in Tasks /\ task[n].note \in Notes /\ task[n].tag \in Clusters
  BY DEF RecordingTypes, TaskFits, TimelineRecordingTypeOK
<1> DEFINE t == task[n]
<1>2. t.note.object \in Objects /\ t.note.before \in Objects \cup {Nothing}
  BY <1>1 DEF Notes
<1>3. t.joined \in Objects \cup {Nothing}
  BY <1>1 DEF Tasks
<1> HIDE DEF t
<1> DEFINE j == IF op = "historical" THEN Nothing ELSE t.joined
<1>4. j \in Objects \cup {Nothing}
  BY <1>3
<1> HIDE DEF j
<1>5. [op |-> op, object |-> t.note.object, tag |-> t.tag, joined |-> j, before |-> t.note.before]
        \in Events
  BY <1>1, <1>2, <1>4 DEF Events, t
<1> QED
  BY <1>5 DEF Event, j, t

LEMMA TypesRecorderStep ==
    ASSUME TimelineRecordingAssumption, RecordingTypes, NEW n \in Connections, RecorderStep(n)
    PROVE  RecordingTypes'
<1> USE DEF RecordingTypes
<1>0. NoTask \in Tasks /\ TaskFits(NoTask) /\ NoTask.at = "idle"
  BY NoTaskFacts DEF TaskFits
<1>1. task[n] \in Tasks /\ TaskFits(task[n])
  BY DEF TimelineRecordingTypeOK
<1>2. task[n].at # "idle" /\ task[n].note \in Notes
  BY <1>1 DEF RecorderStep, StashDeleted, Tag, Record, RecordFails, MarkSeen, Join, TaskFits
<1>3. UNCHANGED <<clusterSide, persistent, connectionVars, synced, informerVars, store>>
  BY DEF RecorderStep, StashDeleted, Tag, Record, RecordFails, MarkSeen, Join, storeVars
<1>4. ~Unstarted(n)
  BY <1>0, <1>2 DEF PhaseInv, Untouched
<1>5. task[n].note.object \in Objects /\ task[n].note.op \in {"add", "update", "delete"}
  BY <1>2 DEF Notes
<1>6. task[n].note.object.uid \in Uids
  BY <1>5 DEF Objects
<1>7. ASSUME NEW t \in Tasks, TaskFits(t), Proceed(n, t),
             seen' \in [Connections -> BOOLEAN], onDisk' \in BOOLEAN, inherited' = inherited,
             stash' \in Objects \cup {Nothing}, recorded' \subseteq Events,
             due' \subseteq Uids, marker' \in {0} \cup Uids
      PROVE  RecordingTypes'
  <2>1. task' \in [Connections -> Tasks] /\ \A m \in Connections : TaskFits(task'[m])
    BY <1>7 DEF Proceed, TimelineRecordingTypeOK
  <2>2. RecorderTypes'
    BY <1>3, <1>7, <2>1 DEF RecorderTypes, TimelineRecordingTypeOK, informerVars, TaskFits
  <2>3. \A m \in Connections : m # n => task'[m] = task[m] /\ pending'[m] = pending[m]
    BY <1>3, <1>7 DEF Proceed, TimelineRecordingTypeOK, informerVars
  <2> QED
    BY <1>3, <1>4, <2>2, <2>3, TypesRecorder DEF informerVars
<1>8. CASE StashDeleted(n)
  <2>1. Proceed(n, Told(task[n])) /\ stash' = task[n].note.object
    BY <1>8 DEF StashDeleted, Told
  <2>2. Told(task[n]) \in Tasks /\ TaskFits(Told(task[n]))
    BY <1>1, <1>2, ToTag DEF TaskFits
  <2> QED
    BY <1>5, <1>7, <1>8, <2>1, <2>2 DEF StashDeleted, storeVars, historyVars, TimelineRecordingTypeOK
<1>9. ASSUME NEW differs \in BOOLEAN, Join(n, differs)
      PROVE  RecordingTypes'
  <2> DEFINE tries == synced /\ task[n].note.object.uid \in young /\ stash # Nothing
             o == IF tries /\ stash.uid # task[n].note.object.uid /\ differs
                  THEN stash ELSE Nothing
  <2>1. Proceed(n, Joining(task[n], o)) /\ stash' \in {stash, Nothing}
    BY <1>9 DEF Join, Joining
  <2>2. o \in Objects \cup {Nothing} /\ stash' \in Objects \cup {Nothing}
    BY <2>1 DEF TimelineRecordingTypeOK
  <2> HIDE DEF o
  <2>3. Joining(task[n], o) \in Tasks /\ TaskFits(Joining(task[n], o))
    BY <1>1, <1>2, <2>2, ToTagJoined DEF TaskFits
  <2> QED
    BY <1>7, <1>9, <2>1, <2>2, <2>3 DEF Join, storeVars, historyVars, TimelineRecordingTypeOK
<1>10. CASE Tag(n)
  <2> DEFINE b == /\ task[n].note.op = "add"
                  /\ ~synced \/ task[n].note.object.uid \notin young
  <2>1. Proceed(n, Tagged(task[n], context, b))
    BY <1>10 DEF Tag, Tagged
  <2>2. b \in BOOLEAN /\ context \in Clusters
    BY DEF TimelineRecordingTypeOK
  <2> HIDE DEF b
  <2>3. Tagged(task[n], context, b) \in Tasks /\ TaskFits(Tagged(task[n], context, b))
    BY <1>1, <1>2, <2>2, ToRecord DEF TaskFits
  <2> QED
    BY <1>7, <1>10, <2>1, <2>3 DEF Tag, storeVars, historyVars, TimelineRecordingTypeOK
<1>11. CASE Record(n)
  <2>1. task[n].at = "record" /\ task[n].tag \in Clusters
    BY <1>1, <1>11 DEF Record, TaskFits
  <2>2. recorded' \subseteq Events
    <3>1. Event(n, "historical") \in Events /\ Event(n, task[n].note.op) \in Events
      BY <1>5, <2>1, EventTyped
    <3> QED
      BY <1>11, <3>1 DEF Record, TimelineRecordingTypeOK
  <2>3. UNCHANGED <<storeVars, stash, historyVars>>
    BY <1>11 DEF Record
  <2>4. CASE task[n].note.op = "add"
    <3>1. Proceed(n, Marking(task[n]))
      BY <1>11, <2>4 DEF Record, Marking
    <3>2. Marking(task[n]) \in Tasks /\ TaskFits(Marking(task[n]))
      BY <1>1, <1>2, <2>1, <2>4, ToMark DEF TaskFits
    <3> QED
      BY <1>7, <2>2, <2>3, <3>1, <3>2 DEF storeVars, historyVars, TimelineRecordingTypeOK
  <2>5. CASE task[n].note.op # "add"
    <3>1. Proceed(n, NoTask)
      BY <1>11, <2>5 DEF Record
    <3> QED
      BY <1>0, <1>7, <2>2, <2>3, <3>1 DEF storeVars, historyVars, TimelineRecordingTypeOK
  <2> QED
    BY <2>4, <2>5
<1>12. CASE RecordFails(n)
  <2>1. Proceed(n, NoTask)
    BY <1>12 DEF RecordFails
  <2> QED
    BY <1>0, <1>7, <1>12, <2>1 DEF RecordFails, storeVars, TimelineRecordingTypeOK
<1>13. CASE MarkSeen(n)
  <2>1. Proceed(n, NoTask)
    BY <1>13 DEF MarkSeen
  <2> QED
    BY <1>0, <1>6, <1>7, <1>13, <2>1 DEF MarkSeen, Mark, TimelineRecordingTypeOK
<1> QED
  BY <1>8, <1>9, <1>10, <1>11, <1>12, <1>13 DEF RecorderStep

LEMMA TypesNext ==
    ASSUME TimelineRecordingAssumption, RecordingTypes,
           [TimelineRecordingNext]_timelineRecordingVars
    PROVE  RecordingTypes'
<1>1. CASE ClusterMoves
  BY <1>1, TypesClusters
<1>2. CASE Switching
  BY <1>2, TypesSwitching
<1>3. CASE StashForgets
  BY <1>3 DEF StashForgets, RecordingTypes, TimelineRecordingTypeOK, PhaseInv, Unstarted, Untouched,
      TaskFits, clusterSide, connectionVars, storeVars, informerVars, historyVars
<1>4. ASSUME NEW n \in Connections, Observe(n) \/ ListenerEnds(n)
      PROVE  RecordingTypes'
  BY <1>4, TypesInformer
<1>5. ASSUME NEW n \in Connections, TakeNowhere(n) \/ TakeAdd(n) \/ TakeUpdate(n) \/ TakeDelete(n)
      PROVE  RecordingTypes'
  BY <1>5, TypesTake
<1>6. ASSUME NEW n \in Connections, RecorderStep(n)
      PROVE  RecordingTypes'
  BY <1>6, TypesRecorderStep
<1>7. CASE UNCHANGED timelineRecordingVars
  BY <1>7 DEF timelineRecordingVars, RecordingTypes, TimelineRecordingTypeOK, PhaseInv, Unstarted,
      Untouched, TaskFits, clusterSide, connectionVars, storeVars, informerVars, historyVars
<1> QED
  BY <1>1, <1>2, <1>3, <1>4, <1>5, <1>6, <1>7 DEF TimelineRecordingNext

\* Recorder and store keep to their types, whether or not a stopped informer may
\* still be recording.
THEOREM RecordingTypeCorrect ==
    TimelineRecordingAssumption => (TimelineRecordingSpec => []TimelineRecordingTypeOK)
<1> SUFFICES ASSUME TimelineRecordingAssumption
             PROVE  TimelineRecordingSpec => []TimelineRecordingTypeOK
  OBVIOUS
<1>1. TimelineRecordingInit => RecordingTypes
  BY TypesInit
<1>2. RecordingTypes /\ [TimelineRecordingNext]_timelineRecordingVars => RecordingTypes'
  BY TypesNext
<1>3. RecordingTypes => TimelineRecordingTypeOK
  BY DEF RecordingTypes
<1> QED
  BY <1>1, <1>2, <1>3, PTL DEF TimelineRecordingSpec

-----------------------------------------------------------------------------
(* The history is true, when stopped informers do not go on recording. *)

\* An object is of the cluster its connection leads to, and has been created.
Of(o, c) == o # Nothing => o.cluster = c /\ o.uid <= creations

ObjectsInv ==
    /\ \A c \in Clusters : Of(object[c], c)
    /\ \A n \in Connections : Of(cached[n], leadsTo[n])
    /\ \A n \in Connections : \A i \in 1 .. Len(pending[n]) : Of(pending[n][i].object, leadsTo[n])
    /\ \A n \in Connections : task[n].at # "idle" => Of(task[n].note.object, leadsTo[n])
    /\ \A u \in due : u <= creations

\* Recorders work for the cluster that is current, and so does the stash.
CurrentInv ==
    /\ \A n \in Connections : task[n].at # "idle" => Running(n) /\ store # 0
    /\ stash # Nothing => phase \in {"started", "up"} /\ store # 0
    /\ \A n \in Connections : task[n].at \in {"record", "mark"} => task[n].tag = leadsTo[n]
    /\ EventsAreOfTheirCluster

LEMMA TaskChanges ==
    ASSUME TimelineRecordingAssumption, RecordingTypes, NEW n \in Connections,
           RecorderStep(n)
    PROVE  /\ task[n].at # "idle" /\ task[n].note \in Notes
           /\ \A m \in Connections : m # n => task'[m] = task[m]
           /\ task'[n].at # "idle" => task'[n].note = task[n].note
           /\ UNCHANGED <<clusterSide, persistent, connectionVars, synced, informerVars, store>>
           /\ due' \subseteq due
           /\ task'[n].at \in {"record", "mark"} =>
                 \/ task[n].at = "tag" /\ task'[n].tag = context
                 \/ task[n].at = "record" /\ task'[n].tag = task[n].tag
           /\ recorded' # recorded => task[n].at = "record"
           /\ \A e \in recorded' : e \in recorded \/ e \in {Event(n, "historical"), Event(n, task[n].note.op)}
           /\ task'[n].at # "stash"
<1>0. NoTask \in Tasks /\ NoTask.at = "idle"
  BY NoTaskFacts
<1>1. task[n] \in Tasks /\ TaskFits(task[n]) /\ task \in [Connections -> Tasks]
  BY DEF RecordingTypes, TimelineRecordingTypeOK
<1>2. task[n].at # "idle" /\ task[n].note \in Notes
  BY <1>1 DEF RecorderStep, StashDeleted, Tag, Record, RecordFails, MarkSeen, Join, TaskFits
<1>3. UNCHANGED <<clusterSide, persistent, connectionVars, synced, informerVars, store>>
  BY DEF RecorderStep, StashDeleted, Tag, Record, RecordFails, MarkSeen, Join, storeVars
<1>4. due' \subseteq due
  BY DEF RecorderStep, StashDeleted, Tag, Record, RecordFails, MarkSeen, Join, historyVars
<1>5. /\ recorded' # recorded => task[n].at = "record"
      /\ \A e \in recorded' : e \in recorded \/ e \in {Event(n, "historical"), Event(n, task[n].note.op)}
  BY DEF RecorderStep, StashDeleted, Tag, Record, RecordFails, MarkSeen, Join
<1> DEFINE Goes == \E t \in Tasks :
         /\ Proceed(n, t)
         /\ t.at # "idle" => t.note = task[n].note
         /\ t.at # "stash"
         /\ t.at \in {"record", "mark"} =>
               \/ task[n].at = "tag" /\ t.tag = context
               \/ task[n].at = "record" /\ t.tag = task[n].tag
<1>6. Goes
  <2>1. CASE StashDeleted(n)
    <3>1. Proceed(n, Told(task[n]))
      BY <2>1 DEF StashDeleted, Told
    <3> QED
      BY <1>1, <3>1, ToTag
  <2>2. ASSUME NEW differs \in BOOLEAN, Join(n, differs)
        PROVE  \E o \in Objects \cup {Nothing} : Proceed(n, Joining(task[n], o))
    <3> DEFINE tries == synced /\ task[n].note.object.uid \in young /\ stash # Nothing
               o == IF tries /\ stash.uid # task[n].note.object.uid /\ differs
                    THEN stash ELSE Nothing
    <3>1. Proceed(n, Joining(task[n], o))
      BY <2>2 DEF Join, Joining
    <3>2. o \in Objects \cup {Nothing}
      BY DEF RecordingTypes, TimelineRecordingTypeOK
    <3> QED
      BY <3>1, <3>2
  <2>3. ASSUME NEW differs \in BOOLEAN, Join(n, differs)
        PROVE  Goes
    <3>1. PICK o \in Objects \cup {Nothing} : Proceed(n, Joining(task[n], o))
      BY <2>2, <2>3
    <3> QED
      BY <1>1, <3>1, ToTagJoined
  <2>4. CASE Tag(n)
    <3> DEFINE b == /\ task[n].note.op = "add"
                    /\ ~synced \/ task[n].note.object.uid \notin young
    <3>1. Proceed(n, Tagged(task[n], context, b)) /\ task[n].at = "tag"
      BY <2>4 DEF Tag, Tagged
    <3>2. b \in BOOLEAN /\ context \in Clusters
      BY DEF RecordingTypes, TimelineRecordingTypeOK
    <3> HIDE DEF b
    <3> QED
      BY <1>1, <3>1, <3>2, ToRecord
  <2>5. CASE Record(n) \/ RecordFails(n) \/ MarkSeen(n)
    <3>1. \/ task[n].at = "record" /\ Proceed(n, Marking(task[n]))
          \/ Proceed(n, NoTask)
      BY <2>5 DEF Record, RecordFails, MarkSeen, Marking
    <3> QED
      BY <1>0, <1>1, <3>1, ToMark
  <2> QED
    BY <2>1, <2>3, <2>4, <2>5 DEF RecorderStep
<1> QED
  BY <1>1, <1>2, <1>3, <1>4, <1>5, <1>6 DEF Proceed

Takes(n) == TakeNowhere(n) \/ TakeAdd(n) \/ TakeUpdate(n) \/ TakeDelete(n)

LEMMA TakeChanges ==
    ASSUME TimelineRecordingAssumption, RecordingTypes, NEW n \in Connections, Takes(n)
    PROVE  /\ Running(n) \/ Draining
           /\ task[n] = NoTask /\ pending[n] # <<>> /\ Head(pending[n]) \in Notes
           /\ pending' = [pending EXCEPT ![n] = Tail(pending[n])]
           /\ UNCHANGED <<clusterSide, persistent, connectionVars, store, synced, stash, cached,
                          gone, recorded>>
           /\ \A m \in Connections : m # n => task'[m] = task[m]
           /\ \/ task'[n] = NoTask
              \/ /\ store # 0 /\ task'[n].note = Head(pending[n]) /\ task'[n].joined = Nothing
                 /\ task'[n].at = "stash" /\ TakeDelete(n)
              \/ /\ store # 0 /\ task'[n].note = Head(pending[n]) /\ task'[n].joined = Nothing
                 /\ task'[n].at = "tag" /\ TakeUpdate(n)
              \/ /\ store # 0 /\ task'[n].note = Head(pending[n]) /\ task'[n].joined = Nothing
                 /\ task'[n].at = "join" /\ TakeAdd(n) /\ ~seen[store]
           /\ due' \subseteq due \cup {Head(pending[n]).object.uid}
<1>1. /\ Running(n) \/ Draining
      /\ task[n] = NoTask /\ pending[n] # <<>>
      /\ pending' = [pending EXCEPT ![n] = Tail(pending[n])]
      /\ UNCHANGED <<clusterSide, persistent, connectionVars, store, synced, stash, cached, gone,
                     recorded>>
  BY DEF Takes, TakeNowhere, TakeAdd, TakeUpdate, TakeDelete, Take
<1>2. Head(pending[n]) \in Notes
  BY <1>1, NotesTail DEF RecordingTypes, TimelineRecordingTypeOK
<1>3. store \in 0 .. MaxConnections /\ task \in [Connections -> Tasks]
  BY SMT DEF RecordingTypes, TimelineRecordingTypeOK, TimelineRecordingAssumption
<1>4. ASSUME NEW stop \in {"stash", "join", "tag"}, Begin(n, stop)
      PROVE  /\ task'[n].note = Head(pending[n]) /\ task'[n].joined = Nothing
             /\ task'[n].at = stop
             /\ \A m \in Connections : m # n => task'[m] = task[m]
  <2> DEFINE t == Begun(stop, Head(pending[n]), store)
  <2>1. t \in Tasks /\ t.at = stop /\ t.note = Head(pending[n]) /\ t.joined = Nothing
    BY <1>2, <1>3, BeginFacts
  <2>2. task' = [task EXCEPT ![n] = t]
    BY <1>4 DEF Begin, Begun, Proceed
  <2> HIDE DEF t
  <2> QED
    BY <1>3, <2>1, <2>2
<1>5. due' \subseteq due \cup {Head(pending[n]).object.uid}
  BY DEF Takes, TakeNowhere, TakeAdd, TakeUpdate, TakeDelete, historyVars
<1>6. CASE TakeNowhere(n)
  BY <1>1, <1>2, <1>5, <1>6 DEF TakeNowhere
<1>7. CASE TakeAdd(n)
  <2>1. CASE seen[store]
    BY <1>1, <1>2, <1>5, <1>7, <2>1 DEF TakeAdd
  <2>2. CASE ~seen[store]
    BY <1>1, <1>2, <1>4, <1>5, <1>7, <2>2 DEF TakeAdd
  <2> QED
    BY <2>1, <2>2
<1>8. CASE TakeUpdate(n)
  <2>1. CASE task' = task
    BY <1>1, <1>2, <1>5, <2>1
  <2>2. CASE Begin(n, "tag")
    BY <1>1, <1>2, <1>4, <1>5, <1>8, <2>2 DEF TakeUpdate
  <2> QED
    BY <1>8, <2>1, <2>2 DEF TakeUpdate
<1>9. CASE TakeDelete(n)
  BY <1>1, <1>2, <1>4, <1>5, <1>9 DEF TakeDelete
<1> QED
  BY <1>6, <1>7, <1>8, <1>9 DEF Takes

LEMMA NotesOfTail ==
    ASSUME NEW q \in Seq(Notes), q # <<>>, NEW i \in 1 .. Len(Tail(q))
    PROVE  i + 1 \in 1 .. Len(q) /\ Tail(q)[i] = q[i + 1] /\ 1 \in 1 .. Len(q) /\ Head(q) = q[1]
<1>1. /\ Head(q) = q[1] /\ Len(q) \in Nat /\ Len(q) > 0 /\ Len(Tail(q)) = Len(q) - 1
      /\ \A j \in 1 .. Len(q) - 1 : Tail(q)[j] = q[j + 1]
  BY TailFacts
<1>2. i \in 1 .. Len(q) - 1 /\ 1 \in 1 .. Len(q)
  BY <1>1, SMT
<1>3. i + 1 \in 1 .. Len(q)
  BY <1>1, <1>2, SMT
<1> QED
  BY <1>1, <1>2, <1>3, Zenon

LEMMA ObjectsNext ==
    ASSUME TimelineRecordingAssumption, RecordingTypes, ObjectsInv,
           [TimelineRecordingNext]_timelineRecordingVars
    PROVE  ObjectsInv'
<1> USE DEF clusterSide, connectionVars, ObjectsInv, Of
<1>0. NoTask.at = "idle"
  BY NoTaskFacts
<1>t. /\ object \in [Clusters -> Objects \cup {Nothing}] /\ creations \in Nat
      /\ leadsTo \in [Connections -> Clusters \cup {Nothing}]
      /\ cached \in [Connections -> Objects \cup {Nothing}]
      /\ pending \in [Connections -> Seq(Notes)] /\ task \in [Connections -> Tasks]
      /\ due \subseteq Uids
  BY SMT DEF RecordingTypes, TimelineRecordingTypeOK, TimelineRecordingAssumption
<1>u. \A o \in Objects : o.uid \in Nat
  BY SMT DEF Objects, Uids
<1>v. \A x \in Notes : x.object \in Objects
  BY DEF Notes
<1>w. /\ \A n \in Connections : \A i \in 1 .. Len(pending[n]) : pending[n][i].object \in Objects
      /\ \A n \in Connections : task[n].at # "idle" => task[n].note.object \in Objects
  <2>1. ASSUME NEW q \in Seq(Notes), NEW i \in 1 .. Len(q)
        PROVE  q[i] \in Notes
    BY SMT
  <2> QED
    BY <1>t, <1>v, <2>1 DEF RecordingTypes, TaskFits
<1>1. CASE ClusterMoves
  <2>1. UNCHANGED <<connectionVars, informerVars, task, due>>
    BY <1>1 DEF ClusterMoves, historyVars
  <2> DEFINE Grows ==
        /\ creations' \in Nat /\ creations <= creations'
        /\ \A c \in Clusters : object'[c] # Nothing =>
              object'[c].cluster = c /\ object'[c].uid <= creations'
  <2>2. ASSUME NEW c \in Clusters, Create(c)
        PROVE  Grows
    <3>1. creations' = creations + 1 /\ creations' \in Nat /\ creations <= creations'
      BY <1>t, <2>2, SMT DEF Create
    <3>2. object'[c].cluster = c /\ object'[c].uid = creations'
      BY <1>t, <2>2 DEF Create, Keep
    <3>3. \A d \in Clusters : d # c => object'[d] = object[d]
      BY <1>t, <2>2 DEF Create, Keep
    <3> QED
      BY <1>t, <1>u, <3>1, <3>2, <3>3, SMT
  <2>3. ASSUME NEW c \in Clusters, Revise(c)
        PROVE  Grows
    <3>1. object[c] \in Objects /\ creations' = creations
      BY <1>t, <2>3 DEF Revise
    <3>2. object'[c].cluster = object[c].cluster /\ object'[c].uid = object[c].uid
      BY <1>t, <2>3, <3>1 DEF Revise, Keep, Objects
    <3>3. \A d \in Clusters : d # c => object'[d] = object[d]
      BY <1>t, <2>3 DEF Revise, Keep
    <3>4. creations <= creations'
      BY <1>t, <3>1, SMT
    <3> QED
      BY <1>t, <2>3, <3>1, <3>2, <3>3, <3>4 DEF Revise
  <2>4. ASSUME NEW c \in Clusters, Remove(c)
        PROVE  Grows
    <3>1. creations' = creations /\ creations <= creations'
      BY <1>t, <2>4, SMT DEF Remove
    <3> QED
      BY <1>t, <2>4, <3>1 DEF Remove, Keep
  <2>5. ASSUME NEW u \in Uids, GrowOld(u)
        PROVE  Grows
    <3>1. creations' = creations /\ creations <= creations'
      BY <1>t, <2>5, SMT DEF GrowOld
    <3> QED
      BY <1>t, <2>5, <3>1 DEF GrowOld
  <2>6. Grows
    BY <1>1, <2>2, <2>3, <2>4, <2>5 DEF ClusterMoves
  <2>7. \A u \in Nat : u <= creations => u <= creations'
    BY <1>t, <2>6, SMT
  <2>8. due \subseteq Nat
    BY <1>t, SMT DEF Uids
  <2>9. ASSUME NEW o \in Objects, NEW c, Of(o, c)
        PROVE  Of(o, c)'
    BY <1>u, <2>7, <2>9
  <2>10. Of(Nothing, leadsTo)'
    OBVIOUS
  <2>11. leadsTo' = leadsTo /\ cached' = cached /\ pending' = pending /\ task' = task /\ due' = due
    BY <2>1 DEF informerVars
  <2>12. \A c \in Clusters : Of(object[c], c)'
    BY <2>6
  <2>13. \A n \in Connections : Of(cached[n], leadsTo[n])'
    <3> SUFFICES ASSUME NEW n \in Connections PROVE Of(cached[n], leadsTo[n])'
      OBVIOUS
    <3>1. cached[n] \in Objects \/ cached[n] = Nothing
      BY <1>t
    <3> QED
      BY <2>9, <2>11, <3>1
  <2>14. \A n \in Connections : \A i \in 1 .. Len(pending[n]) : Of(pending[n][i].object, leadsTo[n])'
    <3> SUFFICES ASSUME NEW n \in Connections, NEW i \in 1 .. Len(pending[n])
                 PROVE  Of(pending[n][i].object, leadsTo[n])'
      BY <2>11
    <3>1. pending[n][i].object \in Objects
      BY <1>w
    <3>2. Of(pending[n][i].object, leadsTo[n])
      OBVIOUS
    <3> QED
      BY <2>9, <2>11, <3>1, <3>2
  <2>15. \A n \in Connections : task[n].at # "idle" => Of(task[n].note.object, leadsTo[n])'
    <3> SUFFICES ASSUME NEW n \in Connections, task[n].at # "idle"
                 PROVE  Of(task[n].note.object, leadsTo[n])'
      BY <2>11
    <3>1. task[n].note.object \in Objects
      BY <1>w
    <3>2. Of(task[n].note.object, leadsTo[n])
      OBVIOUS
    <3> QED
      BY <2>9, <2>11, <3>1, <3>2
  <2>16. \A u \in due : u <= creations'
    BY <2>7, <2>8
  <2> QED
    BY <2>11, <2>12, <2>13, <2>14, <2>15, <2>16
<1>2. CASE Switching
  <2>1. UNCHANGED <<clusterSide, pending, task>> /\ due' \subseteq due
    BY <1>2 DEF Switching, StopCaches, InformersStop, ResetStore, SwitchFails, InitStore,
        InitStoreFails, StartInformers, SyncCompletes, SwapContext, historyVars, informerVars
  <2>2. ASSUME NEW n \in Connections
        PROVE  cached'[n] \in {cached[n], Nothing}
    BY <1>2 DEF Switching, StopCaches, InformersStop, ResetStore, SwitchFails, InitStore,
        InitStoreFails, StartInformers, SyncCompletes, SwapContext, informerVars
  <2>3. ASSUME NEW n \in Connections
        PROVE  leadsTo'[n] = leadsTo[n] \/ Untouched(n)
    <3>1. CASE InitStore \/ InitStoreFails
      <4>1. leadsTo' = [leadsTo EXCEPT ![connection + 1] = context]
        BY <3>1 DEF InitStore, InitStoreFails
      <4>2. connection + 1 > connection
        BY SMT DEF RecordingTypes, TimelineRecordingTypeOK, TimelineRecordingAssumption
      <4> QED
        BY <1>t, <4>1, <4>2 DEF RecordingTypes, PhaseInv, Unstarted
    <3>2. CASE ~(InitStore \/ InitStoreFails)
      BY <1>2, <3>2 DEF Switching, StopCaches, InformersStop, ResetStore, SwitchFails,
          StartInformers, SyncCompletes, SwapContext
    <3> QED
      BY <3>1, <3>2
  <2>4. Len(<<>>) = 0 /\ \A i \in 1 .. 0 : FALSE
    BY SMT
  <2> QED
    BY <1>0, <2>1, <2>2, <2>3, <2>4 DEF Untouched
<1>3. CASE StashForgets \/ UNCHANGED timelineRecordingVars
  BY <1>3 DEF StashForgets, timelineRecordingVars, informerVars, historyVars
<1>4. ASSUME NEW n \in Connections, Observe(n)
      PROVE  ObjectsInv'
  <2> DEFINE now == object[leadsTo[n]]
             was == cached[n]
             note == IF was = Nothing THEN Note(n, "add", now)
                     ELSE IF now = Nothing THEN Note(n, "delete", was)
                     ELSE Note(n, "update", now)
  <2>1. /\ Running(n) /\ now # was /\ cached' = [cached EXCEPT ![n] = now]
        /\ pending' = [pending EXCEPT ![n] = Append(pending[n], note)]
        /\ UNCHANGED <<clusterSide, connectionVars, task, due>>
    BY <1>4 DEF Observe, historyVars
  <2>2. leadsTo[n] \in Clusters
    BY <2>1 DEF Running, RecordingTypes, PhaseInv, TimelineRecordingTypeOK
  <2>3. note.object \in {now, was} /\ note.object # Nothing
    BY <2>1 DEF Note
  <2>4. Of(note.object, leadsTo[n]) /\ Of(now, leadsTo[n])
    BY <2>2, <2>3
  <2> HIDE DEF note, now
  <2>5. ASSUME NEW i \in 1 .. Len(pending'[n])
        PROVE  Of(pending'[n][i].object, leadsTo[n])
    <3>1. pending[n] \in Seq(Notes) /\ pending'[n] = Append(pending[n], note)
      BY <1>t, <2>1
    <3>2. /\ Len(Append(pending[n], note)) = Len(pending[n]) + 1 /\ Len(pending[n]) \in Nat
          /\ \A j \in 1 .. Len(pending[n]) : Append(pending[n], note)[j] = pending[n][j]
          /\ Append(pending[n], note)[Len(pending[n]) + 1] = note
      BY <3>1, SMT
    <3>3. i \in 1 .. Len(pending[n]) \/ i = Len(pending[n]) + 1
      BY <2>5, <3>1, <3>2, SMT
    <3> QED
      BY <2>4, <3>1, <3>2, <3>3
  <2>6. \A m \in Connections : m # n => cached'[m] = cached[m] /\ pending'[m] = pending[m]
    BY <1>t, <2>1
  <2>7. cached'[n] = now
    BY <1>t, <2>1
  <2>8. /\ UNCHANGED <<object, creations, leadsTo>>
        /\ task' = task /\ due' = due
    BY <2>1
  <2>9. \A m \in Connections : Of(cached'[m], leadsTo[m])
    BY <2>4, <2>6, <2>7
  <2>10. \A m \in Connections : \A i \in 1 .. Len(pending'[m]) : Of(pending'[m][i].object, leadsTo[m])
    <3>1. ASSUME NEW m \in Connections, NEW i \in 1 .. Len(pending'[m])
          PROVE  Of(pending'[m][i].object, leadsTo[m])
      <4>1. CASE m = n
        BY <2>5, <4>1
      <4>2. CASE m # n
        <5>1. i \in 1 .. Len(pending[m]) /\ pending'[m][i] = pending[m][i]
          BY <2>6, <3>1, <4>2
        <5>2. Of(pending[m][i].object, leadsTo[m])
          BY <5>1, Zenon
        <5> QED BY <5>1, <5>2
      <4> QED BY <4>1, <4>2
    <3> QED BY <3>1
  <2> QED
    BY <2>8, <2>9, <2>10
<1>5. ASSUME NEW n \in Connections, ListenerEnds(n)
      PROVE  ObjectsInv'
  <2>1. Len(<<>>) = 0 /\ \A i \in 1 .. 0 : FALSE
    BY SMT
  <2>2. \A m \in Connections : pending'[m] \in {pending[m], <<>>}
    BY <1>t, <1>5 DEF ListenerEnds
  <2> QED
    BY <1>5, <2>1, <2>2 DEF ListenerEnds, historyVars
<1>6. ASSUME NEW n \in Connections, Takes(n)
      PROVE  ObjectsInv'
  <2>1. /\ pending[n] # <<>> /\ pending' = [pending EXCEPT ![n] = Tail(pending[n])]
        /\ UNCHANGED <<clusterSide, connectionVars, cached>>
        /\ \A m \in Connections : m # n => task'[m] = task[m]
        /\ task'[n] = NoTask \/ task'[n].note = Head(pending[n])
        /\ due' \subseteq due \cup {Head(pending[n]).object.uid}
        /\ Head(pending[n]) \in Notes
    BY <1>6, TakeChanges
  <2>2. Head(pending[n]) = pending[n][1] /\ 1 \in 1 .. Len(pending[n])
    <3>1. Head(pending[n]) = pending[n][1] /\ Len(pending[n]) \in Nat /\ Len(pending[n]) > 0
      BY <1>t, <2>1, TailFacts
    <3> QED
      BY <3>1, SMT
  <2>3. Of(Head(pending[n]).object, leadsTo[n])
    BY <2>2
  <2>4. Head(pending[n]).object # Nothing
    BY <1>v, <2>1 DEF TimelineRecordingAssumption
  <2>5. Head(pending[n]).object.uid <= creations
    BY <2>3, <2>4
  <2>6. \A i \in 1 .. Len(pending'[n]) : Of(pending'[n][i].object, leadsTo[n])
    <3>1. pending[n] \in Seq(Notes) /\ pending'[n] = Tail(pending[n])
      BY <1>t, <2>1
    <3> QED
      BY <2>1, <3>1, NotesOfTail
  <2>7. \A m \in Connections : m # n => pending'[m] = pending[m]
    BY <1>t, <2>1
  <2>8. ASSUME NEW m \in Connections, task'[m].at # "idle"
        PROVE  Of(task'[m].note.object, leadsTo[m])
    <3>1. CASE m = n
      <4>1. task'[n].note = Head(pending[n])
        BY <1>0, <2>1, <2>8, <3>1
      <4> QED BY <2>3, <3>1, <4>1
    <3>2. CASE m # n
      <4>1. task'[m] = task[m]
        BY <2>1, <3>2
      <4> QED BY <2>8, <4>1
    <3> QED BY <3>1, <3>2
  <2>9. /\ UNCHANGED <<object, creations, leadsTo>>
        /\ cached' = cached /\ due' \subseteq due \cup {Head(pending[n]).object.uid}
    BY <2>1
  <2>10. \A m \in Connections : \A i \in 1 .. Len(pending'[m]) : Of(pending'[m][i].object, leadsTo[m])
    <3>1. ASSUME NEW m \in Connections, NEW i \in 1 .. Len(pending'[m])
          PROVE  Of(pending'[m][i].object, leadsTo[m])
      <4>1. CASE m = n
        BY <2>6, <4>1
      <4>2. CASE m # n
        <5>1. i \in 1 .. Len(pending[m]) /\ pending'[m][i] = pending[m][i]
          BY <2>7, <3>1, <4>2
        <5>2. Of(pending[m][i].object, leadsTo[m])
          BY <5>1, Zenon
        <5> QED BY <5>1, <5>2
      <4> QED BY <4>1, <4>2
    <3> QED BY <3>1
  <2>11. \A u \in due' : u <= creations'
    BY <2>5, <2>9
  <2> QED
    BY <2>8, <2>9, <2>10, <2>11
<1>7. ASSUME NEW n \in Connections, RecorderStep(n)
      PROVE  ObjectsInv'
  <2>1. /\ task[n].at # "idle" /\ \A m \in Connections : m # n => task'[m] = task[m]
        /\ task'[n].at # "idle" => task'[n].note = task[n].note
        /\ UNCHANGED <<clusterSide, connectionVars, informerVars>>
        /\ due' \subseteq due
    BY <1>7, TaskChanges
  <2>2. \A m \in Connections : task'[m].at # "idle" => Of(task'[m].note.object, leadsTo[m])
    BY <2>1
  <2> QED
    BY <2>1, <2>2 DEF informerVars
<1> QED
  BY <1>1, <1>2, <1>3, <1>4, <1>5, <1>6, <1>7 DEF TimelineRecordingNext, Takes

LEMMA CurrentNext ==
    ASSUME TimelineRecordingAssumption, ~Draining, RecordingTypes, ObjectsInv, CurrentInv,
           [TimelineRecordingNext]_timelineRecordingVars
    PROVE  CurrentInv'
<1> USE DEF clusterSide, connectionVars, CurrentInv, Running, EventsAreOfTheirCluster
<1>0. NoTask.at = "idle"
  BY NoTaskFacts
<1>t. task \in [Connections -> Tasks] /\ connection \in Nat
  BY SMT DEF RecordingTypes, TimelineRecordingTypeOK, TimelineRecordingAssumption
<1>1. CASE ClusterMoves
  BY <1>1 DEF ClusterMoves, storeVars
<1>2. CASE Switching
  <2>1. task' = task
    BY <1>2 DEF Switching, StopCaches, InformersStop, ResetStore, SwitchFails, InitStore,
        InitStoreFails, StartInformers, SyncCompletes, SwapContext
  <2>2. recorded' \subseteq recorded
    BY <1>2 DEF Switching, StopCaches, InformersStop, ResetStore, SwitchFails, InitStore,
        InitStoreFails, StartInformers, SyncCompletes, SwapContext
  <2>3. CASE StopCaches
    <3>1. \A n \in Connections : task[n].at = "idle"
      BY <1>0, <2>3 DEF StopCaches, InformersStop
    <3> QED
      BY <2>1, <2>2, <2>3, <3>1 DEF StopCaches
  <2>4. CASE StartInformers \/ SyncCompletes
    BY <2>1, <2>2, <2>4 DEF StartInformers, SyncCompletes, storeVars
  <2>5. CASE ~(StopCaches \/ StartInformers \/ SyncCompletes)
    <3>1. phase \notin {"started", "up"} /\ stash' = stash
      BY <1>2, <2>5 DEF Switching, ResetStore, SwitchFails, InitStore, InitStoreFails, SwapContext
    <3> QED
      BY <2>1, <2>2, <3>1
  <2> QED
    BY <2>3, <2>4, <2>5
<1>3. CASE StashForgets \/ UNCHANGED timelineRecordingVars
  BY <1>3 DEF StashForgets, timelineRecordingVars, storeVars
<1>4. ASSUME NEW n \in Connections, Observe(n) \/ ListenerEnds(n)
      PROVE  CurrentInv'
  BY <1>4 DEF Observe, ListenerEnds, storeVars
<1>5. ASSUME NEW n \in Connections, Takes(n)
      PROVE  CurrentInv'
  <2>1. /\ Running(n)
        /\ UNCHANGED <<clusterSide, connectionVars, store, stash, recorded>>
        /\ \A m \in Connections : m # n => task'[m] = task[m]
        /\ task'[n] # NoTask => store # 0 /\ task'[n].at \in {"stash", "tag", "join"}
    BY <1>5, TakeChanges
  <2> QED
    BY <1>0, <2>1
<1>6. ASSUME NEW n \in Connections, RecorderStep(n)
      PROVE  CurrentInv'
  <2>1. /\ task[n].at # "idle" /\ task[n].note \in Notes
        /\ \A m \in Connections : m # n => task'[m] = task[m]
        /\ UNCHANGED <<clusterSide, connectionVars, store>>
        /\ task'[n].at \in {"record", "mark"} =>
              \/ task[n].at = "tag" /\ task'[n].tag = context
              \/ task[n].at = "record" /\ task'[n].tag = task[n].tag
        /\ recorded' # recorded => task[n].at = "record"
        /\ \A e \in recorded' :
              e \in recorded \/ e \in {Event(n, "historical"), Event(n, task[n].note.op)}
    BY <1>6, TaskChanges
  <2>2. Running(n) /\ store # 0 /\ leadsTo[n] = context
    BY <2>1 DEF RecordingTypes, PhaseInv
  <2>3. \A m \in Connections : task'[m].at \in {"record", "mark"} => task'[m].tag = leadsTo'[m]
    BY <2>1, <2>2
  <2>4. \A m \in Connections : task'[m].at # "idle" => Running(m)' /\ store' # 0
    BY <2>1, <2>2
  <2>5. stash' # Nothing => phase' \in {"started", "up"} /\ store' # 0
    BY <2>1, <2>2
  <2>6. ASSUME NEW e \in recorded'
        PROVE  e.tag = e.object.cluster
    <3>1. CASE e \in recorded
      BY <3>1
    <3>2. CASE e \notin recorded
      <4>1. task[n].at = "record" /\ e \in {Event(n, "historical"), Event(n, task[n].note.op)}
        BY <2>1, <2>6, <3>2
      <4>2. e.tag = task[n].tag /\ e.object = task[n].note.object
        BY <4>1 DEF Event
      <4>3. task[n].tag = leadsTo[n]
        BY <4>1
      <4>4. task[n].note.object.cluster = leadsTo[n]
        <5>1. task[n].note.object # Nothing
          BY <2>1 DEF Notes, TimelineRecordingAssumption
        <5> QED
          BY <2>1, <5>1 DEF ObjectsInv, Of
      <4> QED
        BY <4>2, <4>3, <4>4
    <3> QED
      BY <3>1, <3>2
  <2> QED
    BY <2>3, <2>4, <2>5, <2>6
<1> QED
  BY <1>1, <1>2, <1>3, <1>4, <1>5, <1>6 DEF TimelineRecordingNext, Takes

\* The object last seen deleted once a note has been told.
After(note) == IF note.op = "delete" THEN note.object ELSE note.before

\* A delete comes between two adds, and each note knows what went before it.
Follows(a, b) == b.before = After(a) /\ (b.op = "add" <=> a.op = "delete")

QueueInv(n) ==
    LET q == pending[n]
    IN  /\ \A i \in 1 .. Len(q) - 1 : Follows(q[i], q[i + 1])
        /\ q # <<>> => /\ gone[n] = After(q[Len(q)])
                       /\ cached[n] # Nothing <=> q[Len(q)].op # "delete"

\* What had last gone, and whether the object was there, before the notes that
\* the recorder has not taken.
LastGone(n) == IF pending[n] = <<>> THEN gone[n] ELSE Head(pending[n]).before
Held(n) == IF pending[n] = <<>> THEN cached[n] # Nothing ELSE Head(pending[n]).op # "add"

\* A recorder's note is the one before those, the stash holds what last went,
\* and a mark made for this store is for an object that is there.
RecorderInv(n) ==
    /\ stash # Nothing => task[n].at = "stash" \/ stash = LastGone(n)
    /\ task[n].at # "idle" =>
          /\ After(task[n].note) = LastGone(n)
          /\ Held(n) <=> task[n].note.op # "delete"
          /\ task[n].joined \in {Nothing, task[n].note.before}
    /\ store # 0 /\ seen[store] /\ ~inherited => Held(n)

HistoryInv ==
    /\ \A n \in Connections : Running(n) => QueueInv(n) /\ RecorderInv(n)
    /\ JoinsThePredecessor
    /\ phase = "stored" /\ store # 0 => (seen[store] <=> inherited)

LEMMA QueueGrows ==
    ASSUME TimelineRecordingAssumption, RecordingTypes, NEW n \in Connections, QueueInv(n),
           Observe(n)
    PROVE  QueueInv(n)' /\ LastGone(n)' = LastGone(n) /\ (Held(n)' <=> Held(n))
<1> DEFINE now == object[leadsTo[n]]
           was == cached[n]
           note == IF was = Nothing THEN Note(n, "add", now)
                   ELSE IF now = Nothing THEN Note(n, "delete", was)
                   ELSE Note(n, "update", now)
           q == pending[n]
<1>1. /\ Running(n) /\ now # was /\ cached' = [cached EXCEPT ![n] = now]
      /\ gone' = (IF now = Nothing THEN [gone EXCEPT ![n] = was] ELSE gone)
      /\ pending' = [pending EXCEPT ![n] = Append(q, note)]
  BY DEF Observe
<1>2. /\ now \in Objects \cup {Nothing} /\ was \in Objects \cup {Nothing}
      /\ gone[n] \in Objects \cup {Nothing} /\ q \in Seq(Notes)
      /\ cached \in [Connections -> Objects \cup {Nothing}]
      /\ gone \in [Connections -> Objects \cup {Nothing}]
      /\ pending \in [Connections -> Seq(Notes)]
  <2>1. leadsTo[n] \in Clusters
    BY <1>1 DEF RecordingTypes, PhaseInv, Running, TimelineRecordingTypeOK
  <2> QED
    BY <2>1 DEF RecordingTypes, TimelineRecordingTypeOK
<1>3. /\ note \in Notes /\ note.before = gone[n]
      /\ note.op = "add" <=> was = Nothing
      /\ note.op # "delete" <=> now # Nothing
      /\ note.op = "delete" => note.object = was
  BY <1>1, <1>2 DEF Note, Notes
<1>4. gone'[n] = After(note)
  BY <1>1, <1>2, <1>3 DEF After
<1> HIDE DEF note, now, was, q
<1>5. pending'[n] = Append(q, note) /\ cached'[n] = now
  BY <1>1, <1>2
<1>6. /\ Append(q, note) # <<>> /\ Len(q) \in Nat /\ Len(Append(q, note)) = Len(q) + 1
      /\ \A i \in 1 .. Len(q) : Append(q, note)[i] = q[i]
      /\ Append(q, note)[Len(q) + 1] = note
      /\ q = <<>> => Head(Append(q, note)) = note
      /\ q # <<>> => Head(Append(q, note)) = Head(q)
  BY <1>2, <1>3, AppendFacts
<1>7. q # <<>> => Len(q) > 0 /\ Len(q) \in 1 .. Len(q)
  <2>1. q # <<>> => Len(q) > 0
    BY <1>2, TailFacts
  <2> QED
    BY <1>6, <2>1, SMT
<1>8. q = <<>> => Len(q) = 0
  BY SMT
<1>9. q # <<>> => gone[n] = After(q[Len(q)]) /\ (was # Nothing <=> q[Len(q)].op # "delete")
  BY DEF QueueInv, q, was
<1>10. ASSUME NEW i \in 1 .. Len(Append(q, note)) - 1
       PROVE  Follows(Append(q, note)[i], Append(q, note)[i + 1])
  <2>1. i \in 1 .. Len(q) /\ (i = Len(q) \/ (i \in 1 .. Len(q) - 1 /\ i + 1 \in 1 .. Len(q)))
    BY <1>6, <1>10, SMT
  <2>2. CASE i = Len(q)
    <3>1. q # <<>>
      BY <1>8, <2>1, <2>2, SMT
    <3> QED
      BY <1>3, <1>6, <1>7, <1>9, <2>2, <3>1 DEF Follows
  <2>3. CASE i \in 1 .. Len(q) - 1 /\ i + 1 \in 1 .. Len(q)
    <3>1. Follows(q[i], q[i + 1])
      BY <2>3 DEF QueueInv, q
    <3> QED
      BY <1>6, <2>1, <2>3, <3>1
  <2> QED
    BY <2>1, <2>2, <2>3
<1>11. QueueInv(n)'
  <2>1. Append(q, note)[Len(Append(q, note))] = note
    BY <1>6
  <2> QED
    BY <1>3, <1>4, <1>5, <1>10, <2>1 DEF QueueInv
<1>12. LastGone(n)' = LastGone(n)
  BY <1>3, <1>5, <1>6 DEF LastGone, q
<1>13. Held(n)' <=> Held(n)
  BY <1>3, <1>5, <1>6 DEF Held, q, was
<1> QED
  BY <1>11, <1>12, <1>13

LEMMA QueueShrinks ==
    ASSUME TimelineRecordingAssumption, RecordingTypes, NEW n \in Connections, QueueInv(n),
           pending[n] # <<>>, pending' = [pending EXCEPT ![n] = Tail(pending[n])],
           UNCHANGED <<cached, gone>>
    PROVE  /\ QueueInv(n)' /\ LastGone(n)' = After(Head(pending[n]))
           /\ Held(n)' <=> Head(pending[n]).op # "delete"
           /\ LastGone(n) = Head(pending[n]).before
           /\ Held(n) <=> Head(pending[n]).op # "add"
<1> DEFINE q == pending[n]
<1>1. q \in Seq(Notes) /\ q # <<>> /\ pending'[n] = Tail(q)
  BY DEF RecordingTypes, TimelineRecordingTypeOK
<1>2. /\ \A i \in 1 .. Len(q) - 1 : Follows(q[i], q[i + 1])
      /\ gone[n] = After(q[Len(q)]) /\ (cached[n] # Nothing <=> q[Len(q)].op # "delete")
  BY DEF QueueInv
<1>h. LastGone(n) = Head(q).before /\ (Held(n) <=> Head(q).op # "add")
  BY DEF LastGone, Held
<1> HIDE DEF q
<1>3. /\ Head(q) \in Notes /\ Head(q) = q[1] /\ Len(q) \in Nat /\ Len(q) > 0
      /\ Tail(q) \in Seq(Notes) /\ Len(Tail(q)) = Len(q) - 1
      /\ \A i \in 1 .. Len(q) - 1 : Tail(q)[i] = q[i + 1]
      /\ Tail(q) # <<>> => Head(Tail(q)) = q[2] /\ Len(q) > 1
      /\ Tail(q) = <<>> => Len(q) = 1
  BY <1>1, TailFacts
<1>4. CASE Tail(q) = <<>>
  <2>1. q[Len(q)] = Head(q)
    BY <1>3, <1>4
  <2>2. Len(<<>>) = 0 /\ \A i \in 1 .. 0 - 1 : FALSE
    BY SMT
  <2>3. QueueInv(n)'
    BY <1>1, <1>4, <2>2 DEF QueueInv
  <2> QED
    BY <1>1, <1>2, <1>4, <1>h, <2>1, <2>3 DEF LastGone, Held, q
<1>5. CASE Tail(q) # <<>>
  <2>1. Follows(Head(q), Head(Tail(q)))
    <3>1. 1 \in 1 .. Len(q) - 1 /\ 1 + 1 = 2
      BY <1>3, <1>5, SMT
    <3> QED
      BY <1>2, <1>3, <1>5, <3>1
  <2>2. Head(Tail(q)) \in Notes
    BY <1>3, <1>5, NotesTail
  <2>3. \A i \in 1 .. Len(Tail(q)) - 1 : Follows(Tail(q)[i], Tail(q)[i + 1])
    <3>1. ASSUME NEW i \in 1 .. Len(Tail(q)) - 1
          PROVE  i \in 1 .. Len(q) - 1 /\ i + 1 \in 1 .. Len(q) - 1
      BY <1>3, <3>1, SMT
    <3> QED
      BY <1>2, <1>3, <3>1
  <2>4. Tail(q)[Len(Tail(q))] = q[Len(q)]
    <3>1. Len(q) - 1 \in 1 .. Len(q) - 1 /\ (Len(q) - 1) + 1 = Len(q)
      BY <1>3, <1>5, SMT
    <3> QED
      BY <1>3, <3>1
  <2>5. QueueInv(n)'
    BY <1>1, <1>2, <2>3, <2>4 DEF QueueInv
  <2>6. LastGone(n)' = After(Head(q)) /\ (Held(n)' <=> Head(q).op # "delete")
    BY <1>1, <1>5, <2>1, <2>2 DEF LastGone, Held, Follows
  <2> QED
    BY <1>h, <2>5, <2>6 DEF q
<1> QED
  BY <1>4, <1>5

LEMMA HistoryClusters ==
    ASSUME HistoryInv, ClusterMoves \/ UNCHANGED timelineRecordingVars
    PROVE  HistoryInv'
<1>1. UNCHANGED <<connectionVars, storeVars, stash, informerVars, task, recorded, historyVars>>
  BY DEF ClusterMoves, timelineRecordingVars
<1>2. ASSUME NEW n \in Connections, QueueInv(n)
      PROVE  QueueInv(n)'
  BY <1>1, <1>2 DEF QueueInv, informerVars
<1>3. ASSUME NEW n \in Connections, RecorderInv(n)
      PROVE  RecorderInv(n)'
  BY <1>1, <1>3 DEF RecorderInv, LastGone, Held, informerVars, storeVars, historyVars
<1> QED
  BY <1>1, <1>2, <1>3 DEF HistoryInv, Running, JoinsThePredecessor, connectionVars, storeVars,
      historyVars

LEMMA HistorySwitching ==
    ASSUME TimelineRecordingAssumption, ~Draining, RecordingTypes, CurrentInv, HistoryInv,
           Switching
    PROVE  HistoryInv'
<1>t. /\ connection \in Nat /\ seen \in [Connections -> BOOLEAN] /\ store \in {0, connection}
      /\ connection # 0 => connection \in Connections
  BY SMT DEF RecordingTypes, TimelineRecordingTypeOK, TimelineRecordingAssumption, Connections
<1>1. recorded' \subseteq recorded /\ task' = task /\ pending' = pending
  BY DEF Switching, StopCaches, InformersStop, ResetStore, SwitchFails, InitStore, InitStoreFails,
      StartInformers, SyncCompletes, SwapContext, informerVars
<1>2. JoinsThePredecessor'
  BY <1>1 DEF HistoryInv, JoinsThePredecessor
<1>3. CASE StartInformers
  <2>1. /\ phase = "stored" /\ phase' = "started" /\ stash = Nothing
        /\ UNCHANGED <<connection, storeVars, stash, informerVars, task, historyVars>>
    BY <1>3 DEF StartInformers, CurrentInv
  <2>2. ASSUME NEW n \in Connections, Running(n)'
        PROVE  QueueInv(n)' /\ RecorderInv(n)'
    <3>1. Unstarted(n)
      BY <2>1, <2>2 DEF Running, Unstarted
    <3>2. Untouched(n)
      BY <3>1 DEF RecordingTypes, PhaseInv
    <3>3. Len(<<>>) = 0 /\ \A i \in 1 .. 0 - 1 : FALSE
      BY SMT
    <3>4. QueueInv(n)'
      BY <2>1, <3>2, <3>3 DEF QueueInv, Untouched, informerVars
    <3>5. task'[n].at = "idle"
      BY <2>1, <3>2, NoTaskFacts DEF Untouched
    <3>6. store # 0 => (seen[store] <=> inherited)
      BY <2>1 DEF HistoryInv
    <3> QED
      BY <2>1, <3>4, <3>5, <3>6 DEF RecorderInv, storeVars, historyVars
  <2> QED
    BY <1>2, <2>1, <2>2 DEF HistoryInv
<1>4. CASE SyncCompletes
  <2>1. /\ UNCHANGED <<connection, storeVars, stash, informerVars, task, historyVars>>
        /\ phase = "started" /\ phase' = "up"
    BY <1>4 DEF SyncCompletes
  <2>2. ASSUME NEW n \in Connections, Running(n)'
        PROVE  QueueInv(n)' /\ RecorderInv(n)'
    <3>1. QueueInv(n) /\ RecorderInv(n)
      BY <2>1, <2>2 DEF HistoryInv, Running
    <3> QED
      BY <2>1, <3>1 DEF QueueInv, RecorderInv, LastGone, Held, informerVars, storeVars, historyVars
  <2> QED
    BY <1>2, <2>1, <2>2 DEF HistoryInv
<1>5. CASE InitStore \/ InitStoreFails
  <2>1. phase' = "stored" /\ phase = "swapped" /\ connection' = connection + 1
    BY <1>5 DEF InitStore, InitStoreFails
  <2>2. connection' \in Connections /\ store = 0
    BY <1>t, <2>1, SMT DEF RecordingTypes, PhaseInv, TimelineRecordingAssumption, Connections
  <2>3. store' # 0 => (seen'[store'] <=> inherited')
    <3>1. CASE InitStore
      BY <1>t, <2>2, <3>1 DEF InitStore
    <3>2. CASE InitStoreFails
      BY <2>2, <3>2 DEF InitStoreFails, storeVars
    <3> QED
      BY <1>5, <3>1, <3>2
  <2> QED
    BY <1>2, <2>1, <2>3 DEF HistoryInv, Running
<1>6. CASE ~(StartInformers \/ SyncCompletes \/ InitStore \/ InitStoreFails)
  <2>1. phase' \notin {"started", "up", "stored"}
    BY <1>6 DEF Switching, StopCaches, InformersStop, ResetStore, SwitchFails, SwapContext
  <2> QED
    BY <1>2, <2>1 DEF HistoryInv, Running
<1> QED
  BY <1>3, <1>4, <1>5, <1>6

LEMMA HistoryInformer ==
    ASSUME TimelineRecordingAssumption, RecordingTypes, HistoryInv, NEW n \in Connections,
           Observe(n) \/ ListenerEnds(n)
    PROVE  HistoryInv'
<1>1. UNCHANGED <<connectionVars, storeVars, stash, task, recorded, historyVars>>
  BY DEF Observe, ListenerEnds
<1>2. ASSUME NEW m \in Connections, Running(m)', m # n
      PROVE  QueueInv(m)' /\ RecorderInv(m)'
  <2>1. cached'[m] = cached[m] /\ gone'[m] = gone[m] /\ pending'[m] = pending[m]
    BY <1>2 DEF Observe, ListenerEnds, RecordingTypes, TimelineRecordingTypeOK
  <2>2. QueueInv(m) /\ RecorderInv(m)
    BY <1>1, <1>2 DEF HistoryInv, Running, connectionVars
  <2> QED
    BY <1>1, <2>1, <2>2 DEF QueueInv, RecorderInv, LastGone, Held, storeVars, historyVars
<1>3. ASSUME Running(n)'
      PROVE  QueueInv(n)' /\ RecorderInv(n)'
  <2>1. Running(n) /\ Observe(n)
    BY <1>1, <1>3 DEF Running, ListenerEnds, connectionVars
  <2>2. QueueInv(n) /\ RecorderInv(n)
    BY <2>1 DEF HistoryInv
  <2>3. QueueInv(n)' /\ LastGone(n)' = LastGone(n) /\ (Held(n)' <=> Held(n))
    BY <2>1, <2>2, QueueGrows
  <2> QED
    BY <1>1, <2>2, <2>3 DEF RecorderInv, storeVars, historyVars
<1>4. ASSUME NEW m \in Connections, Running(m)'
      PROVE  QueueInv(m)' /\ RecorderInv(m)'
  BY <1>2, <1>3, <1>4
<1> QED
  BY <1>1, <1>4 DEF HistoryInv, JoinsThePredecessor, connectionVars, storeVars, historyVars

LEMMA HistoryTakes ==
    ASSUME TimelineRecordingAssumption, ~Draining, RecordingTypes, CurrentInv, HistoryInv,
           NEW n \in Connections, Takes(n)
    PROVE  HistoryInv'
<1>1. /\ Running(n)
      /\ task[n] = NoTask /\ pending[n] # <<>> /\ Head(pending[n]) \in Notes
      /\ pending' = [pending EXCEPT ![n] = Tail(pending[n])]
      /\ UNCHANGED <<clusterSide, persistent, connectionVars, store, synced, stash, cached, gone,
                     recorded>>
  BY TakeChanges
<1>2. \/ task'[n] = NoTask
      \/ /\ store # 0 /\ task'[n].note = Head(pending[n]) /\ task'[n].joined = Nothing
         /\ task'[n].at = "stash" /\ TakeDelete(n)
      \/ /\ store # 0 /\ task'[n].note = Head(pending[n]) /\ task'[n].joined = Nothing
         /\ task'[n].at = "tag" /\ TakeUpdate(n)
      \/ /\ store # 0 /\ task'[n].note = Head(pending[n]) /\ task'[n].joined = Nothing
         /\ task'[n].at = "join" /\ TakeAdd(n) /\ ~seen[store]
  BY TakeChanges
<1>3. QueueInv(n) /\ RecorderInv(n)
  BY <1>1 DEF HistoryInv
<1>4. /\ QueueInv(n)' /\ LastGone(n)' = After(Head(pending[n]))
      /\ Held(n)' <=> Head(pending[n]).op # "delete"
      /\ LastGone(n) = Head(pending[n]).before
      /\ Held(n) <=> Head(pending[n]).op # "add"
  BY <1>1, <1>3, QueueShrinks
<1>5. NoTask.at = "idle"
  BY NoTaskFacts
<1>6. stash # Nothing => stash = Head(pending[n]).before /\ store # 0
  BY <1>1, <1>3, <1>4, <1>5 DEF RecorderInv, CurrentInv
<1>7. stash' # Nothing => task'[n].at = "stash" \/ stash' = LastGone(n)'
  <2>1. CASE Head(pending[n]).op # "delete"
    BY <1>1, <1>4, <1>6, <2>1 DEF After
  <2>2. CASE Head(pending[n]).op = "delete"
    <3>1. CASE TakeNowhere(n)
      BY <1>1, <1>6, <3>1 DEF TakeNowhere
    <3>2. CASE TakeDelete(n)
      <4>1. /\ store \in 0 .. MaxConnections /\ task \in [Connections -> Tasks]
            /\ Begin(n, "stash")
        BY <3>2, SMT DEF TakeDelete, RecordingTypes, TimelineRecordingTypeOK,
            TimelineRecordingAssumption
      <4>2. Begun("stash", Head(pending[n]), store).at = "stash"
        BY <1>1, <4>1, BeginFacts
      <4>3. task' = [task EXCEPT ![n] = Begun("stash", Head(pending[n]), store)]
        BY <4>1 DEF Begin, Begun, Proceed
      <4> QED
        BY <4>1, <4>2, <4>3
    <3> QED
      BY <2>2, <3>1, <3>2 DEF Takes, TakeAdd, TakeUpdate
  <2> QED
    BY <2>1, <2>2
<1>8. task'[n].at # "idle" =>
        /\ After(task'[n].note) = LastGone(n)'
        /\ Held(n)' <=> task'[n].note.op # "delete"
        /\ task'[n].joined \in {Nothing, task'[n].note.before}
  BY <1>2, <1>4, <1>5
<1>9. store' # 0 /\ seen'[store'] /\ ~inherited' => Held(n)'
  <2>1. CASE TakeDelete(n)
    <3>1. store # 0 => store \in Connections /\ seen \in [Connections -> BOOLEAN]
      BY SMT DEF RecordingTypes, TimelineRecordingTypeOK, TimelineRecordingAssumption, Connections
    <3> QED
      BY <1>1, <2>1, <3>1 DEF TakeDelete, Mark
  <2>2. CASE TakeNowhere(n)
    BY <1>1, <2>2 DEF TakeNowhere
  <2>3. CASE TakeAdd(n) \/ TakeUpdate(n)
    BY <1>4, <2>3 DEF TakeAdd, TakeUpdate
  <2> QED
    BY <2>1, <2>2, <2>3 DEF Takes
<1>10. RecorderInv(n)'
  BY <1>7, <1>8, <1>9 DEF RecorderInv
<1>11. \A m \in Connections : Running(m)' => m = n
  BY <1>1 DEF Running, connectionVars
<1>12. JoinsThePredecessor' /\ phase' # "stored"
  BY <1>1 DEF HistoryInv, JoinsThePredecessor, Running, connectionVars
<1> QED
  BY <1>4, <1>10, <1>11, <1>12 DEF HistoryInv

LEMMA HistoryRecorder ==
    ASSUME TimelineRecordingAssumption, RecordingTypes, CurrentInv, HistoryInv,
           NEW n \in Connections, RecorderStep(n)
    PROVE  HistoryInv'
<1>1. /\ task[n].at # "idle" /\ task[n].note \in Notes /\ task \in [Connections -> Tasks]
      /\ TaskFits(task[n]) /\ task[n] \in Tasks
  BY TaskChanges DEF RecordingTypes, TimelineRecordingTypeOK
<1>2. /\ UNCHANGED <<clusterSide, persistent, connectionVars, synced, informerVars, store>>
      /\ task'[n].at # "idle" => task'[n].note = task[n].note
  BY TaskChanges
<1>3. Running(n) /\ store # 0
  BY <1>1 DEF CurrentInv
<1>4. QueueInv(n) /\ RecorderInv(n)
  BY <1>3 DEF HistoryInv
<1>5. QueueInv(n)' /\ LastGone(n)' = LastGone(n) /\ (Held(n)' <=> Held(n))
  BY <1>2, <1>4 DEF QueueInv, LastGone, Held, informerVars
<1>6. /\ After(task[n].note) = LastGone(n)
      /\ Held(n) <=> task[n].note.op # "delete"
      /\ task[n].joined \in {Nothing, task[n].note.before}
      /\ task[n].at # "stash" /\ stash # Nothing => stash = LastGone(n)
  BY <1>1, <1>4 DEF RecorderInv
<1>7. NoTask.at = "idle" /\ NoTask \in Tasks
  BY NoTaskFacts
\* Where the step leaves the recorder and the stash.
<1> DEFINE Goes(t) == /\ task' = [task EXCEPT ![n] = t]
                      /\ t.at # "idle" => t.joined \in {Nothing, task[n].note.before}
<1>8. /\ \E t \in Tasks : Goes(t)
      /\ stash' # Nothing => stash' = LastGone(n)
  <2>1. CASE StashDeleted(n)
    <3>1. task' = [task EXCEPT ![n] = Told(task[n])] /\ stash' = task[n].note.object
          /\ task[n].at = "stash"
      BY <2>1 DEF StashDeleted, Told, Proceed
    <3>2. stash' = LastGone(n)
      BY <1>1, <1>6, <3>1 DEF TaskFits, After
    <3> QED
      BY <1>1, <1>6, <3>1, <3>2, ToTag
  <2>2. ASSUME NEW differs \in BOOLEAN, Join(n, differs)
        PROVE  /\ \E t \in Tasks : Goes(t)
               /\ stash' # Nothing => stash' = LastGone(n)
    <3> DEFINE tries == synced /\ task[n].note.object.uid \in young /\ stash # Nothing
               o == IF tries /\ stash.uid # task[n].note.object.uid /\ differs
                    THEN stash ELSE Nothing
    <3>1. /\ task' = [task EXCEPT ![n] = Joining(task[n], o)] /\ stash' \in {stash, Nothing}
          /\ task[n].at = "join"
      BY <2>2 DEF Join, Joining, Proceed
    <3>2. LastGone(n) = task[n].note.before /\ stash \in {Nothing, task[n].note.before}
      BY <1>1, <1>6, <3>1 DEF TaskFits, After
    <3>3. o \in {Nothing, task[n].note.before} /\ o \in Objects \cup {Nothing}
      BY <3>2 DEF RecordingTypes, TimelineRecordingTypeOK
    <3> HIDE DEF o
    <3>4. Joining(task[n], o) \in Tasks /\ Joining(task[n], o).joined = o
      BY <1>1, <3>3, ToTagJoined
    <3>5. stash' # Nothing => stash' = LastGone(n)
      BY <3>1, <3>2
    <3> QED
      BY <3>1, <3>3, <3>4, <3>5
  <2>3. CASE Tag(n)
    <3> DEFINE b == /\ task[n].note.op = "add"
                    /\ ~synced \/ task[n].note.object.uid \notin young
    <3>1. /\ task' = [task EXCEPT ![n] = Tagged(task[n], context, b)] /\ stash' = stash
          /\ task[n].at = "tag"
      BY <2>3 DEF Tag, Tagged, Proceed
    <3>2. b \in BOOLEAN /\ context \in Clusters
      BY DEF RecordingTypes, TimelineRecordingTypeOK
    <3> HIDE DEF b
    <3>3. /\ Tagged(task[n], context, b) \in Tasks
          /\ Tagged(task[n], context, b).joined = task[n].joined
      BY <1>1, <3>2, ToRecord
    <3>4. stash' # Nothing => stash' = LastGone(n)
      BY <1>6, <3>1
    <3> QED
      BY <1>6, <3>1, <3>3, <3>4
  <2>4. CASE Record(n) \/ RecordFails(n) \/ MarkSeen(n)
    <3>1. /\ Proceed(n, Marking(task[n])) \/ Proceed(n, NoTask)
          /\ task[n].at # "stash" /\ stash' = stash
      BY <2>4 DEF Record, RecordFails, MarkSeen, Marking
    <3> QED
      BY <1>1, <1>6, <1>7, <3>1, ToMark DEF Proceed
  <2> QED
    BY <2>1, <2>2, <2>3, <2>4 DEF RecorderStep
<1>9. task'[n].at # "idle" => task'[n].joined \in {Nothing, task[n].note.before}
  BY <1>1, <1>8
<1>10. store' # 0 /\ seen'[store'] /\ ~inherited' => Held(n)
  <2>1. CASE MarkSeen(n)
    <3>1. task[n].note.op = "add"
      BY <1>1, <2>1 DEF MarkSeen, TaskFits
    <3> QED
      BY <1>6, <3>1
  <2>2. CASE ~MarkSeen(n)
    <3>1. UNCHANGED <<seen, inherited>>
      BY <2>2 DEF RecorderStep, StashDeleted, Join, Tag, Record, RecordFails, storeVars, historyVars
    <3> QED
      BY <1>2, <1>4, <3>1 DEF RecorderInv
  <2> QED
    BY <2>1, <2>2
<1>11. RecorderInv(n)'
  BY <1>2, <1>5, <1>6, <1>8, <1>9, <1>10 DEF RecorderInv
<1>12. JoinsThePredecessor'
  <2>1. ASSUME NEW e \in recorded'
        PROVE  e.joined \in {Nothing, e.before}
    <3>1. CASE e \in recorded
      BY <3>1 DEF HistoryInv, JoinsThePredecessor
    <3>2. CASE e \in {Event(n, "historical"), Event(n, task[n].note.op)}
      <4>1. e.joined \in {Nothing, task[n].joined} /\ e.before = task[n].note.before
        BY <3>2 DEF Event
      <4> QED
        BY <1>6, <4>1
    <3> QED
      BY <3>1, <3>2, TaskChanges
  <2> QED
    BY <2>1 DEF JoinsThePredecessor
<1>13. (\A m \in Connections : Running(m)' => m = n) /\ phase' # "stored"
  BY <1>2, <1>3 DEF Running, connectionVars
<1> QED
  BY <1>5, <1>11, <1>12, <1>13 DEF HistoryInv

\* Everything the history depends on.
RecordingInv == RecordingTypes /\ ObjectsInv /\ CurrentInv /\ HistoryInv

LEMMA RecordingInvInit ==
    ASSUME TimelineRecordingAssumption, TimelineRecordingInit
    PROVE  RecordingInv
<1>1. RecordingTypes
  BY TypesInit
<1>2. NoTask.at = "idle" /\ Len(<<>>) = 0 /\ \A i \in 1 .. 0 : FALSE
  BY NoTaskFacts, SMT
<1>3. ObjectsInv
  BY <1>2 DEF TimelineRecordingInit, ObjectsInv, Of
<1>4. CurrentInv /\ HistoryInv
  BY <1>2 DEF TimelineRecordingInit, CurrentInv, HistoryInv, Running, EventsAreOfTheirCluster,
      JoinsThePredecessor
<1> QED
  BY <1>1, <1>3, <1>4 DEF RecordingInv

LEMMA RecordingInvNext ==
    ASSUME TimelineRecordingAssumption, ~Draining, RecordingInv,
           [TimelineRecordingNext]_timelineRecordingVars
    PROVE  RecordingInv'
<1> USE DEF RecordingInv
<1>1. RecordingTypes' /\ ObjectsInv' /\ CurrentInv'
  BY TypesNext, ObjectsNext, CurrentNext
<1>2. HistoryInv'
  <2>1. CASE ClusterMoves \/ UNCHANGED timelineRecordingVars
    BY <2>1, HistoryClusters
  <2>2. CASE Switching
    BY <2>2, HistorySwitching
  <2>3. CASE StashForgets
    <3>1. /\ stash' = Nothing
          /\ UNCHANGED <<connectionVars, storeVars, informerVars, task, recorded, historyVars>>
      BY <2>3 DEF StashForgets
    <3>2. \A n \in Connections : QueueInv(n) => QueueInv(n)'
      BY <3>1 DEF QueueInv, informerVars
    <3>3. \A n \in Connections : RecorderInv(n) => RecorderInv(n)'
      BY <3>1 DEF RecorderInv, LastGone, Held, informerVars, storeVars, historyVars
    <3> QED
      BY <3>1, <3>2, <3>3 DEF HistoryInv, Running, JoinsThePredecessor, connectionVars, storeVars,
          historyVars
  <2>4. ASSUME NEW n \in Connections, Observe(n) \/ ListenerEnds(n)
        PROVE  HistoryInv'
    BY <2>4, HistoryInformer
  <2>5. ASSUME NEW n \in Connections, Takes(n)
        PROVE  HistoryInv'
    BY <2>5, HistoryTakes
  <2>6. ASSUME NEW n \in Connections, RecorderStep(n)
        PROVE  HistoryInv'
    BY <2>6, HistoryRecorder
  <2> QED
    BY <2>1, <2>2, <2>3, <2>4, <2>5, <2>6 DEF TimelineRecordingNext, Takes
<1> QED
  BY <1>1, <1>2

\* When a stopped informer does not go on recording, every event carries the
\* cluster its object was in, and a re-creation is joined with the object that
\* went before it.
THEOREM HistoryIsTrueHolds ==
    TimelineRecordingAssumption /\ ~Draining => (TimelineRecordingSpec => []HistoryIsTrue)
<1> SUFFICES ASSUME TimelineRecordingAssumption, ~Draining
             PROVE  TimelineRecordingSpec => []HistoryIsTrue
  OBVIOUS
<1>1. TimelineRecordingInit => RecordingInv
  BY RecordingInvInit
<1>2. RecordingInv /\ [TimelineRecordingNext]_timelineRecordingVars => RecordingInv'
  BY RecordingInvNext
<1>3. RecordingInv => HistoryIsTrue
  BY DEF RecordingInv, CurrentInv, HistoryInv, HistoryIsTrue
<1> QED
  BY <1>1, <1>2, <1>3, PTL DEF TimelineRecordingSpec

\* The add of an object, in the timeline.
Recorded(u) == \E e \in recorded : e.op = "add" /\ e.object.uid = u

\* The recorder is on its way to record it: it will not take it for one of the
\* initial list.
Promises(t, u) ==
    /\ t.at \in {"join", "tag", "record"} /\ t.note.op = "add" /\ t.note.object.uid = u
    /\ t.at = "record" => ~t.sync \/ u \notin young

DueInv ==
    \A u \in due :
        \/ Recorded(u)
        \/ u \notin young
        \/ synced /\ \E n \in Connections : Promises(task[n], u)

LEMMA DueTakes ==
    ASSUME TimelineRecordingAssumption, ~Draining, RecordingInv, DueInv,
           NEW n \in Connections, Takes(n)
    PROVE  DueInv'
<1>1. /\ Running(n) /\ task[n] = NoTask /\ NoTask.at = "idle"
      /\ pending[n] # <<>> /\ Head(pending[n]) \in Notes
      /\ pending' = [pending EXCEPT ![n] = Tail(pending[n])]
      /\ UNCHANGED <<clusterSide, persistent, connectionVars, store, synced, stash, cached, gone,
                     recorded>>
      /\ \A m \in Connections : m # n => task'[m] = task[m]
  BY TakeChanges, NoTaskFacts DEF RecordingInv
<1>2. \A u : Recorded(u)' <=> Recorded(u)
  BY <1>1 DEF Recorded
<1>3. \A u : \A m \in Connections : Promises(task[m], u) => Promises(task[m], u)'
  BY <1>1 DEF Promises, clusterSide
<1>4. ASSUME NEW u \in due', u \notin due, u \in young
      PROVE  synced' /\ Promises(task[n], u)'
  <2>1. /\ TakeAdd(n) /\ u = Head(pending[n]).object.uid /\ synced /\ ~inherited /\ store # 0
        /\ Head(pending[n]).op = "add"
    BY <1>4 DEF Takes, TakeNowhere, TakeAdd, TakeUpdate, TakeDelete, historyVars
  <2>2. QueueInv(n) /\ RecorderInv(n)
    BY <1>1 DEF RecordingInv, HistoryInv
  <2>3. ~Held(n)
    BY <1>1, <2>1, <2>2, QueueShrinks DEF RecordingInv
  <2>4. ~seen[store]
    BY <2>1, <2>2, <2>3 DEF RecorderInv
  <2>5. Begin(n, "join")
    BY <2>1, <2>4 DEF TakeAdd
  <2>6. store \in 0 .. MaxConnections /\ task \in [Connections -> Tasks]
    BY SMT DEF RecordingInv, RecordingTypes, TimelineRecordingTypeOK, TimelineRecordingAssumption
  <2> DEFINE t == Begun("join", Head(pending[n]), store)
  <2>7. t \in Tasks /\ t.at = "join" /\ t.note = Head(pending[n])
    BY <1>1, <2>6, BeginFacts
  <2>8. task'[n] = t
    BY <2>5, <2>6 DEF Begin, Begun, Proceed
  <2> HIDE DEF t
  <2> QED
    BY <1>1, <2>1, <2>7, <2>8 DEF Promises
<1>5. young' = young /\ synced' = synced
  BY <1>1 DEF clusterSide
<1> QED
  BY <1>2, <1>3, <1>4, <1>5 DEF DueInv

LEMMA DueRecorder ==
    ASSUME TimelineRecordingAssumption, RecordingInv, DueInv,
           NEW n \in Connections, RecorderStep(n)
    PROVE  DueInv'
<1>1. /\ task[n] \in Tasks /\ task \in [Connections -> Tasks] /\ due' \subseteq due
      /\ young' = young /\ synced' = synced
      /\ \A m \in Connections : m # n => task'[m] = task[m]
  BY TaskChanges DEF RecordingInv, RecordingTypes, TimelineRecordingTypeOK, clusterSide
<1>2. recorded \subseteq recorded'
  BY DEF RecorderStep, StashDeleted, Tag, Record, RecordFails, MarkSeen, Join
<1>3. \A u : Recorded(u) => Recorded(u)'
  BY <1>2 DEF Recorded
<1>4. ASSUME NEW m \in Connections, NEW u, m # n, Promises(task[m], u)
      PROVE  Promises(task[m], u)'
  BY <1>1, <1>4 DEF Promises
<1>5. ASSUME NEW u \in due', u \in young, synced, Promises(task[n], u)
      PROVE  Recorded(u)' \/ Promises(task[n], u)'
  <2>1. task[n].at # "stash" /\ task[n].at # "mark"
    BY <1>5 DEF Promises
  <2>2. ASSUME NEW differs \in BOOLEAN, Join(n, differs)
        PROVE  Promises(task[n], u)'
    <3> DEFINE tries == synced /\ task[n].note.object.uid \in young /\ stash # Nothing
               o == IF tries /\ stash.uid # task[n].note.object.uid /\ differs
                    THEN stash ELSE Nothing
    <3>1. task' = [task EXCEPT ![n] = Joining(task[n], o)]
      BY <2>2 DEF Join, Joining, Proceed
    <3>2. o \in Objects \cup {Nothing}
      BY DEF RecordingInv, RecordingTypes, TimelineRecordingTypeOK
    <3> HIDE DEF o
    <3>3. task'[n].at = "tag" /\ task'[n].note = task[n].note
      BY <1>1, <3>1, <3>2, ToTagJoined
    <3> QED
      BY <1>5, <3>3 DEF Promises
  <2>3. CASE Tag(n)
    <3> DEFINE b == /\ task[n].note.op = "add"
                    /\ ~synced \/ task[n].note.object.uid \notin young
    <3>1. task' = [task EXCEPT ![n] = Tagged(task[n], context, b)]
      BY <2>3 DEF Tag, Tagged, Proceed
    <3>2. b \in BOOLEAN /\ context \in Clusters /\ ~b
      BY <1>5 DEF RecordingInv, RecordingTypes, TimelineRecordingTypeOK, Promises
    <3> HIDE DEF b
    <3>3. task'[n].at = "record" /\ task'[n].note = task[n].note /\ ~task'[n].sync
      BY <1>1, <3>1, <3>2, ToRecord
    <3> QED
      BY <1>5, <3>3 DEF Promises
  <2>4. CASE Record(n)
    <3>1. ~task[n].sync /\ task[n].note.op = "add"
      BY <1>5, <2>4 DEF Record, Promises
    <3>2. Event(n, "add") \in recorded'
      BY <2>4, <3>1 DEF Record
    <3>3. Event(n, "add").op = "add" /\ Event(n, "add").object.uid = u
      BY <1>5 DEF Event, Promises
    <3> QED
      BY <3>2, <3>3 DEF Recorded
  <2>5. ~RecordFails(n)
    BY <1>5 DEF RecordFails, Promises
  <2> QED
    BY <2>1, <2>2, <2>3, <2>4, <2>5 DEF RecorderStep, StashDeleted, MarkSeen
<1> QED
  BY <1>1, <1>3, <1>4, <1>5 DEF DueInv

LEMMA DueNext ==
    ASSUME TimelineRecordingAssumption, ~Draining, RecordingInv, DueInv,
           [TimelineRecordingNext]_timelineRecordingVars
    PROVE  DueInv'
<1>1. CASE ClusterMoves
  <2>1. UNCHANGED <<synced, task, recorded, due>>
    BY <1>1 DEF ClusterMoves, historyVars
  <2>2. ASSUME NEW u \in due, u \notin young
        PROVE  u \notin young'
    <3>1. u \in Nat /\ u <= creations /\ creations \in Nat
      BY SMT DEF RecordingInv, RecordingTypes, TimelineRecordingTypeOK, ObjectsInv, Uids,
          TimelineRecordingAssumption
    <3>2. u # creations + 1
      BY <3>1, SMT
    <3> QED
      BY <1>1, <2>2, <3>2 DEF ClusterMoves, Create, Revise, Remove, GrowOld
  <2> QED
    BY <2>1, <2>2 DEF DueInv, Recorded, Promises
<1>2. CASE Switching
  <2>1. task' = task /\ young' = young
    BY <1>2 DEF Switching, StopCaches, InformersStop, ResetStore, SwitchFails, InitStore,
        InitStoreFails, StartInformers, SyncCompletes, SwapContext, clusterSide
  <2>2. CASE StopCaches
    <3>1. \A n \in Connections : task[n].at = "idle"
      BY <2>2, NoTaskFacts DEF StopCaches, InformersStop
    <3>2. UNCHANGED <<recorded, due>>
      BY <2>2 DEF StopCaches, historyVars
    <3> QED
      BY <2>1, <3>1, <3>2 DEF DueInv, Recorded, Promises
  <2>3. CASE ResetStore
    BY <2>1, <2>3 DEF ResetStore, DueInv, Recorded, Promises
  <2>4. CASE ~StopCaches /\ ~ResetStore
    <3>1. /\ UNCHANGED <<recorded, due>>
          /\ synced => synced'
      BY <1>2, <2>4 DEF Switching, SwitchFails, InitStore, InitStoreFails, StartInformers,
          SyncCompletes, SwapContext, historyVars
    <3> QED
      BY <2>1, <3>1 DEF DueInv, Recorded, Promises
  <2> QED
    BY <2>2, <2>3, <2>4
<1>3. CASE StashForgets \/ UNCHANGED timelineRecordingVars
  BY <1>3 DEF StashForgets, timelineRecordingVars, clusterSide, historyVars, DueInv, Recorded,
      Promises
<1>4. ASSUME NEW n \in Connections, Observe(n) \/ ListenerEnds(n)
      PROVE  DueInv'
  BY <1>4 DEF Observe, ListenerEnds, clusterSide, historyVars, DueInv, Recorded, Promises
<1>5. ASSUME NEW n \in Connections, Takes(n)
      PROVE  DueInv'
  BY <1>5, DueTakes
<1>6. ASSUME NEW n \in Connections, RecorderStep(n)
      PROVE  DueInv'
  BY <1>6, DueRecorder
<1> QED
  BY <1>1, <1>2, <1>3, <1>4, <1>5, <1>6 DEF TimelineRecordingNext, Takes

\* What is created while Radar watches reaches the timeline, as long as it is
\* young and the recorder is not at work on it.
THEOREM CreationsAreRecordedHolds ==
    TimelineRecordingAssumption /\ ~Draining => (TimelineRecordingSpec => []CreationsAreRecorded)
<1> SUFFICES ASSUME TimelineRecordingAssumption, ~Draining
             PROVE  TimelineRecordingSpec => []CreationsAreRecorded
  OBVIOUS
<1>1. TimelineRecordingInit => RecordingInv /\ DueInv
  BY RecordingInvInit DEF TimelineRecordingInit, DueInv
<1>2. RecordingInv /\ DueInv /\ [TimelineRecordingNext]_timelineRecordingVars
        => RecordingInv' /\ DueInv'
  BY RecordingInvNext, DueNext
<1>3. RecordingInv /\ DueInv => CreationsAreRecorded
  BY NoTaskFacts DEF RecordingInv, DueInv, Recorded, Promises, CreationsAreRecorded
<1> QED
  BY <1>1, <1>2, <1>3, PTL DEF TimelineRecordingSpec
=============================================================================

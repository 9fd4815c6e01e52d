------------------------ MODULE LaneHierarchyProofs ------------------------
(***************************************************************************)
(* Proofs about LaneHierarchy: whatever kinds there are, whatever events   *)
(* name as owners and whichever edges are taken in whichever order, every  *)
(* lane is drawn, and a Pod's lane where its Service's is.                 *)
(*                                                                         *)
(* There are two parts.  The first is about one state: the way up from a   *)
(* lane must come back to a lane it has met (there are more places on it   *)
(* than lanes), and what it first comes back to is its own root.  The      *)
(* second is the invariant of the three sources: a lane's parent has a     *)
(* lane, a Service never goes under anything, and what an owner or the     *)
(* edge of a Service has said is not overruled by a later source.          *)
(***************************************************************************)
EXTENDS LaneHierarchy, SetInduction, FiniteSetTheorems

-----------------------------------------------------------------------------
(* The way up from a lane. *)

ParentTypes == parent \in [Lanes -> Lanes \cup {NoLane}]
Top == Cardinality(Lanes) + 1
OneUp(l) == IF parent[l] = NoLane THEN l ELSE parent[l]

Repeats(l, n) == \E m \in 0 .. n - 1 : Above(l)[m] = Above(l)[n]
Ends(l, n) == /\ n \in 0 .. Top /\ Repeats(l, n)
              /\ \A k \in 0 .. n - 1 : ~Repeats(l, k)

\* There are finitely many kinds, and "none" is not one of them.
LEMMA LanesAreFinite ==
  ASSUME LaneHierarchyAssumption
  PROVE  IsFiniteSet(Lanes) /\ Cardinality(Lanes) \in Nat /\ NoLane \notin Lanes
  <1>1. \A l \in Lanes : Priority[l] \in 1 .. 9 /\ l # NoLane
    BY DEF LaneHierarchyAssumption, Priority, NoLane
  <1>2. \A k, l \in Lanes : Priority[k] = Priority[l] => k = l
    BY DEF LaneHierarchyAssumption, Priority
  <1> DEFINE rank == [l \in Lanes |-> Priority[l]]
  <1>3. rank \in Injection(Lanes, 1 .. 9)
    BY <1>1, <1>2 DEF Injection, IsInjective
  <1>4. IsFiniteSet(1 .. 9)
    <2>1. 1 \in Int /\ 9 \in Int
      OBVIOUS
    <2> QED BY <2>1, FS_Interval
  <1>5. IsFiniteSet(Lanes)
    BY <1>3, <1>4, FS_Injection
  <1> QED
    BY <1>1, <1>5, FS_CardinalityType

\* Above is what its definition says: the lane, then one up at each place.
LEMMA AboveIs ==
  ASSUME LaneHierarchyAssumption, ParentTypes, NEW l \in Lanes
  PROVE  /\ Above(l) \in [0 .. Top -> Lanes] /\ Above(l)[0] = l
         /\ \A n \in 1 .. Top : Above(l)[n] = OneUp(Above(l)[n - 1])
  <1>0. Top \in Nat
    BY LanesAreFinite DEF Top
  <1> DEFINE up == [i \in 1 .. Top |-> [k \in Lanes |-> OneUp(k)]]
             step1(g) == [n \in 0 .. Cardinality(Lanes) + 1 |->
                            IF n = 0 THEN l
                            ELSE IF parent[g[n - 1]] = NoLane THEN g[n - 1] ELSE parent[g[n - 1]]]
  <1>1. \A k \in Lanes : OneUp(k) \in Lanes
    BY DEF ParentTypes, OneUp
  <1>2. \A i \in 1 .. Top : \A k \in Lanes : up[i][k] = OneUp(k)
    OBVIOUS
  <1>u. up \in [1 .. Top -> [Lanes -> Lanes]]
    BY <1>1
  <1> HIDE DEF up
  <1>3. PICK g \in [0 .. Top -> Lanes] :
            g[0] = l /\ \A i \in 1 .. Top : g[i] = up[i][g[i - 1]]
    <2>1. StepByStep(Top, Lanes, l, up) # {}
      BY <1>0, <1>u, StepsCanBeTaken
    <2> QED BY <2>1 DEF StepByStep
  <1>4. ASSUME NEW i \in 1 .. Top
        PROVE  g[i - 1] \in Lanes /\ g[i] = OneUp(g[i - 1])
    <2>1. i - 1 \in 0 .. Top
      BY <1>0
    <2> QED BY <1>2, <1>3, <2>1
  <1>5. g = step1(g)
    <2>1. \A n \in 0 .. Top : g[n] = step1(g)[n]
      BY <1>0, <1>3, <1>4 DEF OneUp, Top
    <2> QED BY <2>1 DEF Top
  <1>6. Above(l) = step1(Above(l))
    BY <1>5, Zenon DEF Above
  <1>7. DOMAIN Above(l) = 0 .. Top /\ Above(l) = [n \in 0 .. Top |-> Above(l)[n]]
    BY <1>6 DEF Top
  <1>8. Above(l)[0] = l /\ \A n \in 1 .. Top : Above(l)[n] = OneUp(Above(l)[n - 1])
    <2>1. \A n \in 0 .. Top : Above(l)[n] = step1(Above(l))[n]
      BY <1>6, Zenon
    <2> HIDE DEF step1
    <2>2. step1(Above(l))[0] = l
      BY <1>0 DEF step1, Top
    <2>3. \A n \in 1 .. Top : step1(Above(l))[n] = OneUp(Above(l)[n - 1])
      BY <1>0 DEF step1, Top, OneUp
    <2> QED BY <1>0, <2>1, <2>2, <2>3
  <1> DEFINE S == {n \in 0 .. Top : Above(l)[n] \in Lanes}
  <1>9. 0 \in S
    BY <1>0, <1>8
  <1>10. ASSUME NEW n \in 0 .. Top - 1, n \in S
         PROVE  n + 1 \in S
    <2>1. n + 1 \in 1 .. Top /\ (n + 1) - 1 = n
      BY <1>0
    <2>2. Above(l)[n + 1] = OneUp(Above(l)[n])
      BY <1>8, <2>1
    <2> QED BY <1>1, <1>10, <2>1, <2>2
  <1> HIDE DEF S
  <1>11. 0 .. Top \subseteq S
    BY <1>0, <1>9, <1>10, BoundedInduction
  <1>12. \A n \in 0 .. Top : Above(l)[n] \in Lanes
    BY <1>11 DEF S
  <1> QED
    BY <1>7, <1>8, <1>12

\* The root is where the way up first meets a lane again.
LEMMA RootIs ==
  ASSUME LaneHierarchyAssumption, ParentTypes, NEW l \in Lanes, NEW n, Ends(l, n)
  PROVE  FindRoot(l) = Above(l)[n]
  <1>1. DOMAIN Above(l) = 0 .. Top /\ Top \in Nat
    BY AboveIs, LanesAreFinite DEF Top
  <1>2. \A k : Ends(l, k) => k = n
    <2> SUFFICES ASSUME NEW k, Ends(l, k) PROVE k = n
      OBVIOUS
    <2>1. k \in Nat /\ n \in Nat
      BY <1>1 DEF Ends
    <2>2. ~ (k < n) /\ ~ (n < k)
      <3>1. k < n => k \in 0 .. n - 1
        BY <2>1
      <3>2. n < k => n \in 0 .. k - 1
        BY <2>1
      <3> QED BY <3>1, <3>2 DEF Ends
    <2> QED BY <2>1, <2>2
  <1> DEFINE end == CHOOSE k \in 0 .. Top : Repeats(l, k) /\ \A j \in 0 .. k - 1 : ~Repeats(l, j)
  <1>3. FindRoot(l) = Above(l)[end]
    BY <1>1, Zenon DEF FindRoot, Repeats
  <1>4. Ends(l, end)
    BY DEF Ends
  <1> QED
    BY <1>2, <1>3, <1>4

\* There are more places on the way up than lanes, so that two are the same.
LEMMA WayUpEnds ==
  ASSUME LaneHierarchyAssumption, ParentTypes, NEW l \in Lanes
  PROVE  \E n : Ends(l, n)
  <1>0. Top \in Nat /\ Cardinality(Lanes) \in Nat /\ Cardinality(Lanes) = Top - 1
    BY LanesAreFinite DEF Top
  <1>1. IsFiniteSet(0 .. Top) /\ Cardinality(0 .. Top) = Top + 1
    <2>1. 0 \in Int /\ Top \in Int /\ ~ (0 > Top) /\ Top - 0 + 1 = Top + 1
      BY <1>0
    <2> QED BY <2>1, FS_Interval
  <1>2. Above(l) \in [0 .. Top -> Lanes]
    BY AboveIs
  <1>3. PICK i, j \in 0 .. Top : i # j /\ Above(l)[i] = Above(l)[j]
    <2>1. Cardinality(Lanes) < Cardinality(0 .. Top)
      BY <1>0, <1>1
    <2> HIDE DEF Top
    <2> QED BY <1>1, <1>2, <2>1, LanesAreFinite, FS_PigeonHole
  <1>4. Repeats(l, i) \/ Repeats(l, j)
    <2>1. i \in 0 .. j - 1 \/ j \in 0 .. i - 1
      BY <1>0, <1>3
    <2> QED BY <1>3, <2>1 DEF Repeats
  <1> DEFINE S == {n \in 0 .. Top : Repeats(l, n)}
  <1>5. S # {} /\ S \in SUBSET Nat
    BY <1>0, <1>4
  <1> HIDE DEF S
  <1>6. PICK n \in S : \A m \in S : n <= m
    BY <1>5, LeastNumber
  <1>7. n \in 0 .. Top /\ Repeats(l, n)
    BY <1>6 DEF S
  <1>8. ASSUME NEW k \in 0 .. n - 1
        PROVE  ~Repeats(l, k)
    <2>1. k \in 0 .. Top /\ ~ (n <= k)
      BY <1>0, <1>7
    <2> QED BY <1>6, <2>1 DEF S
  <1> QED
    BY <1>7, <1>8 DEF Ends

\* The root a lane is shown in is a lane, and its own root: the way up from
\* where the first one came back to goes round, and comes back to it first.
LEMMA RootIsItsOwn ==
  ASSUME LaneHierarchyAssumption, ParentTypes, NEW l \in Lanes
  PROVE  FindRoot(l) \in Lanes /\ FindRoot(FindRoot(l)) = FindRoot(l)
  <1>0. Top \in Nat
    BY LanesAreFinite DEF Top
  <1>1. PICK n : Ends(l, n)
    BY WayUpEnds
  <1>2. PICK m \in 0 .. n - 1 : Above(l)[m] = Above(l)[n]
    BY <1>1 DEF Ends, Repeats
  <1> DEFINE r == Above(l)[n]
             d == n - m
  <1>3. n \in 0 .. Top /\ m \in Nat /\ d \in Nat /\ d >= 1 /\ d <= Top /\ m + d = n
    BY <1>0, <1>1, <1>2 DEF Ends
  <1>4. r \in Lanes /\ FindRoot(l) = r
    BY <1>1, <1>3, AboveIs, RootIs
  <1>5. Above(r)[0] = r /\ Above(l)[m] = r
    BY <1>2, <1>4, AboveIs
  <1> DEFINE S == {k \in 0 .. d : Above(r)[k] = Above(l)[m + k]}
  <1> HIDE DEF r, d
  <1>6. 0 \in S
    BY <1>3, <1>5
  <1>7. ASSUME NEW k \in 0 .. d - 1, k \in S
        PROVE  k + 1 \in S
    <2>1. k + 1 \in 1 .. Top /\ (k + 1) - 1 = k /\ k + 1 \in 0 .. d
      BY <1>0, <1>3
    <2>2. m + (k + 1) \in 1 .. Top /\ (m + (k + 1)) - 1 = m + k
      BY <1>0, <1>3
    <2>3. Above(r)[k + 1] = OneUp(Above(r)[k])
      BY <1>4, <2>1, AboveIs
    <2>4. Above(l)[m + (k + 1)] = OneUp(Above(l)[m + k])
      BY <2>2, AboveIs
    <2> QED BY <1>7, <2>1, <2>3, <2>4
  <1> HIDE DEF S
  <1>8. 0 .. d \subseteq S
    BY <1>3, <1>6, <1>7, BoundedInduction
  <1>9. \A k \in 0 .. d : Above(r)[k] = Above(l)[m + k]
    BY <1>8 DEF S
  <1>10. Above(r)[d] = r /\ d \in 0 .. Top /\ Repeats(r, d)
    <2>1. d \in 0 .. d /\ 0 \in 0 .. d - 1 /\ d \in 0 .. Top
      BY <1>0, <1>3
    <2>2. Above(r)[d] = r
      BY <1>3, <1>9, <2>1 DEF r
    <2> QED BY <1>5, <2>1, <2>2 DEF Repeats
  <1>11. ASSUME NEW k \in 0 .. d - 1, Repeats(r, k)
         PROVE  FALSE
    <2>1. PICK j \in 0 .. k - 1 : Above(r)[j] = Above(r)[k]
      BY <1>11 DEF Repeats
    <2>2. /\ j \in 0 .. d /\ k \in 0 .. d
          /\ m + j \in 0 .. (m + k) - 1 /\ m + k \in 0 .. n - 1
      BY <1>3
    <2>3. Above(l)[m + j] = Above(l)[m + k]
      BY <1>9, <2>1, <2>2
    <2> QED BY <1>1, <2>2, <2>3 DEF Ends, Repeats
  <1>12. Ends(r, d)
    BY <1>10, <1>11 DEF Ends
  <1> QED
    BY <1>4, <1>10, <1>12, RootIs

\* Where lanes only go under lanes, the root has a lane as well.
LEMMA RootHasALane ==
  ASSUME LaneHierarchyAssumption, ParentTypes, lanes \subseteq Lanes,
         \A k \in lanes : parent[k] \in lanes \cup {NoLane}, NEW l \in lanes
  PROVE  FindRoot(l) \in lanes
  <1>0. Top \in Nat /\ l \in Lanes
    BY LanesAreFinite DEF Top
  <1>1. PICK n : Ends(l, n)
    BY <1>0, WayUpEnds
  <1> DEFINE S == {k \in 0 .. Top : Above(l)[k] \in lanes}
  <1>2. 0 \in S
    BY <1>0, AboveIs
  <1>3. ASSUME NEW k \in 0 .. Top - 1, k \in S
        PROVE  k + 1 \in S
    <2>1. k + 1 \in 1 .. Top /\ (k + 1) - 1 = k
      BY <1>0
    <2>2. Above(l)[k + 1] = OneUp(Above(l)[k])
      BY <1>0, <2>1, AboveIs
    <2> QED BY <1>3, <2>1, <2>2 DEF OneUp
  <1> HIDE DEF S
  <1>4. 0 .. Top \subseteq S
    BY <1>0, <1>2, <1>3, BoundedInduction
  <1>5. n \in S
    BY <1>1, <1>4 DEF Ends
  <1> QED
    BY <1>0, <1>1, <1>5, RootIs DEF S

-----------------------------------------------------------------------------
(* The invariant of the three sources. *)

ServiceEdge == Edge("exposes", "Service", "Deployment")

LanesTypes ==
    /\ own \subseteq Lanes /\ owned \subseteq own /\ attached \subseteq Lanes
    /\ lanes \subseteq Lanes /\ taken \subseteq Edges /\ ParentTypes
    /\ \A l \in owned : Owner[l] \in Lanes

\* What owners have said stands: their edges and labels come later.
OwnersInv ==
    /\ step = "owners" => lanes = {} /\ taken = {} /\ \A l \in Lanes : parent[l] = NoLane
    /\ step # "owners" => \A l \in owned : {l, Owner[l]} \subseteq lanes /\ parent[l] = Owner[l]

\* A Service is nobody's child, and a Deployment nobody's but its Service's
\* until the labels are read.
ServiceInv ==
    /\ "Service" \in Lanes => parent["Service"] \in {NoLane, "Service"}
    /\ "Deployment" \in Lanes \ attached =>
          /\ step # "done" => parent["Deployment"] \in {NoLane, "Service"}
          /\ ServiceEdge \in taken /\ "ReplicaSet" \in owned => parent["Deployment"] = "Service"

\* A lane is only put under another lane, and only lanes are.
ParentsHaveLanes ==
    \A l \in Lanes : /\ parent[l] \in lanes \cup {NoLane}
                     /\ l \notin lanes => parent[l] = NoLane

LanesInv == LanesTypes /\ OwnersInv /\ ServiceInv /\ ParentsHaveLanes

LEMMA OwnerIs ==
  ASSUME LaneHierarchyAssumption
  PROVE  /\ \A l \in Lanes : Owner[l] \in {"ReplicaSet", "Deployment", NoLane}
         /\ "Pod" \in Lanes => Owner["Pod"] = "ReplicaSet"
         /\ "ReplicaSet" \in Lanes => Owner["ReplicaSet"] = "Deployment"
         /\ "Deployment" \in Lanes => Owner["Deployment"] = NoLane
         /\ "Service" \in Lanes => Owner["Service"] = NoLane
         /\ NoLane \notin Lanes
  BY LanesAreFinite DEF Owner

\* What an edge puts under what.
LEMMA EdgeIs ==
  ASSUME NEW e \in Edges
  PROVE  /\ Child(e) \in Lanes /\ Parent(e) \in Lanes /\ Child(e) # "Service"
         /\ Child(e) = "Deployment" => Parent(e) = "Service"
         /\ e = ServiceEdge => Child(e) = "Deployment"
  <1>1. e.source \in Lanes /\ e.target \in Lanes
    BY DEF Edges
  <1>2. \/ e = Edge("exposes", "Service", "Deployment") \/ e = Edge("exposes", "Service", "StatefulSet")
        \/ e = Edge("routes-to", "Ingress", "Service") \/ e = Edge("routes-to", "HTTPRoute", "Service")
        \/ e = Edge("routes-to", "Gateway", "HTTPRoute") \/ e = Edge("routes-to", "Service", "Pod")
        \/ e = Edge("configures", "ConfigMap", "Deployment")
        \/ e = Edge("configures", "ConfigMap", "StatefulSet")
    BY DEF Edges
  <1> QED
    BY <1>1, <1>2 DEF Edge, Child, Parent, Representative, ServiceEdge

\* The labels: a Service in the group is the first of it.
LEMMA FirstOfGroup ==
  ASSUME LaneHierarchyAssumption, lanes \subseteq Lanes, Grouped # {},
         NEW first, first = CHOOSE l \in Grouped : \A k \in Grouped : Priority[l] <= Priority[k]
  PROVE  /\ first \in Grouped
         /\ "Service" \in Grouped => first = "Service"
  <1>1. Grouped \subseteq Lanes
    BY DEF Grouped
  <1>2. \A l \in Lanes : Priority[l] \in Nat /\ (Priority[l] <= 1 => l = "Service")
    BY DEF LaneHierarchyAssumption, Priority
  <1>3. Priority["Service"] = 1
    BY DEF Priority
  <1> DEFINE S == {Priority[l] : l \in Grouped}
  <1>4. S \in SUBSET Nat /\ S # {}
    BY <1>1, <1>2
  <1>5. PICK n \in S : \A k \in S : n <= k
    <2> HIDE DEF S
    <2> QED BY <1>4, LeastNumber
  <1>6. \E l \in Grouped : \A k \in Grouped : Priority[l] <= Priority[k]
    BY <1>5
  <1>7. first \in Grouped /\ \A k \in Grouped : Priority[first] <= Priority[k]
    BY <1>6
  <1> QED
    BY <1>1, <1>2, <1>3, <1>7

\* Nothing has been read yet.
LEMMA InitLanes ==
  ASSUME LaneHierarchyAssumption, LaneHierarchyInit PROVE LanesInv
  <1>1. LanesTypes
    BY DEF LaneHierarchyInit, LanesTypes, ParentTypes
  <1>2. OwnersInv
    BY DEF LaneHierarchyInit, OwnersInv
  <1>3. ServiceInv
    BY DEF LaneHierarchyInit, ServiceInv
  <1>4. ParentsHaveLanes
    BY DEF LaneHierarchyInit, ParentsHaveLanes
  <1> QED
    BY <1>1, <1>2, <1>3, <1>4 DEF LanesInv

\* The first source.
LEMMA OwnersStep ==
  ASSUME LaneHierarchyAssumption, LanesInv, FromOwners PROVE LanesInv'
  <1>1. /\ own \subseteq Lanes /\ owned \subseteq own /\ attached \subseteq Lanes
        /\ taken = {} /\ \A l \in owned : Owner[l] \in Lanes
    BY DEF LanesInv, LanesTypes, OwnersInv, FromOwners
  <1>2. /\ \A l \in Lanes : parent'[l] = IF l \in owned THEN Owner[l]
                                       ELSE IF l \in attached THEN l ELSE NoLane
        /\ DOMAIN parent' = Lanes /\ parent' = [l \in Lanes |-> parent'[l]]
        /\ lanes' = own \cup attached \cup {Owner[l] : l \in owned}
        /\ step' = "edges" /\ taken' = taken
        /\ own' = own /\ owned' = owned /\ attached' = attached
    BY DEF FromOwners, inputVars
  <1>3. ParentTypes'
    BY <1>1, <1>2 DEF ParentTypes
  <1>4. LanesTypes'
    BY <1>1, <1>2, <1>3 DEF LanesTypes
  <1>5. OwnersInv'
    BY <1>1, <1>2 DEF OwnersInv
  <1>6. ServiceInv'
    <2>1. "Service" \notin owned /\ "Deployment" \notin owned
      BY <1>1, OwnerIs
    <2>2. "Service" \in Lanes => parent'["Service"] \in {NoLane, "Service"}
      BY <1>2, <2>1
    <2>3. "Deployment" \in Lanes \ attached => parent'["Deployment"] = NoLane
      BY <1>2, <2>1
    <2> QED BY <1>1, <1>2, <2>2, <2>3 DEF ServiceInv
  <1>7. ParentsHaveLanes'
    BY <1>1, <1>2 DEF ParentsHaveLanes
  <1> QED
    BY <1>4, <1>5, <1>6, <1>7 DEF LanesInv

\* The second: an edge gives a lane a parent that has none, or nothing.
LEMMA EdgeStep ==
  ASSUME LaneHierarchyAssumption, LanesInv, NEW e \in Edges, FromEdge(e) PROVE LanesInv'
  <1>1. LanesTypes /\ OwnersInv /\ ServiceInv /\ ParentsHaveLanes
    BY DEF LanesInv
  <1>2. /\ step = "edges" /\ step' = "edges" /\ taken' = taken \cup {e} /\ PutUnder(e)
        /\ own' = own /\ owned' = owned /\ attached' = attached
    BY DEF FromEdge, inputVars
  <1>3. /\ Child(e) \in Lanes /\ Parent(e) \in Lanes /\ Child(e) # "Service"
        /\ Child(e) = "Deployment" => Parent(e) = "Service"
        /\ e = ServiceEdge => Child(e) = "Deployment"
    BY EdgeIs
  <1>4. NoLane \notin Lanes
    BY OwnerIs
  <1>5. CASE ~ (Child(e) \in lanes /\ parent[Child(e)] = NoLane)
    <2>1. parent' = parent /\ lanes' = lanes
      BY <1>2, <1>5 DEF PutUnder
    <2>2. LanesTypes'
      BY <1>1, <1>2, <2>1 DEF LanesTypes, ParentTypes
    <2>3. OwnersInv'
      BY <1>1, <1>2, <2>1 DEF OwnersInv
    <2>4. ASSUME "Deployment" \in Lanes \ attached, ServiceEdge \in taken', "ReplicaSet" \in owned
          PROVE  parent["Deployment"] = "Service"
      <3>1. CASE ServiceEdge \in taken
        BY <1>1, <2>4, <3>1 DEF ServiceInv
      <3>2. CASE e = ServiceEdge
        <4>1. "Deployment" \in lanes
          <5>1. "ReplicaSet" \in Lanes
            BY <1>1, <2>4 DEF LanesTypes
          <5>2. Owner["ReplicaSet"] \in lanes
            BY <1>1, <1>2, <2>4 DEF OwnersInv
          <5> QED BY <5>1, <5>2, OwnerIs
        <4>2. parent["Deployment"] # NoLane
          BY <1>3, <1>5, <3>2, <4>1
        <4> QED BY <1>1, <1>2, <2>4, <4>2 DEF ServiceInv
      <3> QED BY <1>2, <2>4, <3>1, <3>2
    <2>5. ServiceInv'
      BY <1>1, <1>2, <2>1, <2>4 DEF ServiceInv
    <2> QED BY <1>1, <2>1, <2>2, <2>3, <2>5 DEF LanesInv, ParentsHaveLanes
  <1>6. CASE Child(e) \in lanes /\ parent[Child(e)] = NoLane
    <2>1. parent' = [parent EXCEPT ![Child(e)] = Parent(e)] /\ lanes' = lanes \cup {Parent(e)}
      BY <1>2, <1>6 DEF PutUnder
    <2>2. /\ ParentTypes' /\ parent'[Child(e)] = Parent(e)
          /\ \A l \in Lanes : l # Child(e) => parent'[l] = parent[l]
      BY <1>1, <1>3, <2>1 DEF LanesTypes, ParentTypes
    <2>3. LanesTypes'
      BY <1>1, <1>2, <1>3, <2>1, <2>2 DEF LanesTypes
    <2>4. Child(e) \notin owned
      BY <1>1, <1>2, <1>4, <1>6 DEF OwnersInv, LanesTypes
    <2>5. OwnersInv'
      BY <1>1, <1>2, <2>1, <2>2, <2>4 DEF OwnersInv, LanesTypes
    <2>6. ServiceInv'
      <3>1. "Service" \in Lanes => parent'["Service"] \in {NoLane, "Service"}
        BY <1>1, <1>3, <2>2 DEF ServiceInv
      <3>2. CASE Child(e) = "Deployment"
        BY <1>2, <1>3, <2>2, <3>1, <3>2 DEF ServiceInv
      <3>3. CASE Child(e) # "Deployment"
        <4>1. e # ServiceEdge /\ ("Deployment" \in Lanes => parent'["Deployment"] = parent["Deployment"])
          BY <1>3, <2>2, <3>3
        <4> QED BY <1>1, <1>2, <3>1, <4>1 DEF ServiceInv
      <3> QED BY <3>2, <3>3
    <2>7. ParentsHaveLanes'
      <3> SUFFICES ASSUME NEW l \in Lanes
                   PROVE  /\ parent'[l] \in lanes' \cup {NoLane}
                          /\ l \notin lanes' => parent'[l] = NoLane
        BY DEF ParentsHaveLanes
      <3>1. CASE l = Child(e)
        BY <1>6, <2>1, <2>2, <3>1
      <3>2. CASE l # Child(e)
        BY <1>1, <2>1, <2>2, <3>2 DEF ParentsHaveLanes
      <3> QED BY <3>1, <3>2
    <2> QED BY <2>3, <2>5, <2>6, <2>7 DEF LanesInv
  <1> QED BY <1>5, <1>6

\* The third: of the group, all but its first go under it.
LEMMA LabelsStep ==
  ASSUME LaneHierarchyAssumption, LanesInv, FromLabels PROVE LanesInv'
  <1>1. LanesTypes /\ OwnersInv /\ ServiceInv /\ ParentsHaveLanes
    BY DEF LanesInv
  <1>2. /\ step = "labels" /\ step' = "done" /\ taken' = taken /\ lanes' = lanes
        /\ own' = own /\ owned' = owned /\ attached' = attached
    BY DEF FromLabels, inputVars
  <1>3. NoLane \notin Lanes
    BY OwnerIs
  <1>4. CASE Grouped = {}
    <2>1. parent' = parent
      BY <1>4 DEF FromLabels
    <2>2. LanesTypes' /\ OwnersInv'
      BY <1>1, <1>2, <2>1 DEF LanesTypes, ParentTypes, OwnersInv
    <2>3. ServiceInv' /\ ParentsHaveLanes'
      BY <1>1, <1>2, <2>1 DEF ServiceInv, ParentsHaveLanes
    <2> QED BY <2>2, <2>3 DEF LanesInv
  <1>5. CASE Grouped # {}
    <2> DEFINE first == CHOOSE l \in Grouped : \A k \in Grouped : Priority[l] <= Priority[k]
    <2>1. parent' = [l \in Lanes |-> IF l \in Grouped \ {first} THEN first ELSE parent[l]]
      BY <1>5 DEF FromLabels
    <2>2. first \in Grouped /\ ("Service" \in Grouped => first = "Service")
      BY <1>1, <1>5, FirstOfGroup DEF LanesTypes
    <2> HIDE DEF first
    <2>3. \A l \in Grouped : l \in lanes /\ l \in Lanes /\ parent[l] = NoLane
      BY <1>1 DEF Grouped, LanesTypes
    <2>4. /\ \A l \in Lanes : l \notin Grouped \ {first} => parent'[l] = parent[l]
          /\ \A l \in Grouped \ {first} : parent'[l] = first
      BY <2>1, <2>3
    <2>5. ParentTypes'
      BY <1>1, <2>1, <2>2, <2>3 DEF LanesTypes, ParentTypes
    <2>6. LanesTypes'
      BY <1>1, <1>2, <2>5 DEF LanesTypes
    <2>7. \A l \in owned : parent'[l] = parent[l]
      BY <1>1, <1>2, <1>3, <2>3, <2>4 DEF LanesTypes, OwnersInv
    <2>8. OwnersInv'
      BY <1>1, <1>2, <2>7 DEF OwnersInv
    <2>9. ServiceInv'
      <3>1. "Service" \in Lanes => parent'["Service"] = parent["Service"]
        BY <2>2, <2>4
      <3>2. "Deployment" \in Lanes /\ parent["Deployment"] = "Service"
              => parent'["Deployment"] = "Service"
        BY <2>3, <2>4 DEF NoLane
      <3> QED BY <1>1, <1>2, <3>1, <3>2 DEF ServiceInv
    <2>10. ParentsHaveLanes'
      BY <1>1, <1>2, <2>2, <2>3, <2>4 DEF ParentsHaveLanes
    <2> QED BY <2>6, <2>8, <2>9, <2>10 DEF LanesInv
  <1> QED BY <1>4, <1>5

\* The invariant of LaneHierarchy.
LEMMA LanesNext ==
  ASSUME LaneHierarchyAssumption, LanesInv, [LaneHierarchyNext]_laneHierarchyVars
  PROVE  LanesInv'
  <1>1. CASE LastEdge \/ UNCHANGED laneHierarchyVars
    <2>1. /\ UNCHANGED <<own, owned, attached, lanes, parent, taken>>
          /\ step' = step \/ (step = "edges" /\ step' = "labels")
      <3>1. CASE LastEdge
        BY <3>1 DEF LastEdge, inputVars
      <3>2. CASE UNCHANGED laneHierarchyVars
        BY <3>2 DEF laneHierarchyVars, inputVars
      <3> QED BY <1>1, <3>1, <3>2
    <2>2. LanesTypes' /\ ParentsHaveLanes'
      BY <2>1 DEF LanesInv, LanesTypes, ParentTypes, ParentsHaveLanes
    <2>3. OwnersInv' /\ ServiceInv'
      BY <2>1 DEF LanesInv, OwnersInv, ServiceInv
    <2> QED BY <2>2, <2>3 DEF LanesInv
  <1> QED
    BY <1>1, OwnersStep, EdgeStep, LabelsStep DEF LaneHierarchyNext

-----------------------------------------------------------------------------
(* What is drawn. *)

\* A Pod of a Service: three up from it is the Service, where the way ends.
LEMMA PodIsUnderService ==
  ASSUME LaneHierarchyAssumption, LanesInv, PodsAreWithTheirService!1
  PROVE  FindRoot("Pod") = FindRoot("Service")
  <1>1. LanesTypes /\ OwnersInv /\ ServiceInv /\ ParentTypes
    BY DEF LanesInv, LanesTypes
  <1>2. {"Pod", "ReplicaSet", "Deployment", "Service"} \subseteq Lanes
    <2>1. "Pod" \in Lanes /\ "ReplicaSet" \in Lanes
      BY <1>1 DEF LanesTypes
    <2>2. ServiceEdge \in Edges
      BY <1>1 DEF LanesTypes, ServiceEdge
    <2>3. "Deployment" \in Lanes /\ "Service" \in Lanes
      BY <2>2 DEF Edges, ServiceEdge, Edge
    <2> QED BY <2>1, <2>3
  <1>3. OneUp("Pod") = "ReplicaSet" /\ OneUp("ReplicaSet") = "Deployment"
    BY <1>1, <1>2, OwnerIs DEF OwnersInv, OneUp
  <1>4. OneUp("Deployment") = "Service"
    BY <1>1, <1>2 DEF ServiceInv, ServiceEdge, OneUp, NoLane
  <1>5. OneUp("Service") = "Service"
    BY <1>1, <1>2 DEF ServiceInv, OneUp
  <1>6. Top \in Nat /\ 4 <= Top
    <2> DEFINE one == {"Pod"}
               two == one \cup {"ReplicaSet"}
               three == two \cup {"Deployment"}
               four == three \cup {"Service"}
    <2>0. /\ "ReplicaSet" \notin one /\ "Deployment" \notin two /\ "Service" \notin three
          /\ four \subseteq Lanes
      BY <1>2
    <2>1. IsFiniteSet(four) /\ Cardinality(four) = 4
      <3>1. IsFiniteSet(one) /\ Cardinality(one) = 1
        BY FS_Singleton
      <3> HIDE DEF one
      <3>2. IsFiniteSet(two) /\ Cardinality(two) = 2
        BY <2>0, <3>1, FS_AddElement
      <3> HIDE DEF two
      <3>3. IsFiniteSet(three) /\ Cardinality(three) = 3
        BY <2>0, <3>2, FS_AddElement
      <3> HIDE DEF three
      <3> QED BY <2>0, <3>3, FS_AddElement
    <2> HIDE DEF four
    <2>2. 4 <= Cardinality(Lanes)
      BY <2>0, <2>1, LanesAreFinite, FS_Subset
    <2> QED BY <2>2, LanesAreFinite DEF Top
  <1>7. /\ Above("Pod")[0] = "Pod" /\ Above("Pod")[1] = "ReplicaSet"
        /\ Above("Pod")[2] = "Deployment" /\ Above("Pod")[3] = "Service"
        /\ Above("Pod")[4] = "Service"
    <2>1. Above("Pod")[0] = "Pod" /\ \A n \in 1 .. Top : Above("Pod")[n] = OneUp(Above("Pod")[n - 1])
      BY <1>1, <1>2, AboveIs
    <2>2. /\ 1 \in 1 .. Top /\ 2 \in 1 .. Top /\ 3 \in 1 .. Top /\ 4 \in 1 .. Top
          /\ 1 - 1 = 0 /\ 2 - 1 = 1 /\ 3 - 1 = 2 /\ 4 - 1 = 3
      BY <1>6
    <2> QED BY <1>3, <1>4, <1>5, <2>1, <2>2
  <1>8. Ends("Pod", 4)
    <2>1. Repeats("Pod", 4)
      BY <1>7 DEF Repeats
    <2>2. ASSUME NEW k \in 0 .. 3
          PROVE  ~Repeats("Pod", k)
      BY <1>7 DEF Repeats
    <2> QED BY <1>6, <2>1, <2>2 DEF Ends
  <1>9. Ends("Service", 1) /\ Above("Service")[1] = "Service"
    <2>1. Above("Service")[0] = "Service" /\ Above("Service")[1] = OneUp(Above("Service")[0])
      BY <1>1, <1>2, <1>6, AboveIs
    <2>2. Repeats("Service", 1) /\ ~Repeats("Service", 0)
      BY <1>5, <2>1 DEF Repeats
    <2> QED BY <1>5, <1>6, <2>1, <2>2 DEF Ends
  <1> QED
    BY <1>1, <1>2, <1>7, <1>8, <1>9, RootIs

\* Every lane is drawn and a Pod's with its Service's (LaneHierarchy
\* LanesAreShown), for any kinds, events and topology.
LEMMA LanesAreDrawn ==
  ASSUME LaneHierarchyAssumption, LanesInv PROVE LanesAreShown
  <1>1. ParentTypes /\ lanes \subseteq Lanes /\ \A k \in lanes : parent[k] \in lanes \cup {NoLane}
    BY DEF LanesInv, LanesTypes, ParentsHaveLanes
  <1>2. ASSUME NEW l \in lanes
        PROVE  FindRoot(l) \in TopLevel
    BY <1>1, RootIsItsOwn, RootHasALane DEF TopLevel
  <1>3. EveryLaneIsDrawn
    <2>1. ASSUME NEW l \in lanes
          PROVE  l \in TopLevel \/ l \in Children(FindRoot(l))
      BY DEF TopLevel, Children
    <2>2. ASSUME NEW asked \in Lanes
          PROVE  \/ Returned(asked) = asked
                 \/ Returned(asked) \in TopLevel /\ asked \in Children(Returned(asked))
      BY <1>2, <2>1 DEF Returned
    <2> QED BY <1>2, <2>1, <2>2 DEF EveryLaneIsDrawn
  <1>4. PodsAreWithTheirService
    BY PodIsUnderService DEF PodsAreWithTheirService
  <1> QED
    BY <1>3, <1>4 DEF LanesAreShown

\* The lanes of the timeline (LaneHierarchy LanesAreShown): whatever owners,
\* edges and labels say, every lane is at the top or in one that is.
THEOREM LanesAreShownHolds ==
    LaneHierarchyAssumption /\ LaneHierarchySpec => []LanesAreShown
  <1> SUFFICES ASSUME LaneHierarchyAssumption PROVE LaneHierarchySpec => []LanesAreShown
    OBVIOUS
  <1>1. LaneHierarchyInit => LanesInv
    BY InitLanes
  <1>2. LanesInv /\ [LaneHierarchyNext]_laneHierarchyVars => LanesInv'
    BY LanesNext
  <1>3. LanesInv => LanesAreShown
    BY LanesAreDrawn
  <1> QED
    BY <1>1, <1>2, <1>3, PTL DEF LaneHierarchySpec
=============================================================================

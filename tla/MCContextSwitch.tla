-------------------------- MODULE MCContextSwitch --------------------------
(***************************************************************************)
(* Small instances of ContextSwitch, one at a time: handlers served one    *)
(* after the other, once the boot is over and nothing is left running; and *)
(* one handler interleaved freely with the boot.                           *)
(***************************************************************************)
EXTENDS ContextSwitch

VARIABLE serial

switchingVars == <<serial, vars>>

Crowded == INSTANCE ContextSwitch WITH Overlap <- {"boot", "leftover"}

\* Requests are alike, and numbered in the order in which they arrive.
InOrder == \A r, s \in Requests : r < s /\ pc[s] # "idle" => pc[r] # "idle"
First == CHOOSE r \in Requests : \A s \in Requests : r <= s
Others == Requests \ {First}

SwitchingInit == serial \in BOOLEAN /\ Init

InSeries(step) == serial /\ step /\ InOrder' /\ UNCHANGED serial

\* The requests that will not come count as served.
OthersStayAway ==
    /\ ~serial /\ \A r \in Others : pc[r] = "idle"
    /\ pc' = [a \in Actors |-> IF a \in Others THEN "done" ELSE pc[a]]
    /\ UNCHANGED <<serial, opVars, status, target, ctxVars, ipc, onceVars, cacheVars, dynVars,
                   discVars, metrics>>

WithTheBoot(step) ==
    /\ ~serial /\ \A r \in Others : pc[r] = "done"
    /\ step
    /\ UNCHANGED serial

SwitchingNext == InSeries(Next) \/ OthersStayAway \/ WithTheBoot(Crowded!Next)

SwitchingSpec == SwitchingInit /\ [][SwitchingNext]_switchingVars

\* The fairness of ContextSwitch, for the handler and the boot.
SwitchingFairness ==
    /\ WF_switchingVars(WithTheBoot(RequestStep(First)))
    /\ WF_switchingVars(WithTheBoot(BootStep))
    /\ \A a \in {First, Boot} :
           /\ WF_switchingVars(WithTheBoot(InitStep(a)))
           /\ WF_switchingVars(WithTheBoot(DiscoveryStep(a)))

SwitchingFairSpec == SwitchingSpec /\ SwitchingFairness

\* After handlers in series the cache is of the current cluster, and what feeds
\* it or was made from it too.
OneClusterInSeries == serial => ConnectedServesCurrentCluster /\ SubsystemsOnOneCluster

\* ... and no other informers run.
NoOrphansInSeries == serial => NoOrphanInformers

\* A handler that begins beside the boot comes back.
RequestBesideBootSettles == ~serial /\ pc[First] = "begun" ~> pc[First] = "done"
=============================================================================

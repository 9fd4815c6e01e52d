------------------------------ MODULE MCIntake ------------------------------
(***************************************************************************)
(* The server's intake from the cluster, one end at a time: the staged     *)
(* start of the informers (ResourceCacheSync), and the ring of the         *)
(* timeline that keeps what they deliver (EventRing).                      *)
(***************************************************************************)
EXTENDS ResourceCacheSync, EventRing

VARIABLE part

IntakeInit == part \in {"informers", "timeline"} /\ Init /\ RingInit

IntakeNext ==
    \/ part = "informers" /\ Next /\ UNCHANGED <<part, ringVars>>
    \/ part = "timeline" /\ RingNext /\ UNCHANGED <<part, vars>>

\* The fairness is that of the informers' start.  While the timeline is at hand
\* they stand still, so that its behaviours are checked for safety only.
IntakeSpec == IntakeInit /\ [][IntakeNext]_<<part, vars, ringVars>> /\ Fairness
=============================================================================

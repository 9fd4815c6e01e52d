---------------------------- MODULE MCClusterView ----------------------------
(***************************************************************************)
(* What the server keeps of a cluster beside its caches, and has to turn   *)
(* over on a switch, one part at a time: the cached topology               *)
(* (TopologyCache), or what the timeline records (TimelineRecording).      *)
(***************************************************************************)
EXTENDS TopologyCache, TimelineRecording, TLC

VARIABLE part

NoTimeline == INSTANCE TimelineRecording WITH Clusters <- {Nothing}

ASSUME TopologyCacheAssumption /\ TimelineRecordingAssumption

viewVars == <<part, topologyCacheVars, timelineRecordingVars>>

\* The part that is not at hand begins in one state only.
ViewInit ==
    /\ TopologyCacheInit
    /\ \/ part = "topology" /\ NoTimeline!TimelineRecordingInit /\ ~persistent
       \/ part = "recording" /\ TimelineRecordingInit /\ clients

\* Recording stops at its bounds.
RecordingRests ==
    /\ part = "recording" /\ connection = MaxConnections
    /\ UNCHANGED viewVars

ViewNext ==
    \/ /\ part = "topology" /\ TopologyCacheNext
       /\ UNCHANGED <<part, timelineRecordingVars>>
    \/ /\ part = "recording" /\ TimelineRecordingNext
       /\ UNCHANGED <<part, topologyCacheVars>>
    \/ RecordingRests

ViewSpec == ViewInit /\ [][ViewNext]_viewVars

Sym == Permutations(Broadcasters) \cup Permutations(Readers)
=============================================================================

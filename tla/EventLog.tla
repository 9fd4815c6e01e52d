------------------------------ MODULE EventLog ------------------------------
(***************************************************************************)
(* What a timeline store with room for MaxSize events promises             *)
(* (pkg/timeline EventStore): the newest MaxSize of the events added, in   *)
(* the order they were added.  The log is kept newest first, as readers    *)
(* get it.                                                                 *)
(***************************************************************************)
EXTENDS Naturals, Sequences

CONSTANTS
    Events,  \* the events that may be added
    MaxSize  \* a positive number

VARIABLE log

Init == log = <<>>

\* The event becomes the newest; with the store full the oldest is forgotten.
Push(e) ==
    log' = [i \in 1 .. (IF Len(log) < MaxSize THEN Len(log) + 1 ELSE MaxSize) |->
               IF i = 1 THEN e ELSE log[i - 1]]

Next == \E e \in Events : Push(e)

Spec == Init /\ [][Next]_log
=============================================================================

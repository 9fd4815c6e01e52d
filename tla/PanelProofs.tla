---------------------------- MODULE PanelProofs ----------------------------
(***************************************************************************)
(* Proofs about the panels of the page, for any number of attempts, tabs,  *)
(* lines, sessions, namespaces, edits and resources: the port forwards     *)
(* (PortForwards) and their panel (PortForwardPanel), a pod's terminal     *)
(* (TerminalTab), the dock and its debug pods (Dock), a log (LogViewer),   *)
(* the lists (LiveQueries), the pick of namespaces (NamespaceScope) and a  *)
(* manifest's editor (YamlEditing).                                        *)
(***************************************************************************)
EXTENDS TerminalTab, Dock, LogViewer, LiveQueries, NamespaceScope, PortForwards, PortForwardPanel,
        YamlEditing, TLAPS

-----------------------------------------------------------------------------
(* The panel of the port forwards. *)

\* What the user keeps has no timer, nor a promise to set one.
KeptInv == kept => ~armed /\ ~timer

\* Neither sessions that come and go nor the mouse make the timer close a panel
\* that the user opened or used: what opens the panel by itself finds it closed.
THEOREM KeptPanelStaysHolds == PortForwardPanelSpec => []KeptPanelStays
<1>1. PortForwardPanelInit => KeptInv
  BY DEF PortForwardPanelInit, KeptInv
<1>2. KeptInv /\ [PortForwardPanelNext]_portForwardPanelVars => KeptInv'
  <2> SUFFICES ASSUME KeptInv, [PortForwardPanelNext]_portForwardPanelVars PROVE KeptInv'
    OBVIOUS
  <2> USE DEF KeptInv, Put
  <2>1. ASSUME NEW n \in 0 .. MaxForwards, CountChanges(n) PROVE KeptInv'
    <3>1. CASE n = 0
      BY <2>1, <3>1 DEF CountChanges
    <3>2. CASE n # 0 /\ kept /\ isOpen
      BY <2>1, <3>2 DEF CountChanges, Opens
    <3>3. CASE n # 0 /\ ~(kept /\ isOpen)
      BY <2>1, <3>3 DEF CountChanges
    <3> QED BY <3>1, <3>2, <3>3
  <2>2. CASE CommitInteraction \/ TogglePanel \/ MinimizePanel \/ AutoMinimize
    BY <2>2 DEF CommitInteraction, TogglePanel, MinimizePanel, AutoMinimize
  <2>3. CASE PanelHoverEnter \/ PanelHoverLeave
    BY <2>3 DEF PanelHoverEnter, PanelHoverLeave
  <2>4. CASE UNCHANGED portForwardPanelVars
    BY <2>4 DEF portForwardPanelVars
  <2> QED BY <2>1, <2>2, <2>3, <2>4 DEF PortForwardPanelNext
<1>3. KeptInv => KeptPanelStays
  BY DEF KeptInv, KeptPanelStays
<1> QED BY <1>1, <1>2, <1>3, PTL DEF PortForwardPanelSpec

-----------------------------------------------------------------------------
(* The port forwards. *)

\* A session in the table has not been told to end, and only one that was told
\* to ends without an error.
TableInv ==
    /\ \A s \in known :
        /\ ~session[s].cancelled /\ ~session[s].stopped
        /\ session[s].status \in {"starting", "running", "error"}
        /\ session[s].run = "done" => session[s].status = "error"
    /\ \A s \in Sessions : session[s].forward = "ended" => session[s].stopped

\* Whoever changes the table leaves a request under way, after which the list is
\* asked for, unless a start has failed.
ListInv ==
    \/ calls # {} \/ behind \/ unlisted \/ listing.stage = "asked"
    \/ listing.stage = "answered" /\ {x.id : x \in listing.listed} = known
    \/ listing.stage = "idle" /\ {x.id : x \in listed} = known

ForwardsInv == PortForwardsTypeOK /\ TableInv /\ ListInv

LEMMA ForwardsStart == PortForwardsAssumption /\ PortForwardsInit => ForwardsInv
<1> SUFFICES ASSUME PortForwardsAssumption, PortForwardsInit PROVE ForwardsInv
  OBVIOUS
<1>1. NoSession \in Session
  BY DEF NoSession, Session
<1>2. PortForwardsTypeOK
  <2>1. session \in [Sessions -> Session]
    BY <1>1 DEF PortForwardsInit
  <2>2. listing \in [stage : {"idle", "asked", "answered"}, listed : SUBSET Listed]
    BY DEF PortForwardsInit, ListAsked
  <2>3. switches \in 0 .. MaxSwitches /\ made \in 0 .. MaxCalls
    BY DEF PortForwardsAssumption, PortForwardsInit
  <2>4. known \subseteq Sessions /\ calls \subseteq Calls /\ listed \subseteq Listed
    BY DEF PortForwardsInit
  <2> QED BY <2>1, <2>2, <2>3, <2>4 DEF PortForwardsInit, PortForwardsTypeOK
<1>3. TableInv /\ ListInv
  BY DEF PortForwardsInit, TableInv, ListInv, ListAsked, NoSession
<1> QED BY <1>2, <1>3 DEF ForwardsInv

\* What a step does to a call, as a call of its own.
LEMMA CallAdvances ==
    ASSUME PortForwardsTypeOK, NEW c \in calls,
           NEW stage \in {"delete", "deleted", "refused", "post", "sleeping", "ok", "failed"},
           Advance(c, stage)
    PROVE  calls' \subseteq Calls /\ calls' # {}
<1>1. c \in Calls
  BY DEF PortForwardsTypeOK
<1>2. [c EXCEPT !.stage = stage] \in Calls
  BY <1>1 DEF Calls
<1> QED BY <1>2 DEF PortForwardsTypeOK, Advance

\* The steps of one session's forward and goroutine.
Moved(s, place) == [session EXCEPT ![s].forward = place]
Ran(s, place, status) == [session EXCEPT ![s].run = place, ![s].status = status]

LEMMA MovedSession ==
    ASSUME PortForwardsTypeOK, NEW s \in Sessions,
           NEW place \in {"listening", "ended", "failed"}, session' = Moved(s, place)
    PROVE  /\ session' \in [Sessions -> Session]
           /\ session'[s] = [session[s] EXCEPT !.forward = place]
           /\ \A r \in Sessions : r # s => session'[r] = session[r]
<1>1. session \in [Sessions -> Session]
  BY DEF PortForwardsTypeOK
<1>2. [session[s] EXCEPT !.forward = place] \in Session
  BY <1>1 DEF Session
<1> QED BY <1>1, <1>2 DEF Moved

LEMMA RanSession ==
    ASSUME PortForwardsTypeOK, NEW s \in Sessions, NEW place \in {"running", "done"},
           NEW status \in {"running", "error", "stopped"}, session' = Ran(s, place, status)
    PROVE  /\ session' \in [Sessions -> Session]
           /\ session'[s] = [session[s] EXCEPT !.run = place, !.status = status]
           /\ \A r \in Sessions : r # s => session'[r] = session[r]
<1>1. session \in [Sessions -> Session]
  BY DEF PortForwardsTypeOK
<1> DEFINE new == [session[s] EXCEPT !.run = place, !.status = status]
<1>2. new \in Session
  <2>1. session[s] \in Session
    BY <1>1
  <2> QED BY <2>1 DEF Session
<1>3. session' = [session EXCEPT ![s] = new]
  BY <1>1 DEF Ran
<1> HIDE DEF new
<1>4. session' \in [Sessions -> Session] /\ session'[s] = new
  BY <1>1, <1>2, <1>3
<1>5. \A r \in Sessions : r # s => session'[r] = session[r]
  BY <1>1, <1>3
<1> QED BY <1>4, <1>5 DEF new

\* The forward of a session: an end without a failure is one it was told.
LEMMA ForwardSteps ==
    ASSUME ForwardsInv, NEW s \in Sessions, Listens(s) \/ ConnectionLost(s) \/ ForwardEnds(s)
    PROVE  ForwardsInv'
<1>1. PICK place \in {"listening", "ended", "failed"} :
        /\ place = "ended" => session[s].stopped
        /\ session' = Moved(s, place)
        /\ UNCHANGED <<known, wedged, switchVars, calls, made, listed, listing, unlisted>>
  BY DEF Listens, ConnectionLost, ForwardEnds, Forwards, Moved
<1>2. /\ session' \in [Sessions -> Session]
      /\ session'[s] = [session[s] EXCEPT !.forward = place]
      /\ \A r \in Sessions : r # s => session'[r] = session[r]
  BY <1>1, MovedSession DEF ForwardsInv
<1>3. PortForwardsTypeOK'
  BY <1>1, <1>2 DEF ForwardsInv, PortForwardsTypeOK, switchVars
<1>4. session[s] \in Session /\ known \subseteq Sessions
  BY DEF ForwardsInv, PortForwardsTypeOK
<1>5. TableInv'
  BY <1>1, <1>2, <1>4 DEF ForwardsInv, TableInv, Session
<1>6. ListInv'
  BY <1>1 DEF ForwardsInv, ListInv, switchVars
<1> QED BY <1>3, <1>5, <1>6 DEF ForwardsInv

\* Its goroutine: without a failure it ends only if it was told to, and then
\* the session has left the table.
LEMMA RunSteps ==
    ASSUME ForwardsInv, NEW s \in Sessions, RunIsReady(s) \/ RunFails(s) \/ RunEnds(s)
    PROVE  ForwardsInv'
<1>1. PICK place \in {"running", "done"}, status \in {"running", "error", "stopped"} :
        /\ session' = Ran(s, place, status)
        /\ UNCHANGED <<known, wedged, switchVars, calls, made, listed, listing, unlisted>>
        /\ \/ place = "running" /\ status = "running"
           \/ place = "done" /\ status = "error"
           \/ place = "done" /\ (session[s].cancelled \/ session[s].forward = "ended")
  BY DEF RunIsReady, RunFails, RunEnds, Runs, Ran
<1>2. /\ session' \in [Sessions -> Session]
      /\ session'[s] = [session[s] EXCEPT !.run = place, !.status = status]
      /\ \A r \in Sessions : r # s => session'[r] = session[r]
  BY <1>1, RanSession DEF ForwardsInv
<1>3. PortForwardsTypeOK'
  BY <1>1, <1>2 DEF ForwardsInv, PortForwardsTypeOK, switchVars
<1>4. session[s] \in Session /\ known \subseteq Sessions
  BY DEF ForwardsInv, PortForwardsTypeOK
<1>5. /\ session'[s].run = place /\ session'[s].status = status
      /\ session'[s].cancelled = session[s].cancelled /\ session'[s].stopped = session[s].stopped
      /\ session'[s].forward = session[s].forward
  BY <1>2, <1>4 DEF Session
<1>6. s \in known => (place = "running" /\ status = "running") \/ (place = "done" /\ status = "error")
  BY <1>1 DEF ForwardsInv, TableInv
<1>7. TableInv'
  <2>1. ASSUME NEW r \in Sessions, r # s
        PROVE  session'[r] = session[r]
    BY <2>1, <1>2
  <2>2. known' = known
    BY <1>1
  <2>3. ASSUME NEW r \in known
        PROVE  /\ ~session'[r].cancelled /\ ~session'[r].stopped
               /\ session'[r].status \in {"starting", "running", "error"}
               /\ session'[r].run = "done" => session'[r].status = "error"
    <3>1. CASE r = s
      BY <1>5, <1>6, <2>3, <3>1 DEF ForwardsInv, TableInv
    <3>2. CASE r # s
      BY <1>4, <2>1, <2>3, <3>2 DEF ForwardsInv, TableInv
    <3> QED BY <3>1, <3>2
  <2>4. ASSUME NEW r \in Sessions, session'[r].forward = "ended" PROVE session'[r].stopped
    BY <1>5, <2>1, <2>4 DEF ForwardsInv, TableInv
  <2> QED BY <2>2, <2>3, <2>4 DEF TableInv
<1>8. ListInv'
  BY <1>1 DEF ForwardsInv, ListInv, switchVars
<1> QED BY <1>3, <1>7, <1>8 DEF ForwardsInv

\* The session a handler starts, ends or wakes to.
Begun(s, p) ==
    [session EXCEPT ![s] = [NoSession EXCEPT
        !.status = "starting", !.port = p, !.forward = "dialing", !.run = "starting"]]
Told(s) ==
    [session EXCEPT ![s].cancelled = TRUE, ![s].stopped = TRUE, ![s].status = "stopped"]
Woken(s) == [session EXCEPT ![s].status = "running"]

LEMMA DeleteStep ==
    ASSUME ForwardsInv, NEW c \in calls, ServeDelete(c) PROVE ForwardsInv'
<1>1. \/ c.of \in known /\ session' = Told(c.of) /\ known' = known \ {c.of}
         /\ Advance(c, "deleted")
      \/ UNCHANGED <<session, known>> /\ Advance(c, "refused")
  BY DEF ServeDelete, Told
<1>2. UNCHANGED <<wedged, switchVars, made, listed, listing, unlisted>>
  BY DEF ServeDelete
<1>3. calls' \subseteq Calls /\ calls' # {}
  BY <1>1, CallAdvances DEF ForwardsInv
<1>4. session \in [Sessions -> Session] /\ known \subseteq Sessions
  BY DEF ForwardsInv, PortForwardsTypeOK
<1>5. ASSUME c.of \in known, session' = Told(c.of)
      PROVE  /\ session' \in [Sessions -> Session]
             /\ session'[c.of].stopped
             /\ \A r \in Sessions : r # c.of => session'[r] = session[r]
  <2>0. session[c.of] \in Session /\ c.of \in Sessions
    BY <1>4, <1>5
  <2>1. [session[c.of] EXCEPT !.cancelled = TRUE, !.stopped = TRUE, !.status = "stopped"] \in Session
    BY <2>0 DEF Session
  <2>2. session' = [session EXCEPT ![c.of] =
            [session[c.of] EXCEPT !.cancelled = TRUE, !.stopped = TRUE, !.status = "stopped"]]
    BY <1>4, <1>5 DEF Told
  <2>3. [session[c.of] EXCEPT !.cancelled = TRUE, !.stopped = TRUE, !.status = "stopped"].stopped
    BY <2>0 DEF Session
  <2> QED BY <1>4, <2>0, <2>1, <2>2, <2>3
<1>6. session' \in [Sessions -> Session] /\ known' \subseteq Sessions
  BY <1>1, <1>4, <1>5
<1>7. PortForwardsTypeOK'
  BY <1>2, <1>3, <1>6 DEF ForwardsInv, PortForwardsTypeOK, switchVars
<1>8. TableInv'
  <2>1. CASE UNCHANGED <<session, known>>
    BY <2>1 DEF ForwardsInv, TableInv
  <2>2. CASE c.of \in known /\ session' = Told(c.of) /\ known' = known \ {c.of}
    BY <2>2, <1>4, <1>5 DEF ForwardsInv, TableInv
  <2> QED BY <1>1, <2>1, <2>2
<1>9. ListInv'
  BY <1>3 DEF ListInv
<1> QED BY <1>7, <1>8, <1>9 DEF ForwardsInv

LEMMA PostStep ==
    ASSUME ForwardsInv, PortForwardsAssumption, NEW c \in calls, ServePost(c) PROVE ForwardsInv'
<1>1. PICK s \in Sessions, p \in Ports :
        /\ session' = Begun(s, p) /\ known' = known \cup {s}
        /\ calls' = (calls \ {c}) \cup {[c EXCEPT !.stage = "sleeping", !.makes = s]}
  BY DEF ServePost, Begun
<1>2. UNCHANGED <<wedged, switchVars, made, listed, listing, unlisted>>
  BY DEF ServePost
<1>3. [c EXCEPT !.stage = "sleeping", !.makes = s] \in Calls
  <2>1. c \in Calls
    BY DEF ForwardsInv, PortForwardsTypeOK
  <2> QED BY <2>1 DEF Calls
<1>4. session \in [Sessions -> Session] /\ known \subseteq Sessions
  BY DEF ForwardsInv, PortForwardsTypeOK
<1> DEFINE begun == [NoSession EXCEPT
        !.status = "starting", !.port = p, !.forward = "dialing", !.run = "starting"]
<1>5. NoSession \in Session
  BY DEF NoSession, Session
<1>6. begun \in Session
  BY <1>5 DEF Session
<1>7. session' = [session EXCEPT ![s] = begun]
  BY <1>1 DEF Begun
<1>8. /\ ~begun.cancelled /\ ~begun.stopped /\ begun.status = "starting"
      /\ begun.run # "done" /\ begun.forward # "ended"
  BY DEF NoSession
<1> HIDE DEF begun
<1>9. session' \in [Sessions -> Session] /\ session'[s] = begun
      /\ \A r \in Sessions : r # s => session'[r] = session[r]
  BY <1>4, <1>6, <1>7
<1>10. calls' \subseteq Calls /\ calls' # {}
  BY <1>1, <1>3 DEF ForwardsInv, PortForwardsTypeOK
<1>11. PortForwardsTypeOK'
  BY <1>1, <1>2, <1>4, <1>9, <1>10 DEF ForwardsInv, PortForwardsTypeOK, switchVars
<1>12. TableInv'
  BY <1>1, <1>4, <1>8, <1>9 DEF ForwardsInv, TableInv
<1>13. ListInv'
  BY <1>10 DEF ListInv
<1> QED BY <1>11, <1>12, <1>13 DEF ForwardsInv

\* A failed session keeps its status, any other is running.
LEMMA WakeStep ==
    ASSUME ForwardsInv, NEW c \in calls, HandlerWakes(c) PROVE ForwardsInv'
<1>1. /\ Advance(c, "ok") \/ Advance(c, "failed")
      /\ \/ UNCHANGED session
         \/ /\ session' = Woken(c.makes)
            /\ c.makes \in known /\ session[c.makes].status # "error"
      /\ wedged' \in BOOLEAN
      /\ UNCHANGED <<known, switchVars, made, listed, listing, unlisted>>
  <2>1. CASE c.makes \in known
    BY <2>1 DEF HandlerWakes, Wake, Woken, ForwardsInv, PortForwardsTypeOK
  <2>2. CASE c.makes \notin known
    BY <2>2 DEF HandlerWakes
  <2> QED BY <2>1, <2>2
<1>2. calls' \subseteq Calls /\ calls' # {}
  BY <1>1, CallAdvances DEF ForwardsInv
<1>3. session \in [Sessions -> Session] /\ known \subseteq Sessions
  BY DEF ForwardsInv, PortForwardsTypeOK
<1>4. ASSUME session' = Woken(c.makes), c.makes \in known, session[c.makes].status # "error"
      PROVE  session' \in [Sessions -> Session] /\ TableInv'
  <2>1. session[c.makes] \in Session /\ c.makes \in Sessions
    BY <1>3, <1>4
  <2>2. /\ [session[c.makes] EXCEPT !.status = "running"] \in Session
        /\ [session[c.makes] EXCEPT !.status = "running"].status = "running"
        /\ [session[c.makes] EXCEPT !.status = "running"].run = session[c.makes].run
        /\ [session[c.makes] EXCEPT !.status = "running"].forward = session[c.makes].forward
        /\ [session[c.makes] EXCEPT !.status = "running"].stopped = session[c.makes].stopped
        /\ [session[c.makes] EXCEPT !.status = "running"].cancelled = session[c.makes].cancelled
    BY <2>1 DEF Session
  <2>3. session' = [session EXCEPT ![c.makes] = [session[c.makes] EXCEPT !.status = "running"]]
    BY <1>3, <1>4 DEF Woken
  <2>4. /\ session' \in [Sessions -> Session]
        /\ session'[c.makes] = [session[c.makes] EXCEPT !.status = "running"]
        /\ \A r \in Sessions : r # c.makes => session'[r] = session[r]
    BY <1>3, <2>1, <2>2, <2>3
  <2>5. session[c.makes].run # "done"
    BY <1>4 DEF ForwardsInv, TableInv
  <2>6. known' = known
    BY <1>1
  <2>7. ASSUME NEW r \in known
        PROVE  /\ ~session'[r].cancelled /\ ~session'[r].stopped
               /\ session'[r].status \in {"starting", "running", "error"}
               /\ session'[r].run = "done" => session'[r].status = "error"
    <3>1. CASE r = c.makes
      BY <2>2, <2>4, <2>5, <2>7, <3>1 DEF ForwardsInv, TableInv
    <3>2. CASE r # c.makes
      BY <1>3, <2>4, <2>7, <3>2 DEF ForwardsInv, TableInv
    <3> QED BY <3>1, <3>2
  <2>8. ASSUME NEW r \in Sessions, session'[r].forward = "ended" PROVE session'[r].stopped
    <3>1. session'[r].forward = session[r].forward /\ session'[r].stopped = session[r].stopped
      BY <2>2, <2>4
    <3>2. session[r].forward = "ended"
      BY <2>8, <3>1
    <3> QED BY <3>1, <3>2 DEF ForwardsInv, TableInv
  <2> QED BY <2>4, <2>6, <2>7, <2>8 DEF TableInv
<1>5. session' \in [Sessions -> Session] /\ TableInv'
  <2>1. CASE UNCHANGED session
    BY <1>1, <1>3, <2>1 DEF ForwardsInv, TableInv
  <2> QED BY <1>1, <1>4, <2>1
<1>6. PortForwardsTypeOK'
  BY <1>1, <1>2, <1>5 DEF ForwardsInv, PortForwardsTypeOK, switchVars
<1>7. ListInv'
  BY <1>2 DEF ListInv
<1> QED BY <1>5, <1>6, <1>7 DEF ForwardsInv

LEMMA StopAllStep ==
    ASSUME PortForwardsAssumption, ForwardsInv, StopAll PROVE ForwardsInv'
<1>1. session \in [Sessions -> Session] /\ known \subseteq Sessions
  BY DEF ForwardsInv, PortForwardsTypeOK
<1> DEFINE told(s) == IF s \in known
                      THEN [session[s] EXCEPT !.cancelled = TRUE, !.status = "stopped"]
                      ELSE session[s]
<1>2. ASSUME NEW s \in Sessions
      PROVE  told(s) \in Session /\ (told(s).forward = "ended" => told(s).stopped)
  <2>1. session[s] \in Session /\ (session[s].forward = "ended" => session[s].stopped)
    BY <1>1 DEF ForwardsInv, TableInv
  <2> DEFINE new == [session[s] EXCEPT !.cancelled = TRUE, !.status = "stopped"]
  <2>2. new \in Session
    BY <2>1 DEF Session
  <2>3. new.forward = session[s].forward /\ new.stopped = session[s].stopped
    BY <2>1 DEF Session
  <2> HIDE DEF new
  <2>4. told(s) \in {new, session[s]}
    BY DEF new
  <2> HIDE DEF told
  <2> QED BY <2>1, <2>2, <2>3, <2>4
<1>3. session' = [s \in Sessions |-> told(s)]
  BY DEF StopAll
<1>4. /\ known' = {} /\ behind' = TRUE /\ switches' = switches + 1 /\ switches < MaxSwitches
      /\ UNCHANGED <<wedged, calls, made, listed, listing, unlisted>>
  BY DEF StopAll
<1> HIDE DEF told
<1>5. session' \in [Sessions -> Session] /\ TableInv'
  BY <1>2, <1>3, <1>4 DEF TableInv
<1>6. switches' \in 0 .. MaxSwitches
  BY <1>4 DEF ForwardsInv, PortForwardsTypeOK, PortForwardsAssumption
<1>7. PortForwardsTypeOK'
  BY <1>4, <1>5, <1>6 DEF ForwardsInv, PortForwardsTypeOK
<1> QED BY <1>4, <1>5, <1>7 DEF ForwardsInv, ListInv

\* What the page and the list's handler do leaves the sessions alone.
LEMMA ListStep ==
    ASSUME ForwardsInv, ServeList \/ Poll \/ ListArrives \/ ListStartsOver PROVE ForwardsInv'
<1>1. UNCHANGED <<session, known, wedged, switches, calls, made>>
  BY DEF ServeList, Poll, ListArrives, ListStartsOver, serverVars, switchVars
<1>2. TableInv'
  BY <1>1 DEF ForwardsInv, TableInv
<1>3. PortForwardsTypeOK
  BY DEF ForwardsInv
<1>4. CASE ServeList
  <2> DEFINE seen == {[id |-> s, status |-> session[s].status] : s \in known}
  <2>1. seen \subseteq Listed
    BY DEF Listed, ForwardsInv, PortForwardsTypeOK, TableInv
  <2>2. {x.id : x \in seen} = known
    <3>1. \A s \in known : [id |-> s, status |-> session[s].status] \in seen
      OBVIOUS
    <3>2. \A s \in known : [id |-> s, status |-> session[s].status].id = s
      OBVIOUS
    <3>3. \A x \in seen : x.id \in known
      OBVIOUS
    <3> HIDE DEF seen
    <3>4. \A s \in known : \E x \in seen : x.id = s
      BY <3>1, <3>2
    <3> QED BY <3>3, <3>4
  <2>3. /\ listing' = [stage |-> "answered", listed |-> seen]
        /\ unlisted' = FALSE /\ UNCHANGED <<behind, listed>>
    BY <1>4 DEF ServeList, switchVars
  <2> HIDE DEF seen
  <2>4. PortForwardsTypeOK'
    BY <1>1, <1>3, <2>1, <2>3 DEF PortForwardsTypeOK
  <2>5. ListInv'
    BY <1>1, <2>2, <2>3 DEF ListInv
  <2> QED BY <1>2, <2>4, <2>5 DEF ForwardsInv
<1>5. CASE Poll \/ ListStartsOver
  <2>1. /\ listing' = ListAsked /\ behind' \in BOOLEAN /\ listed' \subseteq Listed
        /\ unlisted' = unlisted
    BY <1>3, <1>5 DEF Poll, ListStartsOver, switchVars, PortForwardsTypeOK
  <2>2. PortForwardsTypeOK'
    BY <1>1, <1>3, <2>1 DEF PortForwardsTypeOK, ListAsked
  <2>3. ListInv'
    BY <2>1 DEF ListInv, ListAsked
  <2> QED BY <1>2, <2>2, <2>3 DEF ForwardsInv
<1>6. CASE ListArrives
  <2>1. /\ listing.stage = "answered" /\ listing' = ListIdle /\ listed' = listing.listed
        /\ UNCHANGED <<behind, unlisted>>
    BY <1>6 DEF ListArrives, switchVars
  <2>2. PortForwardsTypeOK'
    BY <1>1, <1>3, <2>1 DEF PortForwardsTypeOK, ListIdle
  <2>3. ListInv'
    BY <1>1, <2>1 DEF ForwardsInv, ListInv, ListIdle
  <2> QED BY <1>2, <2>2, <2>3 DEF ForwardsInv
<1> QED BY <1>4, <1>5, <1>6

LEMMA CallStep ==
    ASSUME ForwardsInv, PortForwardsAssumption,
           \/ StartForward
           \/ \E x \in listed : Stop(x) \/ \E p \in Ports : ChangeForward(x, p)
    PROVE  ForwardsInv'
<1>1. PICK kind \in {"start", "stop", "change"}, id \in Sessions \cup {0}, port \in Ports \cup {0},
           stage \in {"delete", "post"} : Call(kind, id, port, stage)
  <2>1. CASE StartForward
    BY <2>1 DEF StartForward
  <2>2. ASSUME NEW x \in listed, Stop(x) \/ \E p \in Ports : ChangeForward(x, p)
        PROVE  \E kind \in {"start", "stop", "change"}, id \in Sessions \cup {0},
                  port \in Ports \cup {0}, stage \in {"delete", "post"} :
                  Call(kind, id, port, stage)
    <3>1. x.id \in Sessions
      BY DEF ForwardsInv, PortForwardsTypeOK, Listed
    <3> QED BY <2>2, <3>1 DEF Stop, ChangeForward
  <2> QED BY <2>1, <2>2
<1> DEFINE c == [kind |-> kind, of |-> id, port |-> port, stage |-> stage, makes |-> 0]
<1>2. c \in Calls
  BY DEF Calls
<1>3. /\ made' = made + 1 /\ made < MaxCalls /\ calls' = calls \cup {c}
      /\ UNCHANGED <<session, known, wedged, switches, behind, listed, listing, unlisted>>
  BY <1>1 DEF Call, serverVars, switchVars
<1> HIDE DEF c
<1>4. made' \in 0 .. MaxCalls
  BY <1>3 DEF ForwardsInv, PortForwardsTypeOK, PortForwardsAssumption
<1>5. PortForwardsTypeOK'
  BY <1>2, <1>3, <1>4 DEF ForwardsInv, PortForwardsTypeOK
<1>6. TableInv'
  BY <1>3 DEF ForwardsInv, TableInv
<1>7. ListInv'
  BY <1>3 DEF ListInv
<1> QED BY <1>5, <1>6, <1>7 DEF ForwardsInv

\* An answer is followed by another request, by a fetch, or is a failed start's.
LEMMA AnswerStep ==
    ASSUME ForwardsInv, NEW c \in calls, StartRefused(c) \/ Deleted(c) \/ Posted(c)
    PROVE  ForwardsInv'
<1>1. UNCHANGED <<session, known, wedged, switches, behind, made, listed>>
  BY DEF StartRefused, Deleted, Posted, serverVars, switchVars
<1>2. TableInv'
  BY <1>1 DEF ForwardsInv, TableInv
<1>3. PortForwardsTypeOK
  BY DEF ForwardsInv
<1>4. CASE Advance(c, "failed") \/ Advance(c, "post")
  <2>1. calls' \subseteq Calls /\ calls' # {}
    BY <1>3, <1>4, CallAdvances
  <2>2. unlisted' \in BOOLEAN /\ (listing' = listing \/ listing' = ListAsked)
    BY <1>3 DEF StartRefused, Deleted, Posted, ListAgain, PortForwardsTypeOK
  <2>3. PortForwardsTypeOK'
    BY <1>1, <1>3, <2>1, <2>2 DEF PortForwardsTypeOK, ListAsked
  <2> QED BY <1>2, <2>1, <2>3 DEF ForwardsInv, ListInv
<1>5. CASE /\ calls' = calls \ {c}
           /\ \/ listing' = ListAsked /\ unlisted' = unlisted
              \/ listing' = listing /\ unlisted' = TRUE
  <2>0. /\ calls' \subseteq Calls /\ unlisted' \in BOOLEAN
        /\ listing' = listing \/ listing' = ListAsked
    BY <1>3, <1>5 DEF PortForwardsTypeOK
  <2>1. PortForwardsTypeOK'
    BY <1>1, <1>3, <2>0 DEF PortForwardsTypeOK, ListAsked
  <2>2. ListInv'
    BY <1>5 DEF ListInv, ListAsked
  <2> QED BY <1>2, <2>1, <2>2 DEF ForwardsInv
<1> QED BY <1>4, <1>5 DEF StartRefused, Deleted, Posted, ListAgain

LEMMA ForwardsStep ==
    ASSUME PortForwardsAssumption, ForwardsInv, [PortForwardsNext]_portForwardsVars
    PROVE  ForwardsInv'
<1>1. CASE ServeList \/ Poll \/ ListArrives \/ ListStartsOver
  BY <1>1, ListStep
<1>2. CASE StopAll
  BY <1>2, StopAllStep
<1>3. CASE \/ StartForward
           \/ \E x \in listed : Stop(x) \/ \E p \in Ports : ChangeForward(x, p)
  BY <1>3, CallStep
<1>4. ASSUME NEW s \in Sessions,
             \/ Listens(s) \/ ConnectionLost(s) \/ ForwardEnds(s)
             \/ RunIsReady(s) \/ RunFails(s) \/ RunEnds(s)
      PROVE  ForwardsInv'
  BY <1>4, ForwardSteps, RunSteps
<1>5. ASSUME NEW c \in calls,
             \/ ServeDelete(c) \/ ServePost(c) \/ HandlerWakes(c)
             \/ StartRefused(c) \/ Deleted(c) \/ Posted(c)
      PROVE  ForwardsInv'
  BY <1>5, DeleteStep, PostStep, WakeStep, AnswerStep
<1>6. CASE UNCHANGED portForwardsVars
  BY <1>6 DEF portForwardsVars, serverVars, switchVars, ForwardsInv, PortForwardsTypeOK,
      TableInv, ListInv
<1> QED BY <1>1, <1>2, <1>3, <1>4, <1>5, <1>6 DEF PortForwardsNext

LEMMA ForwardsInvHolds == PortForwardsAssumption /\ PortForwardsSpec => []ForwardsInv
<1> SUFFICES ASSUME PortForwardsAssumption PROVE PortForwardsSpec => []ForwardsInv
  OBVIOUS
<1> QED BY ForwardsStart, ForwardsStep, PTL DEF PortForwardsSpec

\* Sessions, calls and what is listed keep their types: a session that was
\* stopped is never listed.
THEOREM ForwardsTypeCorrect == PortForwardsAssumption /\ PortForwardsSpec => []PortForwardsTypeOK
<1>1. ForwardsInv => PortForwardsTypeOK
  BY DEF ForwardsInv
<1> QED BY <1>1, ForwardsInvHolds, PTL

\* However the end of a forward meets the handler that waits for its start,
\* a session in the table whose forward is over is an error.
THEOREM StatusIsTruthfulHolds == PortForwardsAssumption /\ PortForwardsSpec => []StatusIsTruthful
<1>1. ForwardsInv => StatusIsTruthful
  BY DEF ForwardsInv, TableInv, StatusIsTruthful
<1> QED BY <1>1, ForwardsInvHolds, PTL

\* Whatever fetches cross the requests, the page ends on the sessions there are.
THEOREM ListShowsTheSessionsHolds ==
    PortForwardsAssumption /\ PortForwardsSpec => []ListShowsTheSessions
<1>1. ForwardsInv => ListShowsTheSessions
  BY DEF ForwardsInv, ListInv, ListShowsTheSessions, ListIdle
<1> QED BY <1>1, ForwardsInvHolds, PTL

-----------------------------------------------------------------------------
(* The terminal. *)

\* A socket being opened or open is the newest attempt's, which wsRef holds, so
\* that whatever runs connect again or closes the tab closes it; a session
\* asked for by a tab that is gone is cancelled.
SessionInv ==
    /\ TerminalTabTypeOK
    /\ ~mounted => cancelled
    /\ \A a \in Attempts : a > tried => attempt[a] = "none"
    /\ ~raced => \A a \in Attempts :
           /\ attempt[a] = "asking" => a = tried
           /\ Live(a) => a = tried /\ a = wsRef /\ mounted

\* Closing what wsRef holds leaves nothing live.
LEMMA ClosedLeavesNoneLive ==
    ASSUME SessionInv
    PROVE  /\ Closed \in [Attempts -> {"none", "asking", "opening", "open", "failing", "closing", "over"}]
           /\ ~raced => \A a \in Attempts : Closed[a] \notin {"opening", "open"}
           /\ \A a \in Attempts : /\ Closed[a] = "asking" <=> attempt[a] = "asking"
                                  /\ Closed[a] = "none" <=> attempt[a] = "none"
BY DEF SessionInv, TerminalTabTypeOK, Closed, Closing, Live

\* connect, run on a terminal that is there, leaves one attempt, its own, that
\* can still get a session (or notes that it does not).
LEMMA ConnectStep ==
    ASSUME SessionInv, mounted, Connect(TRUE), UNCHANGED <<mounted, wsRef>>
    PROVE  /\ tried' \in 0 .. MaxAttempts /\ wsRef' \in 0 .. tried'
           /\ attempt' \in [Attempts -> {"none", "asking", "opening", "open", "failing", "closing", "over"}]
           /\ cancelled' \in BOOLEAN /\ isConnecting' \in BOOLEAN /\ raced' \in BOOLEAN
           /\ \A a \in Attempts : a > tried' => attempt'[a] = "none"
           /\ ~raced' => \A a \in Attempts :
                  /\ attempt'[a] = "asking" => a = tried'
                  /\ ~Live(a)'
<1>1. /\ tried < MaxAttempts /\ tried' = tried + 1
      /\ attempt' = [Closed EXCEPT ![tried + 1] = "asking"]
      /\ cancelled' = FALSE /\ isConnecting' = TRUE
      /\ raced' = (raced \/ \E a \in Attempts : attempt[a] = "asking")
  BY DEF Connect
<1>2. /\ tried \in Nat /\ MaxAttempts \in Nat /\ tried + 1 \in Attempts /\ tried' \in 0 .. MaxAttempts
      /\ wsRef' \in 0 .. tried' /\ \A a \in Attempts : a \in Nat
      /\ \A a \in Attempts : a > tried' => a > tried
  BY <1>1, TerminalTabAssumption, SMT DEF SessionInv, TerminalTabTypeOK, Attempts
<1>3. /\ attempt' \in [Attempts -> {"none", "asking", "opening", "open", "failing", "closing", "over"}]
      /\ \A a \in Attempts : attempt'[a] = IF a = tried + 1 THEN "asking" ELSE Closed[a]
  BY <1>1, <1>2, ClosedLeavesNoneLive
<1>4. \A a \in Attempts : a > tried' => attempt'[a] = "none"
  <2> SUFFICES ASSUME NEW a \in Attempts, a > tried' PROVE attempt'[a] = "none"
    OBVIOUS
  <2>1. a > tried /\ a # tried + 1
    BY <1>1, <1>2, SMT
  <2> QED BY <1>3, <2>1, ClosedLeavesNoneLive DEF SessionInv
<1>5. raced' \in BOOLEAN
  BY <1>1 DEF SessionInv, TerminalTabTypeOK
<1>6. ASSUME ~raced', NEW a \in Attempts
      PROVE  /\ attempt'[a] = "asking" => a = tried'
             /\ ~Live(a)'
  <2>1. ~raced /\ attempt[a] # "asking"
    BY <1>1, <1>6
  <2> QED BY <1>1, <1>3, <2>1, ClosedLeavesNoneLive DEF Live
<1> QED BY <1>1, <1>2, <1>3, <1>4, <1>5, <1>6

\* A tab has one live session, its newest, and none once it is closed, unless
\* connect ran while an earlier session was still being asked for.
THEOREM OneLiveSessionHolds == TerminalTabSpec => []OneLiveSession
<1>1. TerminalTabInit => SessionInv
  <2> SUFFICES ASSUME TerminalTabInit PROVE SessionInv
    OBVIOUS
  <2>1. 1 \in Attempts /\ 1 \in 0 .. MaxAttempts /\ 0 \in 0 .. MaxPicks /\ \A a \in Attempts : a > 1 => a # 1
    BY TerminalTabAssumption, SMT DEF Attempts
  <2>2. TerminalTabTypeOK
    <3>1. wsRef \in 0 .. tried /\ presses \in 0 .. 1
      BY SMT DEF TerminalTabInit
    <3> QED BY <2>1, <3>1 DEF TerminalTabInit, TerminalTabTypeOK
  <2> QED BY <2>1, <2>2 DEF TerminalTabInit, SessionInv, Live
<1>2. SessionInv /\ [TerminalTabNext]_terminalTabVars => SessionInv'
  <2> SUFFICES ASSUME SessionInv, [TerminalTabNext]_terminalTabVars PROVE SessionInv'
    OBVIOUS
  <2>0. \A a \in Attempts : a \in Nat
    BY SMT DEF Attempts
  <2>1. CASE Press
    <3>1. CASE shownError = "none"
      <4>1. Connect(TRUE) /\ presses' \in 0 .. 1 /\ mounted
            /\ UNCHANGED <<picks, mounted, wsRef, isConnected, shownError, debugging>>
        BY <2>1, <3>1, SMT DEF Press, Connect
      <4> QED BY <4>1, ConnectStep DEF SessionInv, TerminalTabTypeOK
    <3>2. CASE shownError # "none"
      <4>1. presses' \in 0 .. 1
        BY <2>1, SMT DEF Press
      <4> QED BY <2>1, <3>2, <4>1 DEF Press, Connect, SessionInv, TerminalTabTypeOK, Live
    <3> QED BY <3>1, <3>2
  <2>2. CASE PickContainer
    <3>0. picks' \in 0 .. MaxPicks /\ mounted
          /\ UNCHANGED <<presses, mounted, wsRef, isConnected, shownError, debugging>>
      BY <2>2, TerminalTabAssumption, SMT DEF PickContainer, SessionInv, TerminalTabTypeOK
    <3>1. CASE shownError = "none"
      <4>1. Connect(TRUE)
        BY <2>2, <3>1 DEF PickContainer
      <4> QED BY <3>0, <4>1, ConnectStep DEF SessionInv, TerminalTabTypeOK
    <3>2. CASE shownError # "none"
      <4>1. /\ attempt' = Closed /\ cancelled' = TRUE /\ UNCHANGED <<tried, isConnecting, raced>>
        BY <2>2, <3>2 DEF PickContainer
      <4> QED BY <3>0, <4>1, ClosedLeavesNoneLive DEF SessionInv, TerminalTabTypeOK, Live
    <3> QED BY <3>1, <3>2
  <2>3. CASE CloseTab
    BY <2>3, ClosedLeavesNoneLive DEF CloseTab, SessionInv, TerminalTabTypeOK, Live
  <2>4. CASE CreateDebug \/ DebugFails
    BY <2>4 DEF CreateDebug, DebugFails, SessionInv, TerminalTabTypeOK, Live
  <2>5. CASE DebugCreated
    <3>1. Connect(TRUE) /\ mounted /\ debugging' = FALSE /\ shownError' = "none"
          /\ UNCHANGED <<picks, presses, mounted, wsRef, isConnected>>
      BY <2>5 DEF DebugCreated
    <3> QED BY <3>1, ConnectStep DEF SessionInv, TerminalTabTypeOK
  <2>6. ASSUME NEW a \in Attempts, SessionComes(a) PROVE SessionInv'
    <3>0. /\ attempt[a] = "asking" /\ a \in 0 .. tried
          /\ UNCHANGED <<tried, picks, presses, mounted, cancelled, isConnected, isConnecting,
                         shownError, debugging, raced>>
      BY <2>0, <2>6, SMT DEF SessionComes, SessionInv, TerminalTabTypeOK
    <3>1. CASE cancelled
      <4>1. attempt' = [attempt EXCEPT ![a] = "over"] /\ wsRef' = wsRef
        BY <2>6, <3>1 DEF SessionComes, UseSession, Move
      <4> QED BY <3>0, <4>1 DEF SessionInv, TerminalTabTypeOK, Live
    <3>2. CASE ~cancelled
      <4>1. attempt' = [attempt EXCEPT ![a] = "opening"] /\ wsRef' = a
        BY <2>6, <3>2 DEF SessionComes, UseSession, Move
      <4> QED BY <3>0, <3>2, <4>1 DEF SessionInv, TerminalTabTypeOK, Live
    <3> QED BY <3>1, <3>2
  <2>7. ASSUME NEW a \in Attempts, SessionFails(a) \/ OnOpen(a) PROVE SessionInv'
    BY <2>7 DEF SessionFails, OnOpen, Move, SessionInv, TerminalTabTypeOK, Live
  <2>8. ASSUME NEW a \in Attempts, OnError(a) \/ OnClose(a) PROVE SessionInv'
    BY <2>8 DEF OnError, OnClose, NotConnected, Move, SessionInv, TerminalTabTypeOK, Live
  <2>9. ASSUME NEW a \in Attempts, NEW error \in {"shell_not_found", "other"}, OnErrorMessage(a, error)
        PROVE  SessionInv'
    BY <2>9 DEF OnErrorMessage, SessionInv, TerminalTabTypeOK, Live
  <2>10. CASE UNCHANGED terminalTabVars
    BY <2>10 DEF terminalTabVars, SessionInv, TerminalTabTypeOK, Live
  <2> QED
    BY <2>1, <2>2, <2>3, <2>4, <2>5, <2>6, <2>7, <2>8, <2>9, <2>10 DEF TerminalTabNext, SocketStep
<1>3. SessionInv => OneLiveSession
  BY DEF SessionInv, OneLiveSession
<1> QED BY <1>1, <1>2, <1>3, PTL DEF TerminalTabSpec

-----------------------------------------------------------------------------
(* The dock. *)

\* The two parts of a concatenation.
LEMMA ConcatLeft ==
    ASSUME NEW S, NEW s \in Seq(S), NEW t \in Seq(S), NEW k \in 1 .. Len(s)
    PROVE  (s \o t)[k] = s[k]
BY SMT

LEMMA ConcatRight ==
    ASSUME NEW S, NEW s \in Seq(S), NEW t \in Seq(S), NEW k \in 1 .. Len(t)
    PROVE  (s \o t)[Len(s) + k] = t[k]
BY SMT

\* Removing one element of a sequence keeps the others in order.
LEMMA RemoveAtFacts ==
    ASSUME NEW S, NEW s \in Seq(S), NEW i \in DOMAIN s
    PROVE  /\ RemoveAt(s, i) \in Seq(S)
           /\ Len(RemoveAt(s, i)) = Len(s) - 1
           /\ \A j \in 1 .. Len(s) - 1 : RemoveAt(s, i)[j] = IF j < i THEN s[j] ELSE s[j + 1]
<1>1. Len(s) \in Nat /\ i \in Nat /\ 1 <= i /\ i <= Len(s)
  BY SMT
<1>2. /\ SubSeq(s, 1, i - 1) \in Seq(S) /\ Len(SubSeq(s, 1, i - 1)) = i - 1
      /\ \A j \in 1 .. i - 1 : SubSeq(s, 1, i - 1)[j] = s[j]
  BY <1>1, SMT
<1>3. /\ SubSeq(s, i + 1, Len(s)) \in Seq(S) /\ Len(SubSeq(s, i + 1, Len(s))) = Len(s) - i
      /\ \A j \in 1 .. Len(s) - i : SubSeq(s, i + 1, Len(s))[j] = s[i + j]
  BY <1>1, SMT
<1> DEFINE front == SubSeq(s, 1, i - 1)
           back == SubSeq(s, i + 1, Len(s))
<1>4. RemoveAt(s, i) = front \o back
  BY DEF RemoveAt
<1> HIDE DEF front, back
<1>5. /\ front \in Seq(S) /\ Len(front) = i - 1 /\ \A j \in 1 .. i - 1 : front[j] = s[j]
      /\ back \in Seq(S) /\ Len(back) = Len(s) - i /\ \A j \in 1 .. Len(s) - i : back[j] = s[i + j]
  BY <1>2, <1>3 DEF front, back
<1>6. front \o back \in Seq(S) /\ Len(front \o back) = Len(s) - 1
  BY <1>1, <1>5, SMT
<1>7. ASSUME NEW j \in 1 .. Len(s) - 1
      PROVE  (front \o back)[j] = IF j < i THEN s[j] ELSE s[j + 1]
  <2>1. CASE j < i
    <3>1. j \in 1 .. Len(front) /\ j \in 1 .. i - 1
      BY <1>1, <1>5, <1>7, <2>1, SMT
    <3>2. (front \o back)[j] = front[j]
      BY <1>5, <3>1, ConcatLeft
    <3> QED BY <1>5, <2>1, <3>1, <3>2
  <2>2. CASE ~(j < i)
    <3> DEFINE k == j - (i - 1)
    <3>1. k \in 1 .. Len(s) - i /\ Len(front) + k = j /\ i + k = j + 1
      BY <1>1, <1>5, <1>7, <2>2, SMT
    <3> HIDE DEF k
    <3>2. (front \o back)[j] = back[k]
      <4>1. k \in 1 .. Len(back) /\ front \in Seq(S) /\ back \in Seq(S)
        BY <1>5, <3>1
      <4>2. (front \o back)[Len(front) + k] = back[k]
        BY <4>1, ConcatRight
      <4> QED BY <3>1, <4>2
    <3>3. back[k] = s[i + k]
      BY <1>5, <3>1
    <3> QED BY <2>2, <3>1, <3>2, <3>3
  <2> QED BY <2>1, <2>2
<1> QED BY <1>4, <1>6, <1>7

LEMMA ElementOfSeq == ASSUME NEW S, NEW s \in Seq(S) PROVE \A i \in DOMAIN s : s[i] \in S
BY SMT

\* Each tab has an id of its own, given out by tabIdCounter.
TabsInv ==
    /\ tabs \in Seq([id : TabIds, key : Keys])
    /\ opened \in 0 .. MaxTabs /\ Len(tabs) <= opened
    /\ \A i \in DOMAIN tabs : tabs[i].id <= opened
    /\ \A i, j \in DOMAIN tabs : tabs[i].id = tabs[j].id => i = j

DockInv ==
    /\ TabsInv
    /\ active \in TabIds \cup {NoTab} /\ expanded \in BOOLEAN
    /\ DockShowsATab

\* A node terminal asks for the deletion of its pods when it goes, once.  A tab
\* that is still there has not asked, and one that went before its pod was made
\* is known to have left it.
ShellInv ==
    /\ shell \in [TabIds -> {"none", "posted", "ready", "failed"}]
    /\ undone \subseteq TabIds /\ pods \subseteq TabIds /\ deletes \subseteq TabIds
    /\ orphaned \subseteq TabIds /\ swept \subseteq TabIds
    /\ \A t \in TabIds : t > opened => shell[t] = "none" /\ t \notin undone \cup deletes
    /\ Ids \cap (undone \cup deletes) = {}
    /\ \A t \in TabIds : shell[t] = "posted" /\ t \notin Ids => t \in orphaned
    /\ \A t \in pods : shell[t] # "none"
    /\ DebugPodsAreCleanedUp

LEMMA TabIdsOfTabs ==
    ASSUME TabsInv
    PROVE  /\ \A i \in DOMAIN tabs : tabs[i].id \in TabIds /\ tabs[i].id <= opened /\ tabs[i].id \in Ids
           /\ Ids \subseteq TabIds
<1>1. \A i \in DOMAIN tabs : tabs[i] \in [id : TabIds, key : Keys]
  <2> DEFINE S == [id : TabIds, key : Keys]
  <2>1. tabs \in Seq(S)
    BY DEF TabsInv
  <2> HIDE DEF S
  <2>2. \A i \in DOMAIN tabs : tabs[i] \in S
    BY <2>1, ElementOfSeq
  <2> QED BY <2>2 DEF S
<1>2. \A i \in DOMAIN tabs : tabs[i].id \in TabIds
  BY <1>1
<1> QED BY <1>2 DEF TabsInv, Ids

\* What the steps that change the tabs do to them.
LEMMA AddTabs ==
    ASSUME DockAssumption, TabsInv, NEW key \in Keys, SameKey(key) = {}, opened < MaxTabs,
           opened' = opened + 1, tabs' = Append(tabs, [id |-> opened + 1, key |-> key])
    PROVE  /\ TabsInv' /\ tabs' # <<>> /\ opened + 1 \in TabIds
           /\ Ids' = Ids \cup {opened + 1} /\ opened + 1 \notin Ids
           /\ (\A i, j \in DOMAIN tabs : tabs[i].key = tabs[j].key /\ tabs[i].key # "local" => i = j)
              => (\A i, j \in DOMAIN tabs : tabs[i].key = tabs[j].key /\ tabs[i].key # "local" => i = j)'
<1> DEFINE new == [id |-> opened + 1, key |-> key]
<1>1. /\ opened \in Nat /\ MaxTabs \in Nat /\ opened + 1 \in TabIds /\ opened' \in 0 .. MaxTabs
      /\ Len(tabs) \in Nat
  BY SMT DEF DockAssumption, TabsInv, TabIds
<1>2. new \in [id : TabIds, key : Keys] /\ new.id = opened + 1 /\ new.key = key
  BY <1>1
<1> HIDE DEF new
<1>3. /\ tabs' \in Seq([id : TabIds, key : Keys]) /\ Len(tabs') = Len(tabs) + 1
      /\ \A i \in DOMAIN tabs : tabs'[i] = tabs[i]
      /\ tabs'[Len(tabs) + 1] = new
      /\ DOMAIN tabs = 1 .. Len(tabs) /\ DOMAIN tabs' = 1 .. Len(tabs) + 1
  <2>1. tabs' = Append(tabs, new)
    BY DEF new
  <2> QED BY <1>2, <2>1, SMT DEF TabsInv
<1>4. DOMAIN tabs' = DOMAIN tabs \cup {Len(tabs) + 1} /\ Len(tabs) + 1 \notin DOMAIN tabs
  BY <1>1, <1>3, SMT
<1>5. \A i \in DOMAIN tabs : tabs[i].id \in Nat /\ tabs[i].id <= opened /\ tabs[i].id # opened + 1
  <2>1. \A i \in DOMAIN tabs : tabs[i].id \in TabIds /\ tabs[i].id <= opened
    BY TabIdsOfTabs
  <2> QED BY <1>1, <2>1, SMT DEF TabIds
<1>6. \A i \in DOMAIN tabs' : tabs'[i].id <= opened'
  BY <1>1, <1>2, <1>3, <1>4, <1>5, SMT
<1>7. \A i, j \in DOMAIN tabs' : tabs'[i].id = tabs'[j].id => i = j
  BY <1>2, <1>3, <1>4, <1>5 DEF TabsInv
<1>8. Len(tabs') <= opened'
  BY <1>1, <1>3, SMT DEF TabsInv
<1>9. tabs' # <<>>
  BY <1>1, <1>3, SMT
<1>10. Ids' = Ids \cup {opened + 1} /\ opened + 1 \notin Ids
  BY <1>2, <1>3, <1>4, <1>5 DEF Ids
<1>11. ASSUME \A i, j \in DOMAIN tabs : tabs[i].key = tabs[j].key /\ tabs[i].key # "local" => i = j
       PROVE  \A i, j \in DOMAIN tabs' : tabs'[i].key = tabs'[j].key /\ tabs'[i].key # "local" => i = j
  <2>1. \A i \in DOMAIN tabs : tabs[i].key = key => key = "local"
    BY DEF SameKey
  <2> QED BY <1>2, <1>3, <1>4, <1>11, <2>1
<1> QED BY <1>1, <1>3, <1>6, <1>7, <1>8, <1>9, <1>10, <1>11 DEF TabsInv

LEMMA RemoveTabs ==
    ASSUME DockAssumption, TabsInv, NEW k \in DOMAIN tabs, tabs' = RemoveAt(tabs, k), opened' = opened
    PROVE  /\ TabsInv'
           /\ Ids' = Ids \ {tabs[k].id}
           /\ tabs' # <<>> => tabs'[Len(tabs')].id \in Ids'
           /\ tabs' = <<>> => Ids' = {}
           /\ (\A i, j \in DOMAIN tabs : tabs[i].key = tabs[j].key /\ tabs[i].key # "local" => i = j)
              => (\A i, j \in DOMAIN tabs : tabs[i].key = tabs[j].key /\ tabs[i].key # "local" => i = j)'
<1> DEFINE Old(j) == IF j < k THEN j ELSE j + 1
<1>1. /\ tabs' \in Seq([id : TabIds, key : Keys]) /\ Len(tabs') = Len(tabs) - 1
      /\ \A j \in 1 .. Len(tabs) - 1 : tabs'[j] = IF j < k THEN tabs[j] ELSE tabs[j + 1]
  BY RemoveAtFacts DEF TabsInv
<1>2. /\ Len(tabs) \in Nat /\ DOMAIN tabs = 1 .. Len(tabs) /\ DOMAIN tabs' = 1 .. Len(tabs) - 1
      /\ opened \in Nat /\ k \in Nat
  BY <1>1, SMT DEF TabsInv
<1>3. /\ \A j \in DOMAIN tabs' : Old(j) \in DOMAIN tabs /\ Old(j) # k /\ tabs'[j] = tabs[Old(j)]
      /\ \A i, j \in DOMAIN tabs' : Old(i) = Old(j) => i = j
  BY <1>1, <1>2, SMT
<1>4. ASSUME NEW i \in DOMAIN tabs, i # k PROVE \E j \in DOMAIN tabs' : Old(j) = i
  <2>1. CASE i < k
    BY <1>2, <1>4, <2>1, SMT
  <2>2. CASE ~(i < k)
    <3>1. i - 1 \in DOMAIN tabs' /\ Old(i - 1) = i
      BY <1>2, <1>4, <2>2, SMT
    <3> QED BY <3>1
  <2> QED BY <2>1, <2>2
<1> HIDE DEF Old
<1>5. Ids' = Ids \ {tabs[k].id}
  <2>1. ASSUME NEW t \in Ids' PROVE t \in Ids /\ t # tabs[k].id
    <3>1. PICK j \in DOMAIN tabs' : t = tabs'[j].id
      BY <2>1 DEF Ids
    <3> QED BY <1>3, <3>1 DEF Ids, TabsInv
  <2>2. ASSUME NEW t \in Ids, t # tabs[k].id PROVE t \in Ids'
    <3>1. PICK i \in DOMAIN tabs : t = tabs[i].id
      BY <2>2 DEF Ids
    <3>2. PICK j \in DOMAIN tabs' : Old(j) = i
      BY <1>4, <2>2, <3>1
    <3> QED BY <1>3, <3>1, <3>2 DEF Ids
  <2> QED BY <2>1, <2>2
<1>6. TabsInv'
  <2>1. Len(tabs') <= opened'
    BY <1>1, <1>2, SMT DEF TabsInv
  <2>2. \A j \in DOMAIN tabs' : tabs'[j].id <= opened'
    BY <1>3 DEF TabsInv
  <2>3. \A i, j \in DOMAIN tabs' : tabs'[i].id = tabs'[j].id => i = j
    BY <1>3 DEF TabsInv
  <2> QED BY <1>1, <2>1, <2>2, <2>3 DEF TabsInv
<1>7. tabs' # <<>> => Len(tabs') \in DOMAIN tabs'
  BY <1>1, <1>2, SMT
<1>8. tabs' = <<>> => DOMAIN tabs' = {}
  BY <1>1, <1>2, SMT
<1>9. ASSUME \A i, j \in DOMAIN tabs : tabs[i].key = tabs[j].key /\ tabs[i].key # "local" => i = j
      PROVE  \A i, j \in DOMAIN tabs' : tabs'[i].key = tabs'[j].key /\ tabs'[i].key # "local" => i = j
  BY <1>3, <1>9
<1> QED BY <1>5, <1>6, <1>7, <1>8, <1>9 DEF Ids

\* The dock shows one of its tabs, is collapsed when it has none, and has one
\* tab for what it is asked for twice.
LEMMA DockStep ==
    ASSUME DockAssumption, DockInv, [DockNext]_dockAllVars
    PROVE  DockInv'
<1> USE DEF DockInv, dockVars
<1>0. \A i \in DOMAIN tabs : tabs[i].id \in TabIds /\ tabs[i].id \in Ids
  BY TabIdsOfTabs
<1>1. CASE UNCHANGED dockVars
  BY <1>1 DEF TabsInv, DockShowsATab, Ids
<1>2. ASSUME NEW key \in Keys, AddTab(key) PROVE DockInv'
  <2>1. CASE SameKey(key) # {}
    <3>1. PICK i \in SameKey(key) : Show(tabs[i].id)
      BY <1>2, <2>1 DEF AddTab
    <3>2. i \in DOMAIN tabs /\ tabs # <<>>
      BY <3>1, SMT DEF SameKey, TabsInv
    <3>3. UNCHANGED <<tabs, opened>> /\ active' = tabs[i].id /\ expanded' = TRUE
      BY <1>2, <2>1, <3>1 DEF AddTab, Show
    <3>4. TabsInv' /\ Ids' = Ids
      BY <3>3 DEF TabsInv, Ids
    <3> QED BY <1>0, <3>2, <3>3, <3>4 DEF DockShowsATab
  <2>2. CASE SameKey(key) = {}
    <3>1. /\ opened < MaxTabs /\ opened' = opened + 1
          /\ tabs' = Append(tabs, [id |-> opened + 1, key |-> key])
          /\ active' = opened + 1 /\ expanded' = TRUE
      BY <1>2, <2>2 DEF AddTab, Show
    <3>2. /\ TabsInv' /\ tabs' # <<>> /\ opened + 1 \in TabIds /\ Ids' = Ids \cup {opened + 1}
          /\ (\A i, j \in DOMAIN tabs : tabs[i].key = tabs[j].key /\ tabs[i].key # "local" => i = j)'
      BY <2>2, <3>1, AddTabs DEF DockShowsATab
    <3> QED BY <3>1, <3>2 DEF DockShowsATab
  <2> QED BY <2>1, <2>2
<1>3. ASSUME NEW t \in TabIds, RemoveTab(t) PROVE DockInv'
  <2>1. PICK k \in DOMAIN tabs : tabs[k].id = t /\ tabs' = RemoveAt(tabs, k)
    BY <1>3 DEF RemoveTab
  <2>2. /\ TabsInv' /\ Ids' = Ids \ {t} /\ (tabs' # <<>> => tabs'[Len(tabs')].id \in Ids')
        /\ (\A i, j \in DOMAIN tabs : tabs[i].key = tabs[j].key /\ tabs[i].key # "local" => i = j)'
    BY <1>3, <2>1, RemoveTabs DEF RemoveTab, DockShowsATab
  <2>3. Ids' \subseteq TabIds /\ tabs # <<>>
    <3>1. tabs # <<>>
      BY <2>1, SMT DEF TabsInv
    <3> QED BY <2>2, <3>1, TabIdsOfTabs
  <2>4. CASE tabs' = <<>>
    BY <1>3, <2>2, <2>4 DEF RemoveTab, ActiveAfter, DockShowsATab
  <2>5. CASE tabs' # <<>>
    <3>1. active' = (IF active = t THEN tabs'[Len(tabs')].id ELSE active) /\ UNCHANGED expanded
      BY <1>3, <2>5 DEF RemoveTab, ActiveAfter
    <3> QED BY <2>2, <2>3, <2>5, <3>1 DEF DockShowsATab
  <2> QED BY <2>4, <2>5
<1>4. ASSUME NEW t \in TabIds, SetActiveTab(t) PROVE DockInv'
  <2>1. t \in Ids /\ active' = t /\ expanded' = TRUE /\ UNCHANGED <<tabs, opened>>
    BY <1>4 DEF SetActiveTab, Show
  <2>2. tabs # <<>> /\ TabsInv' /\ Ids' = Ids
    BY <2>1, SMT DEF TabsInv, Ids
  <2> QED BY <1>4, <2>1, <2>2 DEF DockShowsATab
<1>5. CASE ToggleExpanded
  BY <1>5 DEF ToggleExpanded, TabsInv, DockShowsATab, Ids
<1>6. CASE CloseAll
  <2>1. tabs' = <<>> /\ active' = NoTab /\ expanded' = FALSE /\ opened' = opened
    BY <1>6 DEF CloseAll
  <2>2. TabsInv' /\ DOMAIN tabs' = {}
    BY <2>1, SMT DEF TabsInv, DockAssumption
  <2> QED BY <2>1, <2>2 DEF DockShowsATab
<1>7. ASSUME NEW t \in TabIds,
             PodIsMade(t) \/ PodIsRefused(t) \/ RetryPod(t) \/ PodsAreDeleted(t) \/ DeletionFails(t)
      PROVE  DockInv'
  BY <1>1, <1>7 DEF PodIsMade, PodIsRefused, RetryPod, PodsAreDeleted, DeletionFails
<1>8. CASE UNCHANGED dockAllVars
  BY <1>1, <1>8 DEF dockAllVars
<1> QED BY <1>2, <1>3, <1>4, <1>5, <1>6, <1>7, <1>8 DEF DockNext

\* What closing the tabs ts does: each that had asked for a pod asks for the
\* deletion of its node's, if it has not.
LEMMA UnmountStep ==
    ASSUME DockAssumption, TabsInv, ShellInv, NEW ts \in SUBSET Ids, Unmount(ts),
           Ids' = Ids \ ts, opened' = opened
    PROVE  ShellInv'
<1>1. Ids \subseteq TabIds
  BY TabIdsOfTabs
<1>2. /\ undone' = undone \cup NodeTabs(ts) /\ deletes' = deletes \cup NodeTabs(ts)
      /\ orphaned' = orphaned \cup {t \in NodeTabs(ts) : shell[t] = "posted"}
      /\ UNCHANGED <<shell, pods, swept>>
  BY DEF Unmount, NodeTabs, ShellInv
<1>3. NodeTabs(ts) = {t \in ts : shell[t] # "none"}
  BY DEF NodeTabs
<1>4. \A t \in TabIds : t > opened => t \notin NodeTabs(ts)
  BY <1>3 DEF ShellInv
<1>5. DebugPodsAreCleanedUp'
  BY <1>2, <1>3 DEF ShellInv, DebugPodsAreCleanedUp
<1>6. /\ undone' \subseteq TabIds /\ deletes' \subseteq TabIds /\ orphaned' \subseteq TabIds
      /\ pods' \subseteq TabIds /\ swept' \subseteq TabIds
  BY <1>1, <1>2, <1>3 DEF ShellInv
<1>7. Ids' \cap (undone' \cup deletes') = {}
  BY <1>2, <1>3 DEF ShellInv
<1>8. \A t \in TabIds : shell'[t] = "posted" /\ t \notin Ids' => t \in orphaned'
  BY <1>2, <1>3 DEF ShellInv
<1> QED BY <1>2, <1>4, <1>5, <1>6, <1>7, <1>8 DEF ShellInv

LEMMA ShellStep ==
    ASSUME DockAssumption, TabsInv, ShellInv, [DockNext]_dockAllVars
    PROVE  ShellInv'
<1> USE DEF dockVars, shellVars
<1>0. Ids \subseteq TabIds /\ \A t \in Ids : t \in Nat /\ ~(t > opened)
  <2>1. \A i \in DOMAIN tabs : tabs[i].id \in TabIds /\ tabs[i].id <= opened
    BY TabIdsOfTabs
  <2>2. opened \in Nat
    BY SMT DEF TabsInv
  <2> QED BY <2>1, <2>2, SMT DEF Ids, TabIds
<1>1. ASSUME NEW key \in Keys, AddTab(key) PROVE ShellInv'
  <2>1. CASE SameKey(key) # {}
    BY <1>1, <2>1 DEF AddTab, ShellInv, Ids, DebugPodsAreCleanedUp
  <2>2. CASE SameKey(key) = {}
    <3>1. /\ opened < MaxTabs /\ opened' = opened + 1
          /\ tabs' = Append(tabs, [id |-> opened + 1, key |-> key])
          /\ shell' = IF key = "node" THEN [shell EXCEPT ![opened + 1] = "posted"] ELSE shell
          /\ UNCHANGED <<undone, pods, deletes, orphaned, swept>>
      BY <1>1, <2>2 DEF AddTab
    <3>2. opened + 1 \in TabIds /\ Ids' = Ids \cup {opened + 1}
      BY <2>2, <3>1, AddTabs
    <3>3. opened + 1 > opened /\ \A t \in TabIds : t > opened' => t > opened /\ t # opened + 1
      BY <3>1, SMT DEF TabsInv, TabIds, DockAssumption
    <3>4. shell[opened + 1] = "none" /\ opened + 1 \notin undone \cup deletes
      BY <3>2, <3>3 DEF ShellInv
    <3>5. /\ shell' \in [TabIds -> {"none", "posted", "ready", "failed"}]
          /\ \A t \in TabIds : t # opened + 1 => shell'[t] = shell[t]
          /\ shell'[opened + 1] \in {"none", "posted"}
      BY <3>1, <3>2, <3>4 DEF ShellInv
    <3>6. opened + 1 \notin pods
      BY <3>4 DEF ShellInv
    <3>7. DebugPodsAreCleanedUp'
      BY <1>0, <3>1, <3>2, <3>5 DEF ShellInv, DebugPodsAreCleanedUp
    <3> QED BY <3>1, <3>2, <3>3, <3>4, <3>5, <3>6, <3>7 DEF ShellInv
  <2> QED BY <2>1, <2>2
<1>2. ASSUME NEW t \in TabIds, RemoveTab(t) PROVE ShellInv'
  <2>1. PICK k \in DOMAIN tabs : tabs[k].id = t /\ tabs' = RemoveAt(tabs, k)
    BY <1>2 DEF RemoveTab
  <2>2. Ids' = Ids \ {t} /\ t \in Ids
    BY <1>2, <2>1, RemoveTabs DEF RemoveTab, Ids
  <2> QED BY <1>2, <2>2, UnmountStep DEF RemoveTab
<1>3. CASE CloseAll
  <2>1. Ids' = Ids \ Ids
    <3>1. DOMAIN tabs' = {}
      BY <1>3, SMT DEF CloseAll
    <3> QED BY <3>1 DEF Ids
  <2> QED BY <1>3, <2>1, UnmountStep DEF CloseAll
<1>4. ASSUME NEW t \in TabIds, SetActiveTab(t) PROVE ShellInv'
  BY <1>4 DEF SetActiveTab, ShellInv, Ids, DebugPodsAreCleanedUp
<1>5. CASE ToggleExpanded
  BY <1>5 DEF ToggleExpanded, ShellInv, Ids, DebugPodsAreCleanedUp
<1>6. ASSUME NEW t \in TabIds, PodIsMade(t) PROVE ShellInv'
  BY <1>6 DEF PodIsMade, ShellInv, Ids, DebugPodsAreCleanedUp
<1>7. ASSUME NEW t \in TabIds, PodIsRefused(t) PROVE ShellInv'
  BY <1>7 DEF PodIsRefused, ShellInv, Ids, DebugPodsAreCleanedUp
<1>8. ASSUME NEW t \in TabIds, RetryPod(t) PROVE ShellInv'
  BY <1>0, <1>8 DEF RetryPod, ShellInv, Ids, DebugPodsAreCleanedUp
<1>9. ASSUME NEW t \in TabIds, PodsAreDeleted(t) PROVE ShellInv'
  BY <1>9 DEF PodsAreDeleted, ShellInv, Ids, DebugPodsAreCleanedUp
<1>10. ASSUME NEW t \in TabIds, DeletionFails(t) PROVE ShellInv'
  BY <1>10 DEF DeletionFails, ShellInv, Ids, DebugPodsAreCleanedUp
<1>11. CASE UNCHANGED dockAllVars
  BY <1>11 DEF dockAllVars, ShellInv, Ids, DebugPodsAreCleanedUp
<1> QED BY <1>1, <1>2, <1>3, <1>4, <1>5, <1>6, <1>7, <1>8, <1>9, <1>10, <1>11 DEF DockNext

LEMMA DockInvsHold == DockAssumption /\ DockSpec => [](DockInv /\ ShellInv)
<1> SUFFICES ASSUME DockAssumption PROVE DockSpec => [](DockInv /\ ShellInv)
  BY DEF DockAssumption
<1>1. DockInit => DockInv /\ ShellInv
  <2> SUFFICES ASSUME DockInit PROVE DockInv /\ ShellInv
    OBVIOUS
  <2>1. /\ tabs = <<>> /\ DOMAIN tabs = {} /\ Ids = {} /\ opened = 0 /\ active = NoTab /\ ~expanded
        /\ tabs \in Seq([id : TabIds, key : Keys]) /\ Len(tabs) <= opened /\ opened \in 0 .. MaxTabs
    BY SMT DEF DockInit, Ids, DockAssumption
  <2>2. DockInv
    BY <2>1 DEF DockInit, DockInv, TabsInv, DockShowsATab
  <2>3. ShellInv
    BY <2>1 DEF DockInit, ShellInv, DebugPodsAreCleanedUp
  <2> QED BY <2>2, <2>3
<1>2. DockInv /\ ShellInv /\ [DockNext]_dockAllVars => (DockInv /\ ShellInv)'
  BY DockStep, ShellStep DEF DockInv
<1> QED BY <1>1, <1>2, PTL DEF DockSpec

\* The dock that is open shows a tab it has, however tabs are opened, closed
\* and chosen, and what is not a local terminal has one tab (addTab, removeTab).
THEOREM DockShowsATabHolds == DockAssumption /\ DockSpec => []DockShowsATab
<1>1. DockInv /\ ShellInv => DockShowsATab
  BY DEF DockInv
<1> QED BY <1>1, DockInvsHold, PTL

\* The privileged debug pods of closed node terminals are deleted, and the ones
\* that open terminals show are there, but for the cases the property names.
THEOREM DebugPodsAreCleanedUpHolds == DockAssumption /\ DockSpec => []DebugPodsAreCleanedUp
<1>1. DockInv /\ ShellInv => DebugPodsAreCleanedUp
  BY DEF ShellInv
<1> QED BY <1>1, DockInvsHold, PTL

-----------------------------------------------------------------------------
(* The log. *)

Shown == entries \o unflushed
InOneRun(lines) == \A i \in DOMAIN lines : lines[i] = [lines[1] EXCEPT !.number = @ + i - 1]

\* Each snapshot asked for counts as a start.
LogTypes ==
    /\ LogViewerTypeOK
    /\ \A c \in Containers : loads[c] <= starts + 1
    /\ source.container = selected

StreamStateInv ==
    /\ isStreaming => Open(source)
    /\ streamError => source.stage = "failed"

\* Without a snapshot beside a stream or another snapshot: what is loaded is
\* the selected container's, and the lines of an open stream go up to the last
\* one that it delivered, so that the next one continues them.
RunInv ==
    ~loadedBeside =>
        /\ ~Racing /\ Loading \subseteq {selected}
        /\ InOneRun(Shown)
        /\ Loading = {} /\ ~fetchError /\ Shown # <<>> => Shown[1].container = selected
        /\ Open(source) /\ Shown # <<>>
           => Shown[Len(Shown)] = [container |-> selected, number |-> source.sent]

LogInv == LogTypes /\ StreamStateInv /\ RunInv

LEMMA ShownFacts ==
    ASSUME LogViewerTypeOK
    PROVE  /\ Shown \in Seq(Lines)
           /\ KeepLines => Shown' = Shown /\ entries' \in Seq(Lines) /\ unflushed' \in Seq(Lines)
           /\ \A lines \in Seq(Lines) : SetLines(lines)
              => Shown' = lines /\ entries' \in Seq(Lines) /\ unflushed' \in Seq(Lines)
           /\ \A line \in Lines : Append1(line)
              => Shown' = Append(Shown, line) /\ entries' \in Seq(Lines) /\ unflushed' \in Seq(Lines)
<1>1. entries \in Seq(Lines) /\ unflushed \in Seq(Lines)
  BY DEF LogViewerTypeOK
<1>2. Shown \in Seq(Lines)
  BY <1>1 DEF Shown
<1>3. KeepLines => Shown' = Shown /\ entries' \in Seq(Lines) /\ unflushed' \in Seq(Lines)
  BY <1>1 DEF Shown, KeepLines
<1>4. ASSUME NEW lines \in Seq(Lines), SetLines(lines)
      PROVE  Shown' = lines /\ entries' \in Seq(Lines) /\ unflushed' \in Seq(Lines)
  <2>1. entries' = lines /\ unflushed' = <<>>
    BY <1>4 DEF SetLines
  <2> QED BY <2>1 DEF Shown
<1>5. ASSUME NEW line \in Lines, Append1(line)
      PROVE  Shown' = Append(Shown, line) /\ entries' \in Seq(Lines) /\ unflushed' \in Seq(Lines)
  <2>1. entries' = entries /\ unflushed' = Append(unflushed, line)
    BY <1>5 DEF Append1
  <2>2. entries \o Append(unflushed, line) = Append(entries \o unflushed, line)
    BY <1>1
  <2> QED BY <1>1, <2>1, <2>2 DEF Shown
<1> QED BY <1>2, <1>3, <1>4, <1>5

LEMMA LogStart == LogViewerAssumption /\ LogViewerInit => LogInv
<1> SUFFICES ASSUME LogViewerAssumption, LogViewerInit PROVE LogInv
  OBVIOUS
<1>1. /\ source \in [container : Containers, stage : Stages, sent : 0 .. MaxLines]
      /\ source.container = selected /\ source.stage = IF following THEN "opening" ELSE "none"
  BY DEF LogViewerAssumption, LogViewerInit, NoSource, Stages
<1>2. LogTypes
  <2>1. entries = <<>> /\ unflushed = <<>> /\ entries \in Seq(Lines) /\ unflushed \in Seq(Lines)
    BY DEF LogViewerInit
  <2>2. /\ loads \in [Containers -> 0 .. MaxStarts + 1]
        /\ \A c \in Containers : loads[c] <= starts + 1
    BY DEF LogViewerAssumption, LogViewerInit
  <2>3. isLoading \in BOOLEAN
    BY DEF LogViewerInit
  <2>4. /\ written \in [Containers -> 0 .. MaxLines] /\ starts \in 0 .. MaxStarts
        /\ selected \in Containers /\ following \in BOOLEAN
    BY DEF LogViewerAssumption, LogViewerInit
  <2>5. /\ userStopped = FALSE /\ late = FALSE /\ isStreaming = FALSE /\ streamError = FALSE
        /\ fetchError = FALSE /\ loadedBeside = FALSE
    BY DEF LogViewerInit
  <2> QED BY <1>1, <2>1, <2>2, <2>3, <2>4, <2>5 DEF LogTypes, LogViewerTypeOK
<1>3. Shown = <<>>
  BY DEF LogViewerInit, Shown
<1>4. Loading \subseteq {selected} /\ ~Racing
  <2>1. /\ \A c \in Containers : loads[c] = IF c = selected /\ ~following THEN 1 ELSE 0
        /\ selected \in Containers
    BY DEF LogViewerInit
  <2>2. Loading = IF following THEN {} ELSE {selected}
    BY <2>1 DEF Loading
  <2> QED BY <1>1, <2>1, <2>2 DEF Racing, Open
<1>5. InOneRun(Shown)
  BY <1>3 DEF InOneRun
<1> QED BY <1>1, <1>2, <1>3, <1>4, <1>5 DEF LogInv, RunInv, StreamStateInv, LogViewerInit

\* The source of a container's stream, as startStreaming opens it, and none.
Opened(c) == [NoSource(c) EXCEPT !.stage = "opening"]

LEMMA SourceFacts ==
    ASSUME LogViewerAssumption, NEW c \in Containers
    PROVE  /\ Opened(c) \in [container : Containers, stage : Stages, sent : 0 .. MaxLines]
           /\ Opened(c).container = c /\ Opened(c).stage = "opening" /\ Open(Opened(c))
           /\ NoSource(c) \in [container : Containers, stage : Stages, sent : 0 .. MaxLines]
           /\ NoSource(c).container = c /\ NoSource(c).stage = "none" /\ ~Open(NoSource(c))
BY DEF LogViewerAssumption, NoSource, Opened, Open, Stages

\* A snapshot is asked for, or a stream opened, of the container that is
\* selected; what was asked for before is noted when it is still under way.
Loads ==
    /\ loads' = [loads EXCEPT ![selected'] = @ + 1]
    /\ fetchError' = FALSE /\ isLoading' = TRUE
    /\ KeepLines
    /\ \/ selected' = selected /\ UNCHANGED <<source, late, isStreaming, streamError>>
       \/ source' = NoSource(selected') /\ isStreaming' = FALSE /\ streamError' = FALSE
          /\ late' = (late \/ Open(source))

Streams ==
    /\ source' = Opened(selected')
    /\ late' = (late \/ Open(source))
    /\ streamError' = FALSE
    /\ SetLines(<<>>)
    /\ isStreaming' = FALSE \/ isStreaming' = isStreaming
    /\ UNCHANGED <<loads, isLoading, fetchError>>

Asks ==
    /\ Loads \/ Streams
    /\ starts < MaxStarts /\ starts' = starts + 1
    /\ selected' \in Containers /\ following' \in BOOLEAN
    /\ loadedBeside' = (loadedBeside \/ Racing')
    /\ UNCHANGED <<written, userStopped>>

LEMMA AskingSteps ==
    ASSUME LogTypes,
           \/ \E c \in Containers : SelectContainer(c)
           \/ ChangeRange \/ Refresh \/ StartFollowing \/ StopFollowing \/ PressStart
    PROVE  Asks
<1>1. selected \in Containers /\ following \in BOOLEAN
  BY DEF LogTypes, LogViewerTypeOK
<1> USE DEF Asking, Noted
<1>2. ASSUME NEW c \in Containers, SelectContainer(c) PROVE Asks
  <2>1. CASE following /\ ~userStopped
    BY <1>1, <1>2, <2>1 DEF SelectContainer, StartStreaming, Opened, Streams, Asks
  <2>2. CASE ~(following /\ ~userStopped)
    BY <1>1, <1>2, <2>2 DEF SelectContainer, StopStreaming, Load, Loads, Asks
  <2> QED BY <2>1, <2>2
<1>3. CASE ChangeRange
  <2>1. CASE following /\ ~userStopped
    BY <1>1, <1>3, <2>1 DEF ChangeRange, StartStreaming, Opened, Streams, Asks
  <2>2. CASE ~(following /\ ~userStopped)
    BY <1>1, <1>3, <2>2 DEF ChangeRange, Load, Loads, Asks
  <2> QED BY <2>1, <2>2
<1>4. CASE Refresh
  BY <1>1, <1>4 DEF Refresh, Load, Loads, Asks
<1>5. CASE StartFollowing
  <2>1. CASE userStopped
    BY <1>1, <1>5, <2>1 DEF StartFollowing, Load, Loads, Asks
  <2>2. CASE ~userStopped
    BY <1>1, <1>5, <2>2 DEF StartFollowing, StartStreaming, Opened, Streams, Asks
  <2> QED BY <2>1, <2>2
<1>6. CASE StopFollowing
  <2>1. CASE isStreaming
    BY <1>1, <1>6, <2>1 DEF StopFollowing, StopStreaming, Load, Loads, Asks
  <2>2. CASE ~isStreaming
    BY <1>1, <1>6, <2>2 DEF StopFollowing, Load, Loads, Asks
  <2> QED BY <2>1, <2>2
<1>7. CASE PressStart
  BY <1>1, <1>7 DEF PressStart, StartStreaming, Opened, Streams, Asks
<1> QED BY <1>2, <1>3, <1>4, <1>5, <1>6, <1>7

LEMMA AsksStep ==
    ASSUME LogViewerAssumption, LogInv, Asks PROVE LogInv'
<1>1. /\ LogViewerTypeOK /\ \A c \in Containers : loads[c] <= starts + 1
      /\ loads \in [Containers -> 0 .. MaxStarts + 1] /\ starts \in 0 .. MaxStarts
      /\ source.container = selected
  BY DEF LogInv, LogTypes, LogViewerTypeOK
<1>2. /\ starts < MaxStarts /\ starts' = starts + 1
      /\ selected' \in Containers /\ following' \in BOOLEAN
      /\ loadedBeside' = (loadedBeside \/ Racing')
      /\ UNCHANGED <<written, userStopped>>
  BY DEF Asks
<1>3. starts' \in 0 .. MaxStarts /\ loadedBeside' \in BOOLEAN
  <2>1. Racing' \in BOOLEAN
    BY DEF Racing
  <2> QED BY <1>1, <1>2, <2>1 DEF LogViewerAssumption, LogViewerTypeOK
<1>4. CASE Streams
  <2>1. /\ source' = Opened(selected') /\ late' \in BOOLEAN /\ streamError' = FALSE
        /\ isStreaming' \in BOOLEAN /\ SetLines(<<>>)
        /\ UNCHANGED <<loads, isLoading, fetchError>>
    BY <1>1, <1>4 DEF Streams, LogViewerTypeOK, Open
  <2>2. /\ source' \in [container : Containers, stage : Stages, sent : 0 .. MaxLines]
        /\ source'.container = selected' /\ source'.stage = "opening"
    BY <1>2, <2>1, SourceFacts
  <2>3. Shown' = <<>> /\ entries' \in Seq(Lines) /\ unflushed' \in Seq(Lines)
    <3>1. <<>> \in Seq(Lines)
      OBVIOUS
    <3> QED BY <1>1, <2>1, <3>1, ShownFacts
  <2>4. \A c \in Containers : loads'[c] <= starts' + 1
    BY <1>1, <1>2, <2>1
  <2>5. LogTypes'
    BY <1>1, <1>2, <1>3, <2>1, <2>2, <2>3, <2>4 DEF LogTypes, LogViewerTypeOK
  <2>6. StreamStateInv'
    BY <2>1, <2>2 DEF StreamStateInv, Open
  <2>7. ASSUME ~loadedBeside' PROVE Loading' = {}
    <3>1. ~Racing' /\ Open(source')
      BY <1>2, <2>2, <2>7 DEF Open
    <3> QED BY <3>1 DEF Racing
  <2>8. RunInv'
    <3>1. Loading' = {} => ~Racing' /\ Loading' \subseteq {selected'}
      BY DEF Racing
    <3>2. InOneRun(Shown)'
      BY <2>3 DEF InOneRun
    <3> QED BY <2>3, <2>7, <3>1, <3>2 DEF RunInv
  <2> QED BY <2>5, <2>6, <2>8 DEF LogInv
<1>5. CASE Loads
  <2>1. /\ loads' = [loads EXCEPT ![selected'] = @ + 1] /\ fetchError' = FALSE
        /\ isLoading' = TRUE /\ KeepLines
        /\ \/ selected' = selected /\ UNCHANGED <<source, late, isStreaming, streamError>>
           \/ source' = NoSource(selected') /\ isStreaming' = FALSE /\ streamError' = FALSE
              /\ late' \in BOOLEAN
    BY <1>1, <1>5 DEF Loads, LogViewerTypeOK, Open
  <2>2. /\ source' \in [container : Containers, stage : Stages, sent : 0 .. MaxLines]
        /\ source'.container = selected' /\ (source' = source \/ ~Open(source'))
        /\ source' = source => selected' = selected
    BY <1>1, <1>2, <2>1, SourceFacts DEF LogViewerTypeOK
  <2>3. Shown' = Shown /\ entries' \in Seq(Lines) /\ unflushed' \in Seq(Lines)
    BY <1>1, <2>1, ShownFacts
  <2>4. /\ loads' \in [Containers -> 0 .. MaxStarts + 1]
        /\ \A c \in Containers : loads'[c] <= starts' + 1
        /\ loads'[selected'] > 0
    BY <1>1, <1>2, <2>1 DEF LogViewerAssumption
  <2>5. LogTypes'
    BY <1>1, <1>2, <1>3, <2>1, <2>2, <2>3, <2>4 DEF LogTypes, LogViewerTypeOK
  <2>6. StreamStateInv'
    BY <2>1 DEF StreamStateInv, LogInv
  <2>7. selected' \in Loading'
    BY <1>2, <2>4 DEF Loading
  <2>8. ASSUME ~loadedBeside'
        PROVE  ~Racing' /\ Loading' = {selected'} /\ ~Open(source') /\ ~loadedBeside
    <3>1. ~Racing' /\ ~loadedBeside
      BY <1>2, <2>8
    <3> QED BY <2>7, <3>1 DEF Racing
  <2>9. RunInv'
    BY <2>3, <2>7, <2>8 DEF LogInv, RunInv
  <2> QED BY <2>5, <2>6, <2>9 DEF LogInv
<1> QED BY <1>4, <1>5 DEF Asks

\* A source that opens, ends or fails: the lines shown stay.
LEMMA SourceStep ==
    ASSUME LogViewerAssumption, LogInv,
           \/ Connected \/ StreamEnd \/ StreamFails \/ LateError \/ PressStop
    PROVE  LogInv'
<1>1. /\ LogViewerTypeOK /\ source.container = selected /\ selected \in Containers
      /\ source \in [container : Containers, stage : Stages, sent : 0 .. MaxLines]
      /\ \A c \in Containers : loads[c] <= starts + 1
  BY DEF LogInv, LogTypes, LogViewerTypeOK
<1>2. /\ UNCHANGED <<written, selected, following, loads, isLoading, fetchError, starts, loadedBeside>>
      /\ KeepLines /\ userStopped' \in BOOLEAN /\ late' \in BOOLEAN
      /\ \/ source' = source /\ UNCHANGED <<isStreaming, streamError>>
         \/ source.stage = "opening" /\ source' = [source EXCEPT !.stage = "live"]
            /\ isStreaming' = TRUE /\ streamError' = streamError
         \/ source' = [source EXCEPT !.stage = "ended"] /\ source.stage = "live"
            /\ isStreaming' = FALSE /\ streamError' = streamError
         \/ source' = [source EXCEPT !.stage = "failed"] /\ isStreaming' = FALSE /\ streamError' = TRUE
         \/ source' = NoSource(selected) /\ isStreaming' = FALSE /\ streamError' = FALSE
  <2>1. CASE Connected
    BY <1>1, <2>1 DEF Connected, LogViewerTypeOK
  <2>2. CASE StreamEnd
    BY <1>1, <2>2 DEF StreamEnd, LogViewerTypeOK
  <2>3. CASE StreamFails
    BY <1>1, <2>3 DEF StreamFails, LogViewerTypeOK
  <2>4. CASE LateError
    BY <1>1, <2>4 DEF LateError, IgnoreError, LogViewerTypeOK
  <2>5. CASE PressStop
    BY <1>1, <2>5 DEF PressStop, StopStreaming, LogViewerTypeOK, Open
  <2> QED BY <2>1, <2>2, <2>3, <2>4, <2>5
<1>3. /\ source' \in [container : Containers, stage : Stages, sent : 0 .. MaxLines]
      /\ source'.container = selected
      /\ Open(source') => Open(source) /\ source'.sent = source.sent
      /\ isStreaming' \in BOOLEAN /\ streamError' \in BOOLEAN
      /\ isStreaming' => Open(source')
      /\ streamError' => source'.stage = "failed"
  <2>1. isStreaming \in BOOLEAN /\ streamError \in BOOLEAN /\ StreamStateInv
    BY <1>1 DEF LogInv, LogViewerTypeOK
  <2>2. CASE source' = source /\ UNCHANGED <<isStreaming, streamError>>
    BY <1>1, <2>1, <2>2 DEF StreamStateInv
  <2>3. CASE source.stage = "opening" /\ source' = [source EXCEPT !.stage = "live"]
             /\ isStreaming' = TRUE /\ streamError' = streamError
    BY <1>1, <2>1, <2>3 DEF StreamStateInv, Open, Stages
  <2>4. CASE source' = [source EXCEPT !.stage = "ended"] /\ source.stage = "live"
             /\ isStreaming' = FALSE /\ streamError' = streamError
    BY <1>1, <2>1, <2>4 DEF StreamStateInv, Open, Stages
  <2>5. CASE source' = [source EXCEPT !.stage = "failed"] /\ isStreaming' = FALSE /\ streamError' = TRUE
    BY <1>1, <2>1, <2>5 DEF Open, Stages
  <2>6. CASE source' = NoSource(selected) /\ isStreaming' = FALSE /\ streamError' = FALSE
    BY <1>1, <2>1, <2>6, SourceFacts
  <2> QED BY <1>2, <2>2, <2>3, <2>4, <2>5, <2>6
<1>4. Shown' = Shown /\ entries' \in Seq(Lines) /\ unflushed' \in Seq(Lines)
  BY <1>1, <1>2, ShownFacts
<1>5. LogTypes'
  BY <1>1, <1>2, <1>3, <1>4 DEF LogTypes, LogViewerTypeOK
<1>6. RunInv'
  <2>1. Loading' = Loading
    BY <1>2 DEF Loading
  <2>2. Racing' => Racing
    BY <1>2, <1>3, <2>1 DEF Racing
  <2> QED BY <1>2, <1>3, <1>4, <2>1, <2>2 DEF LogInv, RunInv
<1> QED BY <1>3, <1>5, <1>6 DEF LogInv, StreamStateInv

\* The next line of an open stream continues the run.
LEMMA LineStep ==
    ASSUME LogViewerAssumption, LogInv, StreamedLine PROVE LogInv'
<1> DEFINE line == [container |-> source.container, number |-> source.sent + 1]
<1>1. /\ LogViewerTypeOK /\ source.container = selected /\ selected \in Containers
      /\ source \in [container : Containers, stage : Stages, sent : 0 .. MaxLines]
      /\ written \in [Containers -> 0 .. MaxLines]
      /\ \A c \in Containers : loads[c] <= starts + 1
  BY DEF LogInv, LogTypes, LogViewerTypeOK
<1>2. /\ source.stage = "live" /\ source.sent < written[source.container]
      /\ source' = [source EXCEPT !.sent = @ + 1] /\ Append1(line)
      /\ UNCHANGED <<written, selected, following, userStopped, late, isStreaming, streamError,
                     loads, isLoading, fetchError, starts, loadedBeside>>
  BY DEF StreamedLine
<1>3. /\ source' \in [container : Containers, stage : Stages, sent : 0 .. MaxLines]
      /\ source'.container = selected /\ source'.stage = "live" /\ source'.sent = source.sent + 1
      /\ line \in Lines
  BY <1>1, <1>2 DEF Lines, LogViewerAssumption
<1>4. Shown' = Append(Shown, line) /\ entries' \in Seq(Lines) /\ unflushed' \in Seq(Lines)
  <2> HIDE DEF line
  <2> QED BY <1>1, <1>2, <1>3, ShownFacts
<1>5. LogTypes'
  BY <1>1, <1>2, <1>3, <1>4 DEF LogTypes, LogViewerTypeOK
<1>6. StreamStateInv'
  BY <1>2, <1>3 DEF LogInv, StreamStateInv, Open
<1>7. ASSUME ~loadedBeside PROVE RunInv'
  <2> DEFINE n == Len(Shown)
  <2>1. /\ Open(source) /\ Open(source')
        /\ ~Racing /\ Loading \subseteq {selected} /\ InOneRun(Shown)
        /\ Shown # <<>> => Shown[n] = [container |-> selected, number |-> source.sent]
    BY <1>2, <1>3, <1>7 DEF LogInv, RunInv, Open
  <2>2. Loading = {} /\ Loading' = {} /\ ~Racing'
    BY <1>2, <2>1 DEF Racing, Loading
  <2>3. line = [container |-> selected, number |-> source.sent + 1] /\ source.sent \in Nat
    BY <1>1
  <2>4. /\ n \in Nat /\ Shown \in Seq(Lines) /\ Len(Shown') = n + 1 /\ Shown'[n + 1] = line
        /\ \A i \in 1 .. n : Shown'[i] = Shown[i]
        /\ DOMAIN Shown' = 1 .. n + 1 /\ DOMAIN Shown = 1 .. n
    <3>1. Shown \in Seq(Lines)
      BY <1>1, ShownFacts
    <3> HIDE DEF line
    <3> QED BY <1>3, <1>4, <3>1
  <2> HIDE DEF line, n
  <2>5. CASE n = 0
    <3>1. Shown'[1] = line /\ DOMAIN Shown' = 1 .. 1
      BY <2>4, <2>5
    <3>2. line = [line EXCEPT !.number = @ + 1 - 1]
      BY <2>3
    <3>3. InOneRun(Shown)'
      BY <3>1, <3>2 DEF InOneRun
    <3>4. Shown'[1].container = selected' /\ Len(Shown') = 1
      BY <1>2, <2>3, <2>4, <2>5, <3>1
    <3>5. Shown'[Len(Shown')] = [container |-> selected', number |-> source'.sent]
      BY <1>2, <1>3, <2>3, <3>1, <3>4
    <3> QED BY <2>2, <3>3, <3>4, <3>5 DEF RunInv
  <2>6. CASE n # 0
    <3>1. Shown # <<>> /\ 1 \in 1 .. n /\ n \in 1 .. n
      BY <2>4, <2>6
    <3>2. Shown[1] \in Lines
      BY <2>4, <3>1
    <3>3. Shown[n] = [Shown[1] EXCEPT !.number = @ + n - 1]
      BY <2>1, <2>4, <3>1 DEF InOneRun
    <3>4. Shown[1].container = selected /\ Shown[1].number + n - 1 = source.sent
      <4>1. /\ [Shown[1] EXCEPT !.number = @ + n - 1].container = Shown[1].container
            /\ [Shown[1] EXCEPT !.number = @ + n - 1].number = Shown[1].number + n - 1
        BY <3>2 DEF Lines
      <4>2. Shown[n].container = selected /\ Shown[n].number = source.sent
        BY <2>1, <3>1
      <4> QED BY <3>3, <4>1, <4>2
    <3>5. line = [Shown[1] EXCEPT !.number = @ + (n + 1) - 1]
      <4>1. PICK k \in 1 .. MaxLines : Shown[1] = [container |-> selected, number |-> k]
        BY <3>2, <3>4 DEF Lines
      <4>2. k + (n + 1) - 1 = source.sent + 1
        BY <2>3, <2>4, <3>4, <4>1
      <4>3. [Shown[1] EXCEPT !.number = @ + (n + 1) - 1]
            = [container |-> selected, number |-> k + (n + 1) - 1]
        BY <4>1
      <4> QED BY <2>3, <4>2, <4>3
    <3>6. Shown'[1] = Shown[1]
      BY <2>4, <3>1
    <3>7. ASSUME NEW i \in 1 .. n + 1 PROVE Shown'[i] = [Shown'[1] EXCEPT !.number = @ + i - 1]
      <4>1. CASE i = n + 1
        BY <2>4, <3>5, <3>6, <4>1
      <4>2. CASE i \in 1 .. n
        BY <2>1, <2>4, <3>6, <4>2 DEF InOneRun
      <4> QED BY <2>4, <4>1, <4>2
    <3>8. InOneRun(Shown)'
      BY <2>4, <3>7 DEF InOneRun
    <3> QED BY <1>2, <1>3, <2>2, <2>3, <2>4, <3>4, <3>6, <3>8 DEF RunInv
  <2> QED BY <2>5, <2>6
<1>8. ASSUME loadedBeside PROVE RunInv'
  <2>1. loadedBeside'
    BY <1>2, <1>8
  <2> QED BY <2>1 DEF RunInv
<1> QED BY <1>5, <1>6, <1>7, <1>8 DEF LogInv

\* Lines written, flushed and cleared.
LEMMA LinesStep ==
    ASSUME LogViewerAssumption, LogInv,
           \/ FlushPending \/ Clear \/ \E c \in Containers : Write(c)
    PROVE  LogInv'
<1>1. /\ LogViewerTypeOK /\ source.container = selected
      /\ \A c \in Containers : loads[c] <= starts + 1
      /\ entries \in Seq(Lines) /\ unflushed \in Seq(Lines)
  BY DEF LogInv, LogTypes, LogViewerTypeOK
<1>2. /\ UNCHANGED <<selected, following, userStopped, source, late, isStreaming, streamError, loads,
                     isLoading, fetchError, starts, loadedBeside>>
      /\ written' \in [Containers -> 0 .. MaxLines]
      /\ Shown' = Shown \/ Shown' = <<>>
      /\ entries' \in Seq(Lines) /\ unflushed' \in Seq(Lines)
  <2>1. CASE FlushPending
    <3>1. SetLines(Shown) /\ Shown \in Seq(Lines)
      BY <1>1, <2>1, ShownFacts DEF FlushPending, Shown
    <3> QED BY <1>1, <2>1, <3>1, ShownFacts DEF FlushPending, LogViewerTypeOK
  <2>2. CASE Clear
    <3>1. SetLines(<<>>) /\ <<>> \in Seq(Lines)
      BY <2>2 DEF Clear
    <3> QED BY <1>1, <2>2, <3>1, ShownFacts DEF Clear, LogViewerTypeOK
  <2>3. ASSUME NEW c \in Containers, Write(c)
        PROVE  /\ UNCHANGED <<selected, following, userStopped, source, late, isStreaming, streamError,
                              loads, isLoading, fetchError, starts, loadedBeside>>
               /\ written' \in [Containers -> 0 .. MaxLines]
               /\ Shown' = Shown
               /\ entries' \in Seq(Lines) /\ unflushed' \in Seq(Lines)
    <3>1. KeepLines
      BY <2>3 DEF Write
    <3>2. written' \in [Containers -> 0 .. MaxLines]
      BY <1>1, <2>3 DEF Write, LogViewerTypeOK, LogViewerAssumption
    <3> QED BY <1>1, <2>3, <3>1, <3>2, ShownFacts DEF Write
  <2> QED BY <2>1, <2>2, <2>3
<1>3. LogTypes'
  BY <1>1, <1>2 DEF LogTypes, LogViewerTypeOK
<1>4. StreamStateInv'
  BY <1>2 DEF LogInv, StreamStateInv
<1>5. Loading' = Loading /\ (Racing' = Racing)
  BY <1>2 DEF Loading, Racing
<1>6. Shown' = <<>> => InOneRun(Shown)'
  BY DEF InOneRun
<1>7. RunInv'
  BY <1>2, <1>5, <1>6 DEF LogInv, RunInv
<1> QED BY <1>3, <1>4, <1>7 DEF LogInv

\* A snapshot comes, or does not: it was the only thing under way.
LEMMA LoadStep ==
    ASSUME LogViewerAssumption, LogInv, NEW c \in Containers, LoadArrives(c) \/ LoadFails(c)
    PROVE  LogInv'
<1> DEFINE snapshot == [n \in 1 .. written[c] |-> [container |-> c, number |-> n]]
<1>1. /\ LogViewerTypeOK /\ source.container = selected /\ written[c] \in 0 .. MaxLines
      /\ loads \in [Containers -> 0 .. MaxStarts + 1] /\ starts \in 0 .. MaxStarts
      /\ \A d \in Containers : loads[d] <= starts + 1
  BY DEF LogInv, LogTypes, LogViewerTypeOK
<1>2. /\ loads[c] > 0 /\ loads' = [loads EXCEPT ![c] = @ - 1] /\ isLoading' = FALSE
      /\ UNCHANGED <<written, selected, following, userStopped, source, late, isStreaming,
                     streamError, starts, loadedBeside>>
      /\ \/ SetLines(snapshot) /\ fetchError' = fetchError
         \/ KeepLines /\ fetchError' = TRUE
  BY DEF LoadArrives, LoadFails
<1>3. /\ snapshot \in Seq(Lines) /\ Len(snapshot) = written[c]
      /\ \A i \in DOMAIN snapshot : snapshot[i] = [container |-> c, number |-> i]
      /\ snapshot # <<>> => 1 \in DOMAIN snapshot
  <2>1. \A n \in 1 .. written[c] : [container |-> c, number |-> n] \in Lines
    BY <1>1 DEF Lines, LogViewerAssumption
  <2>2. snapshot \in [1 .. written[c] -> Lines] /\ written[c] \in Nat
    BY <1>1, <2>1
  <2> QED BY <2>2
<1> HIDE DEF snapshot
<1>4. /\ entries' \in Seq(Lines) /\ unflushed' \in Seq(Lines)
      /\ \/ Shown' = snapshot /\ fetchError' = fetchError
         \/ Shown' = Shown /\ fetchError' = TRUE
  BY <1>1, <1>2, <1>3, ShownFacts
<1>5. /\ loads' \in [Containers -> 0 .. MaxStarts + 1]
      /\ \A d \in Containers : loads'[d] <= starts' + 1
  BY <1>1, <1>2 DEF LogViewerAssumption
<1>6. LogTypes'
  BY <1>1, <1>2, <1>4, <1>5 DEF LogTypes, LogViewerTypeOK
<1>7. StreamStateInv'
  BY <1>2 DEF LogInv, StreamStateInv
<1>8. ASSUME ~loadedBeside PROVE RunInv'
  <2>1. c \in Loading /\ ~Racing /\ Loading \subseteq {selected} /\ InOneRun(Shown)
    BY <1>2, <1>8 DEF LogInv, RunInv, Loading
  <2>2. c = selected /\ Loading = {c} /\ loads[c] = 1 /\ ~Open(source)
    BY <1>1, <1>2, <2>1 DEF Racing
  <2>3. Loading' = {} /\ ~Racing'
    <3>1. Loading' = {}
      BY <1>1, <1>2, <2>2 DEF Loading
    <3> QED BY <3>1 DEF Racing
  <2>4. CASE Shown' = Shown /\ fetchError' = TRUE
    BY <1>2, <2>1, <2>2, <2>3, <2>4 DEF RunInv
  <2>5. CASE Shown' = snapshot
    <3>1. ASSUME NEW i \in DOMAIN snapshot
          PROVE  snapshot[i] = [snapshot[1] EXCEPT !.number = @ + i - 1]
      <4>1. 1 \in DOMAIN snapshot /\ i \in Nat
        BY <1>1, <1>3, <3>1
      <4>2. snapshot[1] = [container |-> c, number |-> 1]
        BY <1>3, <4>1
      <4>3. [snapshot[1] EXCEPT !.number = @ + i - 1] = [container |-> c, number |-> i]
        BY <4>1, <4>2
      <4> QED BY <1>3, <4>3
    <3>2. InOneRun(Shown)'
      BY <2>5, <3>1 DEF InOneRun
    <3>3. snapshot # <<>> => snapshot[1].container = c
      BY <1>3
    <3> QED BY <1>2, <2>2, <2>3, <2>5, <3>2, <3>3 DEF RunInv
  <2> QED BY <1>4, <2>4, <2>5
<1>9. ASSUME loadedBeside PROVE RunInv'
  <2>1. loadedBeside'
    BY <1>2, <1>9
  <2> QED BY <2>1 DEF RunInv
<1> QED BY <1>6, <1>7, <1>8, <1>9 DEF LogInv

LEMMA LogStep ==
    ASSUME LogViewerAssumption, LogInv, [LogViewerNext]_logViewerVars PROVE LogInv'
<1>1. CASE UNCHANGED logViewerVars
  BY <1>1 DEF logViewerVars, LogInv, LogTypes, LogViewerTypeOK, StreamStateInv, RunInv, Racing,
      Loading, Shown
<1>2. ASSUME NEW c \in Containers, Write(c) \/ LoadArrives(c) \/ LoadFails(c) \/ SelectContainer(c)
      PROVE  LogInv'
  BY <1>2, LinesStep, LoadStep, AskingSteps, AsksStep DEF LogInv
<1>3. CASE FlushPending \/ Clear
  BY <1>3, LinesStep
<1>4. CASE Connected \/ StreamEnd \/ StreamFails \/ LateError \/ PressStop
  BY <1>4, SourceStep
<1>5. CASE StreamedLine
  BY <1>5, LineStep
<1>6. CASE ChangeRange \/ Refresh \/ StartFollowing \/ StopFollowing \/ PressStart
  BY <1>6, AskingSteps, AsksStep DEF LogInv
<1> QED BY <1>1, <1>2, <1>3, <1>4, <1>5, <1>6 DEF LogViewerNext

LEMMA LogInvHolds == LogViewerAssumption /\ LogViewerSpec => []LogInv
<1> SUFFICES ASSUME LogViewerAssumption PROVE LogViewerSpec => []LogInv
  OBVIOUS
<1> QED BY LogStart, LogStep, PTL DEF LogViewerSpec

\* Sources, loads and lines keep their types: no container has more snapshots
\* under way than were asked for.
THEOREM LogTypeCorrect == LogViewerAssumption /\ LogViewerSpec => []LogViewerTypeOK
<1>1. LogInv => LogViewerTypeOK
  BY DEF LogInv, LogTypes
<1> QED BY <1>1, LogInvHolds, PTL

\* Lines that stream, wait for a frame, are loaded, cleared and replayed show one
\* container's log, each line once and in order, unless a snapshot was under way
\* beside a stream or another snapshot.
THEOREM ShowsOneLogHolds == LogViewerAssumption /\ LogViewerSpec => []ShowsOneLog
<1>1. LogInv => ShowsOneLog
  BY DEF LogInv, RunInv, ShowsOneLog, InOneRun, Shown
<1> QED BY <1>1, LogInvHolds, PTL

\* A closed source's late error, or the end of one, never marks the source that
\* replaced it.
THEOREM StreamStateIsItsOwnHolds == LogViewerAssumption /\ LogViewerSpec => []StreamStateIsItsOwn
<1>1. LogInv => StreamStateIsItsOwn
  BY DEF LogInv, StreamStateInv, StreamStateIsItsOwn
<1> QED BY <1>1, LogInvHolds, PTL

-----------------------------------------------------------------------------
(* The lists. *)

\* What will have a list fetched again, or is fetching it.
Wakes(m, k) == m.kind \in {k, "context_changed", "connected"}
Heralded(k) == \E i \in DOMAIN events : Wakes(events[i], k)
Marked(k) ==
    \/ k \in structural /\ fastTimer = "armed"
    \/ k \in updated /\ slowTimer = "armed"
Due(k) == k \in fetching \/ Heralded(k) \/ Marked(k)

\* A list that nothing will have fetched shows its cluster, or is about to: an
\* answer on its way is no older than what it replaces.  No timer is left
\* cleared, so that each mark arms one.
ListsInv ==
    /\ LiveQueriesTypeOK
    /\ fastTimer # "cleared" /\ slowTimer # "cleared"
    /\ streamUp => \A k \in Kinds :
           \/ Due(k)
           \/ arriving[k] = Current(k)
           \/ arriving[k] = NoData /\ list[k] = Current(k)

LEMMA LiveQueriesStart == LiveQueriesAssumption /\ LiveQueriesInit => ListsInv
BY DEF LiveQueriesAssumption, LiveQueriesInit, ListsInv, LiveQueriesTypeOK, Due, Timers

\* What the stream still holds after its first message is taken, or one is sent.
LEMMA EventsTaken ==
    ASSUME LiveQueriesTypeOK, LiveQueriesAssumption, events # <<>>, events' = Tail(events)
    PROVE  /\ events' \in Seq(Events) /\ Len(events') <= WireEvents + 1
           /\ Head(events) \in Events
           /\ \A k : Heralded(k) => Wakes(Head(events), k) \/ Heralded(k)'
<1>0. events \in Seq(Events) /\ Len(events) <= WireEvents + 1
  BY DEF LiveQueriesTypeOK
<1>1. /\ events' \in Seq(Events) /\ Head(events) \in Events
      /\ Len(events) \in Nat /\ Len(events') = Len(events) - 1
  BY <1>0
<1>2. ASSUME NEW k, NEW i \in DOMAIN events, Wakes(events[i], k), i # 1
      PROVE  Heralded(k)'
  <2>1. i \in 1 .. Len(events) /\ i - 1 \in 1 .. Len(events')
    BY <1>0, <1>1, <1>2
  <2>2. events'[i - 1] = events[i]
    BY <1>0, <1>1, <2>1
  <2>3. i - 1 \in DOMAIN events'
    BY <1>1, <2>1
  <2> QED BY <2>2, <2>3, <1>2 DEF Heralded, Wakes
<1>3. Head(events) = events[1]
  BY <1>0
<1>4. Len(events') <= WireEvents + 1
  BY <1>0, <1>1 DEF LiveQueriesAssumption
<1> QED BY <1>1, <1>2, <1>3, <1>4 DEF Heralded

LEMMA EventSent ==
    ASSUME LiveQueriesTypeOK, Len(events) < WireEvents, LiveQueriesAssumption,
           NEW m \in Events, Broadcast(m), streamUp' = streamUp
    PROVE  /\ events' \in Seq(Events) /\ Len(events') <= WireEvents + 1
           /\ streamUp => \A k : Wakes(m, k) \/ Heralded(k) => Heralded(k)'
<1> USE DEF LiveQueriesTypeOK, Broadcast
<1>1. CASE ~streamUp
  BY <1>1 DEF LiveQueriesAssumption
<1>2. CASE streamUp
  <2>1. events' = Append(events, m) /\ events' \in Seq(Events) /\ Len(events') = Len(events) + 1
    BY <1>2
  <2>2. \A i \in DOMAIN events : i \in DOMAIN events' /\ events'[i] = events[i]
    BY <2>1
  <2>3. Len(events') \in DOMAIN events' /\ events'[Len(events')] = m
    BY <2>1
  <2> QED BY <2>1, <2>2, <2>3 DEF Heralded, LiveQueriesAssumption
<1> QED BY <1>1, <1>2

\* A step of a timer or a message that has everything of ks fetched again.
LEMMA InvalidateTypes ==
    ASSUME LiveQueriesTypeOK, NEW ks \in SUBSET Kinds, Invalidate(ks)
    PROVE  /\ fetching' \subseteq Kinds
           /\ arriving' \in [Kinds -> ListData \cup {NoData}]
           /\ \A k \in fetching' : arriving'[k] = NoData
           /\ \A k \in Kinds : k \notin ks => arriving'[k] = arriving[k]
           /\ ks \cup fetching = fetching'
BY DEF LiveQueriesTypeOK, Invalidate

LEMMA CurrentTypes ==
    ASSUME LiveQueriesTypeOK, NEW k \in Kinds PROVE Current(k) \in ListData
BY DEF LiveQueriesTypeOK, Current, ListData

LEMMA ListsStep ==
    ASSUME LiveQueriesAssumption, ListsInv, [LiveQueriesNext]_liveQueriesVars
    PROVE  ListsInv'
<1> LiveQueriesTypeOK /\ fastTimer # "cleared" /\ slowTimer # "cleared"
  BY DEF ListsInv
<1>1. CASE UNCHANGED liveQueriesVars
  BY <1>1 DEF ListsInv, liveQueriesVars, worldVars, linkVars, tierVars, listVars, LiveQueriesTypeOK,
      Due, Heralded, Marked, Current
<1>2. ASSUME NEW k \in Kinds, NEW op \in Operations, Change(k, op) PROVE ListsInv'
  <2> DEFINE m == Message(k, op)
  <2>1. m \in Events
    BY DEF Message, Events
  <2>2. /\ events' \in Seq(Events) /\ Len(events') <= WireEvents + 1
        /\ streamUp => \A j : Wakes(m, j) \/ Heralded(j) => Heralded(j)'
    <3> HIDE DEF m
    <3> QED BY <1>2, <2>1, EventSent DEF Change, m
  <2>3. LiveQueriesTypeOK'
    BY <1>2, <2>2 DEF Change, LiveQueriesTypeOK, tierVars, listVars, LiveQueriesAssumption
  <2>4. ASSUME streamUp, NEW j \in Kinds
        PROVE  \/ Due(j)'
               \/ arriving'[j] = Current(j)'
               \/ arriving'[j] = NoData /\ list'[j] = Current(j)'
    <3>1. CASE j = k
      BY <3>1, <2>2, <2>4 DEF Due, Wakes, Message
    <3>2. CASE j # k
      <4>1. Current(j)' = Current(j)
        BY <3>2, <1>2 DEF Change, Current, LiveQueriesTypeOK
      <4>2. Due(j) => Due(j)'
        BY <2>2, <2>4, <1>2 DEF Due, Marked, Change, tierVars, listVars
      <4> QED BY <4>1, <4>2, <2>4, <1>2 DEF Change, listVars, ListsInv
    <3> QED BY <3>1, <3>2
  <2> QED BY <2>3, <2>4, <1>2 DEF Change, tierVars, ListsInv
<1>3. CASE SwitchCluster
  <2> DEFINE m == Message("context_changed", "update")
  <2>1. m \in Events
    BY DEF Message, Events, Operations
  <2>2. /\ events' \in Seq(Events) /\ Len(events') <= WireEvents + 1
        /\ streamUp => \A j : Wakes(m, j) \/ Heralded(j) => Heralded(j)'
    <3> HIDE DEF m
    <3> QED BY <1>3, <2>1, EventSent DEF SwitchCluster, m
  <2>3. LiveQueriesTypeOK'
    BY <1>3, <2>2 DEF SwitchCluster, LiveQueriesTypeOK, tierVars, listVars, LiveQueriesAssumption
  <2>4. \A j : Wakes(m, j)
    BY DEF Wakes, Message
  <2> QED BY <2>2, <2>3, <2>4, <1>3 DEF SwitchCluster, tierVars, Due, ListsInv
<1>4. ASSUME NEW k \in Kinds, ServerAnswers(k) PROVE ListsInv'
  <2>1. LiveQueriesTypeOK'
    BY <1>4, CurrentTypes DEF ServerAnswers, LiveQueriesTypeOK, worldVars, linkVars, tierVars
  <2>2. ASSUME streamUp, NEW j \in Kinds
        PROVE  \/ Due(j)'
               \/ arriving'[j] = Current(j)'
               \/ arriving'[j] = NoData /\ list'[j] = Current(j)'
    <3>1. Current(j)' = Current(j)
      BY <1>4 DEF ServerAnswers, worldVars, Current
    <3>2. CASE j = k
      BY <3>1, <3>2, <1>4 DEF ServerAnswers, LiveQueriesTypeOK
    <3>3. CASE j # k
      <4>1. Due(j) => Due(j)'
        BY <3>3, <1>4 DEF ServerAnswers, Due, Heralded, Marked, linkVars, tierVars
      <4> QED BY <4>1, <3>1, <3>3, <2>2, <1>4 DEF ServerAnswers, LiveQueriesTypeOK, ListsInv
    <3> QED BY <3>2, <3>3
  <2> QED BY <2>1, <2>2, <1>4 DEF ServerAnswers, linkVars, tierVars, ListsInv
<1>5. ASSUME NEW k \in Kinds, AnswerArrives(k) PROVE ListsInv'
  <2>1. LiveQueriesTypeOK'
    BY <1>5 DEF AnswerArrives, LiveQueriesTypeOK, worldVars, linkVars, tierVars
  <2>2. ASSUME streamUp, NEW j \in Kinds
        PROVE  \/ Due(j)'
               \/ arriving'[j] = Current(j)'
               \/ arriving'[j] = NoData /\ list'[j] = Current(j)'
    <3>1. Current(j)' = Current(j)
      BY <1>5 DEF AnswerArrives, worldVars, Current
    <3>2. Due(j) => Due(j)'
      BY <1>5 DEF AnswerArrives, Due, Heralded, Marked, linkVars, tierVars
    <3> QED BY <3>1, <3>2, <2>2, <1>5 DEF AnswerArrives, LiveQueriesTypeOK, ListsInv
  <2> QED BY <2>1, <2>2, <1>5 DEF AnswerArrives, linkVars, tierVars, ListsInv
<1>6. CASE StreamLost \/ UnmountPage
  <2>1. /\ streamUp' = FALSE /\ drops' = drops + 1 /\ drops < MaxDrops /\ events' = <<>>
        /\ \/ UNCHANGED tierVars
           \/ ClearTiers
        /\ UNCHANGED <<worldVars, listVars>>
    BY <1>6 DEF StreamLost, UnmountPage
  <2>2. /\ structural' \subseteq Kinds /\ updated' \subseteq Kinds
        /\ fastTimer' \in Timers \ {"cleared"} /\ slowTimer' \in Timers \ {"cleared"}
    BY <2>1 DEF tierVars, ClearTiers, Timers, LiveQueriesTypeOK
  <2>3. events' \in Seq(Events) /\ Len(events') <= WireEvents + 1 /\ drops' \in 0 .. MaxDrops
    BY <2>1 DEF LiveQueriesTypeOK, LiveQueriesAssumption
  <2>4. LiveQueriesTypeOK'
    BY <2>1, <2>2, <2>3 DEF LiveQueriesTypeOK, worldVars, listVars
  <2> QED BY <2>1, <2>2, <2>4 DEF ListsInv
<1>7. CASE StreamReopens
  <2> DEFINE m == Message("connected", "update")
  <2>1. m \in Events /\ \A j : Wakes(m, j)
    BY DEF Message, Events, Operations, Wakes
  <2>2. events' = <<m>> /\ events' \in Seq(Events) /\ Len(events') = 1
    <3> HIDE DEF m
    <3>1. events' = <<m>>
      BY <1>7 DEF StreamReopens, m
    <3> QED BY <3>1, <2>1
  <2>3. LiveQueriesTypeOK'
    BY <1>7, <2>2 DEF StreamReopens, LiveQueriesTypeOK, worldVars, tierVars, listVars,
        LiveQueriesAssumption
  <2>4. \A j : Heralded(j)'
    BY <2>1, <2>2 DEF Heralded
  <2> QED BY <2>3, <2>4, <1>7 DEF StreamReopens, tierVars, Due, ListsInv
<1>8. CASE ReceiveConnected \/ ReceiveContextChange
  <2>1. events' \in Seq(Events) /\ Len(events') <= WireEvents + 1
    BY <1>8, EventsTaken DEF ReceiveConnected, ReceiveContextChange
  <2>2. Invalidate(Kinds)
    BY <1>8 DEF ReceiveConnected, ReceiveContextChange
  <2>3. fetching' = Kinds /\ arriving' \in [Kinds -> ListData \cup {NoData}]
        /\ \A k \in fetching' : arriving'[k] = NoData
    BY <2>2, InvalidateTypes DEF LiveQueriesTypeOK
  <2>4. LiveQueriesTypeOK'
    BY <1>8, <2>1, <2>3 DEF ReceiveConnected, ReceiveContextChange, LiveQueriesTypeOK, worldVars,
        tierVars, ClearTiers, Timers
  <2>5. fastTimer' # "cleared" /\ slowTimer' # "cleared"
    BY <1>8 DEF ReceiveConnected, ReceiveContextChange, tierVars, ClearTiers
  <2> QED BY <2>3, <2>4, <2>5 DEF Due, ListsInv
<1>9. CASE ReceiveK8sEvent
  <2> DEFINE m == Head(events)
  <2>1. /\ events' \in Seq(Events) /\ Len(events') <= WireEvents + 1
        /\ m \in Events
        /\ \A k : Heralded(k) => Wakes(m, k) \/ Heralded(k)'
    BY <1>9, EventsTaken DEF ReceiveK8sEvent
  <2>2. m.kind \in Kinds /\ Mark(m.kind, m.operation)
    BY <1>9 DEF ReceiveK8sEvent
  <2> HIDE DEF m
  <2>3. /\ fastTimer' = "armed" /\ structural \subseteq structural' /\ structural' \subseteq Kinds
        /\ updated \subseteq updated' /\ updated' \subseteq Kinds
        /\ m.kind \in structural' \/ (m.kind \in updated' /\ slowTimer' = "armed")
        /\ slowTimer = "armed" => slowTimer' = "armed"
        /\ slowTimer' \in {"null", "armed"}
    <3>1. /\ fastTimer \in {"null", "armed"} /\ slowTimer \in {"null", "armed"}
          /\ structural \subseteq Kinds /\ updated \subseteq Kinds
      BY DEF LiveQueriesTypeOK, Timers
    <3>2. fastTimer' = "armed"
      BY <2>2, <3>1 DEF Mark, ArmedBy
    <3>3. CASE m.operation = "update"
      <4>1. structural' = structural /\ updated' = updated \cup {m.kind} /\ slowTimer' = "armed"
        BY <2>2, <3>1, <3>3 DEF Mark, ArmedBy
      <4>2. m.kind \in updated' /\ updated \subseteq updated' /\ updated' \subseteq Kinds
        BY <2>2, <3>1, <4>1
      <4> QED BY <3>1, <3>2, <4>1, <4>2
    <3>4. CASE m.operation # "update"
      <4>0. /\ structural' = structural \cup {m.kind} /\ updated' = updated
            /\ slowTimer' = ArmedBy(slowTimer, FALSE)
        <5>1. (m.operation = "update") = FALSE
          BY <3>4
        <5> QED BY <2>2, <3>4, <5>1, Zenon DEF Mark
      <4>1. structural' = structural \cup {m.kind} /\ updated' = updated /\ slowTimer' = slowTimer
        BY <4>0 DEF ArmedBy
      <4>2. m.kind \in structural' /\ structural \subseteq structural' /\ structural' \subseteq Kinds
        BY <2>2, <3>1, <4>1
      <4> QED BY <3>1, <3>2, <4>1, <4>2
    <3> QED BY <3>3, <3>4
  <2>4. LiveQueriesTypeOK'
    BY <1>9, <2>1, <2>3 DEF ReceiveK8sEvent, LiveQueriesTypeOK, worldVars, listVars, Timers
  <2>5. ASSUME NEW k \in Kinds, Due(k) PROVE Due(k)'
    <3>1. Wakes(m, k) => k = m.kind
      BY <2>2 DEF Wakes, LiveQueriesAssumption
    <3> QED BY <1>9, <2>1, <2>3, <2>5, <3>1 DEF Due, Marked, ReceiveK8sEvent, listVars
  <2>6. UNCHANGED <<worldVars, streamUp, listVars>>
    BY <1>9 DEF ReceiveK8sEvent
  <2> QED BY <2>3, <2>4, <2>5, <2>6 DEF worldVars, listVars, Current, ListsInv
<1>10. CASE FastTimer
  <2>1. Invalidate(structural) /\ structural \in SUBSET Kinds
    BY <1>10 DEF FastTimer, LiveQueriesTypeOK
  <2>2. /\ fetching' \subseteq Kinds /\ arriving' \in [Kinds -> ListData \cup {NoData}]
        /\ \A k \in fetching' : arriving'[k] = NoData
        /\ \A k \in Kinds : k \notin structural => arriving'[k] = arriving[k]
        /\ structural \cup fetching = fetching'
    BY <2>1, InvalidateTypes
  <2>3. LiveQueriesTypeOK'
    BY <1>10, <2>2 DEF FastTimer, LiveQueriesTypeOK, worldVars, linkVars, Timers
  <2>4. \A k \in Kinds : Due(k) => Due(k)'
    BY <1>10, <2>2 DEF FastTimer, Due, Marked, Heralded, linkVars
  <2>5. \A k \in Kinds : k \in structural => Due(k)'
    BY <2>2 DEF Due
  <2> QED BY <2>2, <2>3, <2>4, <2>5, <1>10 DEF FastTimer, worldVars, linkVars, Current, ListsInv
<1>11. CASE SlowTimer
  <2>1. Invalidate(updated) /\ updated \in SUBSET Kinds
    BY <1>11 DEF SlowTimer, LiveQueriesTypeOK
  <2>2. /\ fetching' \subseteq Kinds /\ arriving' \in [Kinds -> ListData \cup {NoData}]
        /\ \A k \in fetching' : arriving'[k] = NoData
        /\ \A k \in Kinds : k \notin updated => arriving'[k] = arriving[k]
        /\ updated \cup fetching = fetching'
    BY <2>1, InvalidateTypes
  <2>3. LiveQueriesTypeOK'
    BY <1>11, <2>2 DEF SlowTimer, LiveQueriesTypeOK, worldVars, linkVars, Timers
  <2>4. \A k \in Kinds : Due(k) => Due(k)'
    BY <1>11, <2>2 DEF SlowTimer, Due, Marked, Heralded, linkVars
  <2>5. \A k \in Kinds : k \in updated => Due(k)'
    BY <2>2 DEF Due
  <2> QED BY <2>2, <2>3, <2>4, <2>5, <1>11 DEF SlowTimer, worldVars, linkVars, Current, ListsInv
<1> QED BY <1>1, <1>2, <1>3, <1>4, <1>5, <1>6, <1>7, <1>8, <1>9, <1>10, <1>11 DEF LiveQueriesNext

LEMMA ListsInvHolds == LiveQueriesAssumption /\ LiveQueriesSpec => []ListsInv
<1> SUFFICES ASSUME LiveQueriesAssumption PROVE LiveQueriesSpec => []ListsInv
  OBVIOUS
<1> QED BY LiveQueriesStart, ListsStep, PTL DEF LiveQueriesSpec

\* The sets, timers and fetches of the lists keep their types, and a list whose
\* fetch is under way has no answer on its way.
THEOREM ListsTypeCorrect == LiveQueriesAssumption /\ LiveQueriesSpec => []LiveQueriesTypeOK
<1>1. ListsInv => LiveQueriesTypeOK
  BY DEF ListsInv
<1> QED BY <1>1, ListsInvHolds, PTL

\* Whatever crosses a switch, a lost stream or the page's unmount, and however
\* the two tiers' timers and the answers interleave with the events: while the
\* stream is open no list misses a change unless its fetch is under way or due.
THEOREM NoListIsForgottenHolds == LiveQueriesAssumption /\ LiveQueriesSpec => []NoListIsForgotten
<1>1. ListsInv => NoListIsForgotten
  BY DEF ListsInv, NoListIsForgotten, Due, Heralded, Marked, Wakes
<1> QED BY <1>1, ListsInvHolds, PTL

-----------------------------------------------------------------------------
(* The pick of namespaces. *)

\* The effects: writes are skipped only while the URL and the state agree, so
\* that where they differ the effects that make them agree are still to run.
EffectsInv ==
    /\ skip => dirty = {"namespaces"} /\ url = namespaces
    /\ "url" \in dirty /\ navigation = "pop" => dirty \subseteq {"url", "view"}
    /\ url # namespaces => dirty \cap {"namespaces", "url", "view"} # {}

\* The exchanges, while one was under way at a time and none failed: the first
\* scope of a context is being fetched, one POST is, or the server's pick has
\* come and the state has it or is about to.
FirstFetch ==
    /\ scopeFetch # ScopeIdle /\ scope = NoScope /\ posts = {}
    /\ scopeFetch.stage = "answered" => scopeFetch.actives = pick

OnePost ==
    /\ scopeFetch = ScopeIdle /\ scope # NoScope /\ "scope" \notin dirty
    /\ \E p \in Posts :
        /\ posts = {p}
        /\ p.stage = "ok" => pick = p.wants
        /\ p.wants # scope \/ namespaces = scope \/ p.clears

PickArrived ==
    /\ scopeFetch = ScopeIdle /\ scope # NoScope /\ posts = {}
    /\ scope = pick
    /\ namespaces = scope \/ ("scope" \in dirty /\ "url" \notin dirty)

PostsInv ==
    \A p \in posts :
        /\ p.stage = "abandoned" => failed
        /\ p.clears => p.wants = {}
        /\ p.stage = "ok" => p.actives = p.wants

Quiet == ~failed /\ ~exchangesRaced
PickInv == NamespaceScopeTypeOK /\ EffectsInv /\ PostsInv /\ (Quiet => FirstFetch \/ OnePost \/ PickArrived)

LEMMA ScopeStart == NamespaceScopeAssumption /\ NamespaceScopeInit => PickInv
<1> SUFFICES ASSUME NamespaceScopeAssumption, NamespaceScopeInit PROVE PickInv
  OBVIOUS
<1>1. NamespaceScopeTypeOK
  <2>1. scopeFetch \in [stage : {"idle", "asked", "answered"}, actives : Picks]
    BY DEF NamespaceScopeInit, ScopeAsked, Picks
  <2>2. /\ pick \in Picks /\ allowed \in Picks /\ url \in Picks /\ namespaces \in Picks
        /\ visited \subseteq Picks /\ posts \subseteq Posts /\ dirty \subseteq Sources
    BY DEF NamespaceScopeInit, Picks
  <2>3. acts \in 0 .. MaxActs /\ mishaps \in 0 .. MaxMishaps
    BY DEF NamespaceScopeAssumption, NamespaceScopeInit
  <2>4. /\ skip \in BOOLEAN /\ reconciled \in BOOLEAN /\ failed \in BOOLEAN
        /\ exchangesRaced \in BOOLEAN /\ navigation \in {"pop", "push", "replace"}
        /\ scope = NoScope
    BY DEF NamespaceScopeInit
  <2> QED BY <2>1, <2>2, <2>3, <2>4 DEF NamespaceScopeTypeOK
<1>2. EffectsInv /\ PostsInv /\ FirstFetch
  BY DEF NamespaceScopeInit, EffectsInv, PostsInv, FirstFetch, ScopeAsked, ScopeIdle
<1> QED BY <1>1, <1>2 DEF PickInv

\* A pick is not the absence of a scope, an idle fetch is none under way.
LEMMA ScopeFacts ==
    ASSUME NamespaceScopeAssumption
    PROVE  /\ NoScope \notin Picks
           /\ ScopeAsked # ScopeIdle /\ ScopeAsked.stage = "asked" /\ ScopeIdle.stage = "idle"
           /\ ScopeAsked \in [stage : {"idle", "asked", "answered"}, actives : Picks]
           /\ ScopeIdle \in [stage : {"idle", "asked", "answered"}, actives : Picks]
BY DEF NamespaceScopeAssumption, ScopeAsked, ScopeIdle, Picks

\* A request, and what becomes of one.
LEMMA RequestFacts ==
    ASSUME NEW wants \in Picks, NEW by \in {"app", "switcher"}, NEW clears \in BOOLEAN
    PROVE  /\ Request(wants, by, clears) \in Posts
           /\ Request(wants, by, clears).wants = wants
           /\ Request(wants, by, clears).stage = "sent"
           /\ Request(wants, by, clears).clears = clears
BY DEF Request, Posts, Picks

At(p, stage) == [p EXCEPT !.stage = stage]
Done(p) == [p EXCEPT !.stage = "ok", !.actives = p.wants]
Overtaken(p) == [p EXCEPT !.clears = FALSE]

LEMMA PostFacts ==
    ASSUME NEW p \in Posts
    PROVE  /\ \A stage \in {"failed", "abandoned"} :
                  /\ At(p, stage) \in Posts /\ At(p, stage).stage = stage
                  /\ At(p, stage).wants = p.wants /\ At(p, stage).clears = p.clears
           /\ Done(p) \in Posts /\ Done(p).stage = "ok" /\ Done(p).actives = p.wants
           /\ Done(p).wants = p.wants /\ Done(p).clears = p.clears
           /\ Overtaken(p) \in Posts /\ Overtaken(p).stage = p.stage
           /\ Overtaken(p).actives = p.actives /\ Overtaken(p).wants = p.wants
           /\ ~Overtaken(p).clears
BY DEF Posts, At, Done, Overtaken

\* A POST beside others, or the only one.
LEMMA PostingFacts ==
    ASSUME posts \subseteq Posts, PostsInv, NEW r \in Posts,
           r.stage = "sent", r.clears => r.wants = {}
    PROVE  /\ Posting(r) \subseteq Posts
           /\ posts = {} => Posting(r) = {r}
           /\ failed' = failed /\ posts' = Posting(r) => PostsInv'
<1>1. Posting(r) = {IF p.by = r.by THEN Overtaken(p) ELSE p : p \in posts} \cup {r}
  BY DEF Posting, Overtaken
<1>2. \A p \in posts : p \in Posts /\ Overtaken(p) \in Posts
  BY PostFacts
<1>3. Posting(r) \subseteq Posts /\ (posts = {} => Posting(r) = {r})
  BY <1>1, <1>2
<1>4. ASSUME failed' = failed, posts' = Posting(r) PROVE PostsInv'
  <2> SUFFICES ASSUME NEW q \in posts'
               PROVE  /\ q.stage = "abandoned" => failed'
                      /\ q.clears => q.wants = {}
                      /\ q.stage = "ok" => q.actives = q.wants
    BY DEF PostsInv
  <2>1. CASE q = r
    BY <2>1
  <2>2. CASE q # r
    <3>1. PICK p \in posts : q = (IF p.by = r.by THEN Overtaken(p) ELSE p)
      BY <1>1, <1>4, <2>2
    <3>2. p \in Posts
      OBVIOUS
    <3> QED BY <1>4, <3>1, <3>2, PostFacts DEF PostsInv
  <2> QED BY <2>1, <2>2
<1> QED BY <1>3, <1>4

\* The same of what an effect or a click of the page posts.
LEMMA MutateFacts ==
    ASSUME NamespaceScopeTypeOK, PostsInv, NEW wanted \in SUBSET Picks, Mutate(wanted), failed' = failed
    PROVE  /\ posts' \subseteq Posts /\ PostsInv' /\ exchangesRaced' \in BOOLEAN
           /\ exchangesRaced => exchangesRaced'
           /\ wanted = {} => posts' = posts
           /\ wanted # {} /\ ~exchangesRaced'
              => /\ posts = {} /\ scopeFetch = ScopeIdle
                 /\ \E w \in wanted : posts' = {Request(w, "app", FALSE)}
<1>1. posts \subseteq Posts /\ exchangesRaced \in BOOLEAN
  BY DEF NamespaceScopeTypeOK
<1>2. CASE wanted = {}
  BY <1>1, <1>2 DEF Mutate, PostsInv
<1>3. CASE wanted # {}
  <2> DEFINE w == CHOOSE v \in wanted : TRUE
  <2>1. w \in wanted /\ w \in Picks
    BY <1>3
  <2> HIDE DEF w
  <2> DEFINE r == Request(w, "app", FALSE)
  <2>2. r \in Posts /\ r.stage = "sent" /\ ~r.clears
    BY <2>1, RequestFacts
  <2>3. posts' = Posting(r)
    BY <1>3 DEF Mutate, w
  <2>4. exchangesRaced' = (exchangesRaced \/ UnderWay)
    BY <1>3 DEF Mutate
  <2> HIDE DEF r
  <2>5. Posting(r) \subseteq Posts /\ (posts = {} => Posting(r) = {r}) /\ PostsInv'
    BY <1>1, <2>2, <2>3, PostingFacts
  <2>6. ~exchangesRaced' => posts = {} /\ scopeFetch = ScopeIdle
    BY <2>4 DEF UnderWay
  <2> QED BY <1>1, <1>3, <2>1, <2>3, <2>4, <2>5, <2>6 DEF r
<1> QED BY <1>2, <1>3

-----------------------------------------------------------------------------
(* A commit of the effects. *)

LEMMA CommitStep ==
    ASSUME NamespaceScopeAssumption, PickInv, Effects PROVE PickInv'
<1>1. PICK D \in {dirty, dirty \ {"url", "view"}} : D # {} /\ Commit(D)
  BY DEF Effects
<1> DEFINE wanted == (IF Reconciles(D) THEN {namespaces} ELSE {}) \cup PushesUrl(D)
<1>2. /\ reconciled' = (reconciled \/ ("scope" \in D /\ scope # NoScope))
      /\ url' = IF Writes(D) THEN namespaces ELSE url
      /\ navigation' = IF Writes(D) THEN "replace" ELSE navigation
      /\ namespaces' = IF Reads(D) THEN url
                       ELSE IF Mirrors(D) /\ ~Reconciles(D) THEN scope
                       ELSE namespaces
      /\ Mutate(wanted)
      /\ dirty' = (dirty \ D) \cup (IF namespaces' = namespaces THEN {} ELSE {"namespaces"})
                              \cup (IF Writes(D) THEN {"url"} ELSE {})
      /\ skip' = StillSkips(D, dirty')
      /\ UNCHANGED <<pick, allowed, scope, scopeFetch, visited, acts, mishaps, failed>>
  BY <1>1 DEF Commit, scopeServerVars
<1>3. /\ url \in Picks /\ namespaces \in Picks /\ (scope = NoScope \/ scope \in Picks)
      /\ dirty \subseteq Sources /\ D \subseteq dirty /\ navigation \in {"pop", "push", "replace"}
      /\ skip \in BOOLEAN /\ reconciled \in BOOLEAN
  BY <1>1 DEF PickInv, NamespaceScopeTypeOK
<1>4. wanted \in SUBSET Picks
  <2>1. PushesUrl(D) \subseteq {url} /\ wanted \subseteq {namespaces} \cup PushesUrl(D)
    BY DEF PushesUrl
  <2> HIDE DEF wanted
  <2> QED BY <1>3, <2>1
<1>5. namespaces' \in Picks
  <2>1. Mirrors(D) => scope \in Picks
    BY <1>3 DEF Mirrors
  <2>2. namespaces' = url \/ namespaces' = namespaces \/ (Mirrors(D) /\ namespaces' = scope)
    BY <1>2
  <2> QED BY <1>3, <2>1, <2>2
<1>6. /\ Mutate(wanted) /\ failed' = failed
      /\ NamespaceScopeTypeOK /\ PostsInv
  BY <1>2 DEF PickInv
<1>7. /\ posts' \subseteq Posts /\ PostsInv' /\ exchangesRaced' \in BOOLEAN
      /\ exchangesRaced => exchangesRaced'
      /\ wanted = {} => posts' = posts
      /\ wanted # {} /\ ~exchangesRaced'
         => /\ posts = {} /\ scopeFetch = ScopeIdle
            /\ \E w \in wanted : posts' = {Request(w, "app", FALSE)}
  <2> HIDE DEF wanted
  <2> QED BY <1>4, <1>6, MutateFacts
<1>8. NamespaceScopeTypeOK'
  <2>1. skip' \in BOOLEAN /\ reconciled' \in BOOLEAN
    <3>1. Skips(D) \in BOOLEAN
      BY <1>3 DEF Skips
    <3>2. skip' = (Skips(D) /\ dirty' # {})
      BY <1>2 DEF StillSkips
    <3>3. reconciled' = (reconciled \/ ("scope" \in D /\ scope # NoScope))
      BY <1>2
    <3> QED BY <1>3, <3>1, <3>2, <3>3, Zenon
  <2>2. url' \in Picks /\ navigation' \in {"pop", "push", "replace"}
    BY <1>2, <1>3
  <2>3. dirty' \subseteq Sources
    BY <1>2, <1>3 DEF Sources
  <2> QED BY <1>2, <1>5, <1>7, <2>1, <2>2, <2>3 DEF PickInv, NamespaceScopeTypeOK
<1>9. EffectsInv'
  <2> USE DEF PickInv, EffectsInv
  <2>1. ASSUME skip' PROVE dirty' = {"namespaces"} /\ url' = namespaces'
    <3>1. Skips(D) /\ dirty' # {}
      BY <1>2, <2>1 DEF StillSkips
    <3>2. ~Writes(D)
      BY <3>1 DEF Writes
    <3>3. CASE "url" \in D
      <4>1. navigation = "pop" /\ D = dirty /\ dirty \subseteq {"url", "view"}
        BY <1>1, <1>3, <3>1, <3>3 DEF Skips
      <4>2. ~Mirrors(D)
        BY <4>1 DEF Mirrors
      <4>3. url # namespaces
        BY <1>2, <3>1, <3>2, <4>1, <4>2 DEF Reads
      <4> QED BY <1>2, <3>2, <3>3, <4>1, <4>3 DEF Reads
    <3>4. CASE "url" \notin D
      <4>1. skip /\ dirty = {"namespaces"} /\ url = namespaces
        BY <3>1, <3>4 DEF Skips
      <4>2. D = dirty /\ ~Mirrors(D) /\ ~Reads(D)
        BY <1>1, <4>1 DEF Mirrors, Reads
      <4> QED BY <1>2, <3>1, <3>2, <4>1, <4>2
    <3> QED BY <3>3, <3>4
  <2>2. ASSUME "url" \in dirty', navigation' = "pop" PROVE dirty' \subseteq {"url", "view"}
    <3>1. ~Writes(D)
      BY <1>2, <2>2
    <3>2. "url" \in dirty /\ "url" \notin D /\ navigation = "pop"
      BY <1>2, <2>2, <3>1
    <3>3. dirty \subseteq {"url", "view"} /\ D = dirty \ {"url", "view"}
      BY <1>1, <3>2
    <3> QED BY <1>1, <3>3
  <2>3. ASSUME url' # namespaces' PROVE dirty' \cap {"namespaces", "url", "view"} # {}
    <3>1. CASE namespaces' # namespaces \/ Writes(D)
      BY <1>2, <3>1
    <3>2. CASE namespaces' = namespaces /\ ~Writes(D)
      <4>1. url # namespaces /\ ~Reads(D) /\ dirty' = dirty \ D
        BY <1>2, <2>3, <3>2
      <4>2. "url" \notin D
        BY <4>1 DEF Reads
      <4>3. ~skip
        BY <4>1
      <4>4. D = {"scope"}
        BY <3>2, <4>1, <4>2, <4>3 DEF Writes, Skips
      <4> QED BY <4>1, <4>4
    <3> QED BY <3>1, <3>2
  <2> QED BY <2>1, <2>2, <2>3
<1>10. ASSUME Quiet' PROVE FirstFetch' \/ OnePost' \/ PickArrived'
  <2>1. Quiet
    BY <1>2, <1>7, <1>10 DEF Quiet
  <2>2. CASE FirstFetch
    <3>1. wanted = {}
      BY <2>2 DEF FirstFetch, Reconciles, Mirrors, PushesUrl
    <3> QED BY <1>2, <1>7, <2>2, <3>1 DEF FirstFetch
  <2>3. CASE OnePost
    <3>1. posts # {} /\ ~exchangesRaced'
      BY <1>10, <2>3 DEF OnePost, Quiet
    <3>2. wanted = {}
      BY <1>7, <3>1
    <3>3. ~Mirrors(D) /\ "scope" \notin dirty'
      BY <1>2, <1>3, <2>3 DEF OnePost, Mirrors
    <3>4. namespaces' = namespaces \/ namespaces' = scope
      BY <1>2, <2>3, <3>2, <3>3 DEF PushesUrl, OnePost
    <3>5. posts' = posts
      BY <1>7, <3>2
    <3> QED BY <1>2, <2>3, <3>3, <3>4, <3>5 DEF OnePost
  <2>4. CASE PickArrived
    <3>1. "scope" \in dirty /\ "url" \notin dirty => "scope" \in D /\ "url" \notin D
      BY <1>1
    <3>2. CASE wanted = {}
      <4>1. namespaces' = scope
        <5>1. ~Reconciles(D)
          BY <3>2
        <5>2. CASE Reads(D)
          BY <1>2, <2>4, <3>2, <5>2 DEF PushesUrl, PickArrived
        <5>3. CASE ~Reads(D)
          BY <1>2, <2>4, <3>1, <5>1, <5>3 DEF Mirrors, PickArrived
        <5> QED BY <5>2, <5>3
      <4> QED BY <1>2, <1>7, <2>4, <3>2, <4>1 DEF PickArrived
    <3>3. CASE wanted # {}
      <4>1. PICK w \in wanted : posts' = {Request(w, "app", FALSE)}
        BY <1>7, <1>10, <3>3 DEF Quiet
      <4>2. w # scope
        BY DEF Reconciles, Mirrors, PushesUrl
      <4>3. /\ Request(w, "app", FALSE) \in Posts /\ Request(w, "app", FALSE).stage = "sent"
            /\ Request(w, "app", FALSE).wants = w
        BY <1>4, RequestFacts
      <4>4. "scope" \notin dirty'
        <5>1. "scope" \notin dirty \ D
          BY <1>1
        <5> QED BY <1>2, <5>1
      <4> QED BY <1>2, <2>4, <4>1, <4>2, <4>3, <4>4 DEF PickArrived, OnePost
    <3> QED BY <3>2, <3>3
  <2> QED BY <2>1, <2>2, <2>3, <2>4 DEF PickInv
<1> QED BY <1>7, <1>8, <1>9, <1>10 DEF PickInv

-----------------------------------------------------------------------------
(* The exchanges. *)

\* A step of one exchange leaves the page's state alone.
LEMMA EffectsKept ==
    ASSUME EffectsInv, UNCHANGED stateVars PROVE EffectsInv'
BY DEF EffectsInv, stateVars

LEMMA ServerStep ==
    ASSUME NamespaceScopeAssumption, PickInv, NEW p \in posts,
           \/ ServerSets(p) \/ ServerRefuses(p) \/ AnswerIsLost(p)
    PROVE  PickInv'
<1>1. /\ posts \subseteq Posts /\ p \in Posts /\ NamespaceScopeTypeOK /\ PostsInv /\ EffectsInv
  BY DEF PickInv, NamespaceScopeTypeOK
<1>2. /\ UNCHANGED <<allowed, scope, scopeFetch, stateVars, acts, failed>>
      /\ mishaps' = mishaps \/ (mishaps' = mishaps + 1 /\ mishaps < MaxMishaps)
      /\ exchangesRaced' \in BOOLEAN /\ (exchangesRaced => exchangesRaced')
      /\ \/ posts' = posts \ {p} /\ p.stage = "abandoned" /\ (pick' = pick \/ pick' = p.wants)
         \/ /\ posts' = (posts \ {p}) \cup {Done(p)} /\ pick' = p.wants
         \/ /\ posts' = (posts \ {p}) \cup {At(p, "failed")} /\ pick' = pick
  BY <1>1 DEF ServerSets, ServerRefuses, AnswerIsLost, Progress, Done, At, scopeServerVars,
      NamespaceScopeTypeOK
<1>3. posts' \subseteq Posts /\ PostsInv'
  <2>1. /\ Done(p) \in Posts /\ Done(p).stage = "ok" /\ Done(p).actives = p.wants
        /\ Done(p).wants = p.wants /\ Done(p).clears = p.clears
        /\ At(p, "failed") \in Posts /\ At(p, "failed").stage = "failed"
        /\ At(p, "failed").wants = p.wants /\ At(p, "failed").clears = p.clears
    BY <1>1, PostFacts
  <2>2. \A q \in posts' : q \in posts \/ q = Done(p) \/ q = At(p, "failed")
    BY <1>2
  <2>3. failed' = failed
    BY <1>2
  <2> QED BY <1>1, <2>1, <2>2, <2>3 DEF PostsInv
<1>4. EffectsInv'
  BY <1>1, <1>2, EffectsKept
<1>5. NamespaceScopeTypeOK'
  <2>1. pick' \in Picks
    BY <1>1, <1>2 DEF NamespaceScopeTypeOK, Posts
  <2>2. mishaps' \in 0 .. MaxMishaps
    BY <1>1, <1>2 DEF NamespaceScopeTypeOK, NamespaceScopeAssumption
  <2> QED BY <1>1, <1>2, <1>3, <2>1, <2>2 DEF NamespaceScopeTypeOK, stateVars
<1>6. ASSUME Quiet' PROVE OnePost'
  <2>1. Quiet /\ ~failed
    BY <1>1, <1>2, <1>6 DEF Quiet
  <2>2. OnePost
    BY <2>1 DEF PickInv, FirstFetch, PickArrived
  <2>3. posts = {p} /\ (p.wants # scope \/ namespaces = scope \/ p.clears)
    BY <2>2 DEF OnePost
  <2>4. p.stage # "abandoned"
    BY <1>1, <2>1 DEF PostsInv
  <2>5. PICK q \in {Done(p), At(p, "failed")} :
          posts' = {q} /\ (q = Done(p) => pick' = p.wants)
    <3>1. Done(p) # At(p, "failed")
      BY <1>1, PostFacts
    <3>2. CASE posts' = (posts \ {p}) \cup {Done(p)} /\ pick' = p.wants
      BY <2>3, <3>2
    <3>3. CASE posts' = (posts \ {p}) \cup {At(p, "failed")}
      BY <2>3, <3>1, <3>3
    <3> QED BY <1>2, <2>4, <3>2, <3>3
  <2>6. /\ q \in Posts /\ q.wants = p.wants /\ q.clears = p.clears
        /\ q.stage = "ok" => q = Done(p)
    BY <1>1, <2>5, PostFacts
  <2> QED BY <1>2, <2>2, <2>3, <2>5, <2>6 DEF OnePost, stateVars
<1> QED BY <1>3, <1>4, <1>5, <1>6 DEF PickInv

\* A failure is on record.
LEMMA FailureStep ==
    ASSUME NamespaceScopeAssumption, PickInv, NEW p \in posts, PostFails(p) \/ TimeOut(p)
    PROVE  PickInv'
<1>1. /\ posts \subseteq Posts /\ p \in Posts /\ NamespaceScopeTypeOK /\ PostsInv /\ EffectsInv
  BY DEF PickInv, NamespaceScopeTypeOK
<1>2. /\ UNCHANGED <<pick, allowed, scope, stateVars, acts>>
      /\ failed' = TRUE /\ scopeFetch' = ScopeAsked /\ exchangesRaced' \in BOOLEAN
      /\ mishaps' = mishaps \/ (mishaps' = mishaps + 1 /\ mishaps < MaxMishaps)
      /\ \/ posts' = posts \ {p}
         \/ posts' = (posts \ {p}) \cup {At(p, "abandoned")}
  BY <1>1 DEF PostFails, TimeOut, Failure, Progress, At, scopeServerVars, NamespaceScopeTypeOK
<1>3. posts' \subseteq Posts /\ PostsInv'
  <2>1. /\ At(p, "abandoned") \in Posts /\ At(p, "abandoned").stage = "abandoned"
        /\ At(p, "abandoned").wants = p.wants /\ At(p, "abandoned").clears = p.clears
    BY <1>1, PostFacts
  <2>2. \A q \in posts' : q \in posts \/ q = At(p, "abandoned")
    BY <1>2
  <2> QED BY <1>1, <1>2, <2>1, <2>2 DEF PostsInv
<1>4. EffectsInv'
  BY <1>1, <1>2, EffectsKept
<1>5. NamespaceScopeTypeOK'
  <2>1. mishaps' \in 0 .. MaxMishaps
    BY <1>1, <1>2 DEF NamespaceScopeTypeOK, NamespaceScopeAssumption
  <2> QED BY <1>1, <1>2, <1>3, <2>1, ScopeFacts DEF NamespaceScopeTypeOK, stateVars
<1> QED BY <1>2, <1>3, <1>4, <1>5 DEF PickInv, Quiet

LEMMA SuccessStep ==
    ASSUME NamespaceScopeAssumption, PickInv, NEW p \in posts, PostSucceeds(p) PROVE PickInv'
<1>1. /\ posts \subseteq Posts /\ p \in Posts /\ NamespaceScopeTypeOK /\ PostsInv /\ EffectsInv
  BY DEF PickInv, NamespaceScopeTypeOK
<1>2. /\ p.stage = "ok" /\ dirty = {} /\ posts' = posts \ {p}
      /\ namespaces' = IF p.clears THEN {} ELSE namespaces
      /\ scope' = p.actives
      /\ dirty' = (IF p.actives = scope THEN {} ELSE {"scope"})
                  \cup (IF namespaces' = namespaces THEN {} ELSE {"namespaces"})
      /\ UNCHANGED <<pick, allowed, scopeFetch, url, visited, navigation, skip, reconciled,
                     acts, mishaps, failed, exchangesRaced>>
  BY DEF PostSucceeds, NewScope, scopeServerVars
<1>3. p.actives \in Picks /\ p.actives = p.wants /\ p.actives # NoScope
  BY <1>1, <1>2, ScopeFacts DEF Posts, PostsInv
<1>4. NamespaceScopeTypeOK'
  <2>1. namespaces' \in Picks /\ dirty' \subseteq Sources
    BY <1>1, <1>2 DEF NamespaceScopeTypeOK, Picks, Sources
  <2> QED BY <1>1, <1>2, <1>3, <2>1 DEF NamespaceScopeTypeOK
<1>5. PostsInv'
  BY <1>1, <1>2 DEF PostsInv
<1>6. EffectsInv'
  BY <1>1, <1>2 DEF EffectsInv
<1>7. ASSUME Quiet' PROVE PickArrived'
  <2>1. OnePost
    BY <1>2, <1>7 DEF PickInv, Quiet, FirstFetch, PickArrived
  <2>2. /\ scopeFetch = ScopeIdle /\ posts = {p} /\ pick = p.wants
        /\ p.wants # scope \/ namespaces = scope \/ p.clears
    BY <1>2, <2>1 DEF OnePost
  <2>3. p.clears => p.wants = {} /\ namespaces' = {}
    BY <1>1, <1>2 DEF PostsInv
  <2>4. namespaces' = scope' \/ ("scope" \in dirty' /\ "url" \notin dirty')
    BY <1>2, <1>3, <2>2, <2>3
  <2> QED BY <1>2, <1>3, <2>2, <2>4 DEF PickArrived
<1> QED BY <1>4, <1>5, <1>6, <1>7 DEF PickInv

LEMMA FetchStep ==
    ASSUME NamespaceScopeAssumption, PickInv, ScopeAnswered \/ ScopeArrives PROVE PickInv'
<1>1. NamespaceScopeTypeOK /\ PostsInv /\ EffectsInv
  BY DEF PickInv
<1>2. CASE ScopeAnswered
  <2> DEFINE answer == [stage |-> "answered", actives |-> pick \cap allowed]
  <2>1. /\ scopeFetch = ScopeAsked /\ pick' = pick \cap allowed /\ scopeFetch' = answer
        /\ UNCHANGED <<allowed, posts, scope, stateVars, acts, mishaps, failed, exchangesRaced>>
    BY <1>2 DEF ScopeAnswered
  <2>2. /\ pick' \in Picks
        /\ answer \in [stage : {"idle", "asked", "answered"}, actives : Picks]
        /\ answer # ScopeIdle /\ answer.actives = pick \cap allowed
    BY <1>1, <2>1 DEF NamespaceScopeTypeOK, Picks, ScopeIdle
  <2> HIDE DEF answer
  <2>3. NamespaceScopeTypeOK'
    BY <1>1, <2>1, <2>2 DEF NamespaceScopeTypeOK, stateVars
  <2>4. EffectsInv' /\ PostsInv'
    BY <1>1, <2>1, EffectsKept DEF PostsInv
  <2>5. ASSUME Quiet' PROVE FirstFetch'
    <3>1. FirstFetch
      BY <2>1, <2>5, ScopeFacts DEF PickInv, Quiet, OnePost, PickArrived
    <3> QED BY <2>1, <2>2, <3>1 DEF FirstFetch
  <2> QED BY <2>3, <2>4, <2>5 DEF PickInv
<1>3. CASE ScopeArrives
  <2>1. /\ scopeFetch.stage = "answered" /\ dirty = {} /\ scopeFetch' = ScopeIdle
        /\ scope' = scopeFetch.actives
        /\ dirty' = IF scopeFetch.actives = scope THEN {} ELSE {"scope"}
        /\ UNCHANGED <<pick, allowed, posts, namespaces, url, visited, navigation, skip, reconciled,
                       acts, mishaps, failed, exchangesRaced>>
    BY <1>3 DEF ScopeArrives, NewScope, scopeServerVars
  <2>2. scopeFetch.actives \in Picks /\ scopeFetch.actives # NoScope
    BY <1>1, ScopeFacts DEF NamespaceScopeTypeOK
  <2>3. NamespaceScopeTypeOK'
    BY <1>1, <2>1, <2>2, ScopeFacts DEF NamespaceScopeTypeOK, Sources
  <2>4. EffectsInv' /\ PostsInv'
    BY <1>1, <2>1 DEF EffectsInv, PostsInv
  <2>5. ASSUME Quiet' PROVE PickArrived'
    <3>1. FirstFetch
      BY <2>1, <2>5, ScopeFacts DEF PickInv, Quiet, OnePost, PickArrived
    <3> QED BY <2>1, <2>2, <3>1 DEF FirstFetch, PickArrived
  <2> QED BY <2>3, <2>4, <2>5 DEF PickInv
<1> QED BY <1>2, <1>3

-----------------------------------------------------------------------------
(* The user, and what comes from outside the page. *)

\* What a click posts: the pick asked for, when no other exchange is under way.
LEMMA ClickStep ==
    ASSUME NamespaceScopeAssumption, PickInv,
           \/ \E draft \in Picks : Apply(draft)
           \/ ClearAll
           \/ \E wants \in Picks : Maximize(wants) \/ SetNamespaces(wants)
    PROVE  PickInv'
<1>1. NamespaceScopeTypeOK /\ PostsInv /\ EffectsInv /\ posts \subseteq Posts
  BY DEF PickInv, NamespaceScopeTypeOK
<1>2. /\ dirty = {} /\ acts < MaxActs /\ acts' = acts + 1
      /\ UNCHANGED <<pick, allowed, scope, scopeFetch, url, visited, navigation, skip, reconciled,
                     mishaps, failed>>
  BY DEF Apply, ClearAll, Maximize, SetNamespaces, Act, scopeServerVars, stateVars
<1>3. /\ posts' \subseteq Posts /\ PostsInv' /\ exchangesRaced' \in BOOLEAN
      /\ namespaces' \in Picks
      /\ dirty' = IF namespaces' = namespaces THEN {} ELSE {"namespaces"}
      /\ exchangesRaced => exchangesRaced'
      /\ ~exchangesRaced'
         => /\ posts = {} /\ scopeFetch = ScopeIdle
            /\ \E r \in Posts :
                /\ posts' = {r} /\ r.stage = "sent"
                /\ r.clears \/ namespaces' = namespaces \/ namespaces' = r.wants
  <2>1. CASE (\E draft \in Picks : Apply(draft)) \/ ClearAll
    <3>1. PICK wants \in Picks, by \in {"app", "switcher"}, clears \in BOOLEAN :
            /\ posts' = Posting(Request(wants, by, clears))
            /\ clears => wants = {}
            /\ exchangesRaced' = (exchangesRaced \/ UnderWay)
            /\ UNCHANGED stateVars
      BY <2>1 DEF Apply, ClearAll, Picks
    <3> DEFINE r == Request(wants, by, clears)
    <3>2. r \in Posts /\ r.stage = "sent" /\ r.clears = clears /\ r.wants = wants
      BY RequestFacts
    <3>3. posts' = Posting(r)
      BY <3>1
    <3> HIDE DEF r
    <3>4. Posting(r) \subseteq Posts /\ (posts = {} => Posting(r) = {r}) /\ PostsInv'
      BY <1>1, <1>2, <3>1, <3>2, <3>3, PostingFacts
    <3>5. exchangesRaced' \in BOOLEAN
      BY <1>1, <3>1 DEF UnderWay, NamespaceScopeTypeOK
    <3>6. ~exchangesRaced' => posts = {} /\ scopeFetch = ScopeIdle /\ ~exchangesRaced
      BY <3>1 DEF UnderWay
    <3>7. namespaces' = namespaces /\ dirty' = dirty /\ namespaces \in Picks
      BY <1>1, <3>1 DEF stateVars, NamespaceScopeTypeOK
    <3> QED BY <1>2, <3>2, <3>3, <3>4, <3>5, <3>6, <3>7
  <2>2. ASSUME NEW wants \in Picks, Maximize(wants) \/ SetNamespaces(wants)
        PROVE  /\ posts' \subseteq Posts /\ PostsInv' /\ exchangesRaced' \in BOOLEAN
               /\ namespaces' \in Picks
               /\ dirty' = IF namespaces' = namespaces THEN {} ELSE {"namespaces"}
               /\ exchangesRaced => exchangesRaced'
               /\ ~exchangesRaced'
                  => /\ posts = {} /\ scopeFetch = ScopeIdle
                     /\ \E r \in Posts :
                         /\ posts' = {r} /\ r.stage = "sent"
                         /\ r.clears \/ namespaces' = namespaces \/ namespaces' = r.wants
    <3>1. /\ Mutate({wants}) /\ failed' = failed
          /\ namespaces' = namespaces \/ namespaces' = wants
          /\ dirty' = IF namespaces' = namespaces THEN {} ELSE {"namespaces"}
      BY <1>2, <2>2 DEF Maximize, SetNamespaces, stateVars
    <3>2. {wants} \in SUBSET Picks /\ {wants} # {}
      OBVIOUS
    <3>3. /\ posts' \subseteq Posts /\ PostsInv' /\ exchangesRaced' \in BOOLEAN
          /\ exchangesRaced => exchangesRaced'
          /\ ~exchangesRaced'
             => /\ posts = {} /\ scopeFetch = ScopeIdle
                /\ \E w \in {wants} : posts' = {Request(w, "app", FALSE)}
      BY <1>1, <3>1, <3>2, MutateFacts
    <3>4. /\ Request(wants, "app", FALSE) \in Posts
          /\ Request(wants, "app", FALSE).stage = "sent"
          /\ Request(wants, "app", FALSE).wants = wants
      BY RequestFacts
    <3>5. namespaces' \in Picks
      BY <1>1, <3>1 DEF NamespaceScopeTypeOK
    <3> QED BY <3>1, <3>3, <3>4, <3>5
  <2> QED BY <2>1, <2>2
<1>4. NamespaceScopeTypeOK'
  <2>1. acts' \in 0 .. MaxActs
    BY <1>1, <1>2 DEF NamespaceScopeTypeOK, NamespaceScopeAssumption
  <2>2. dirty' \subseteq Sources
    BY <1>3 DEF Sources
  <2> QED BY <1>1, <1>2, <1>3, <2>1, <2>2 DEF NamespaceScopeTypeOK
<1>5. EffectsInv'
  BY <1>1, <1>2, <1>3 DEF EffectsInv
<1>6. ASSUME Quiet' PROVE OnePost'
  <2>1. PickArrived /\ namespaces = scope
    BY <1>2, <1>3, <1>6 DEF PickInv, Quiet, FirstFetch, OnePost, PickArrived
  <2>2. PICK r \in Posts :
          /\ posts' = {r} /\ r.stage = "sent"
          /\ r.clears \/ namespaces' = namespaces \/ namespaces' = r.wants
    BY <1>3, <1>6 DEF Quiet
  <2>3. "scope" \notin dirty'
    BY <1>3
  <2> QED BY <1>2, <2>1, <2>2, <2>3 DEF OnePost, PickArrived
<1> QED BY <1>3, <1>4, <1>5, <1>6 DEF PickInv

\* Where the page goes, no exchange is begun before the effects have run.
LEMMA NavigationStep ==
    ASSUME NamespaceScopeAssumption, PickInv, SetMainView \/ Leave \/ \E to \in Picks : Back(to)
    PROVE  PickInv'
<1>1. NamespaceScopeTypeOK /\ PostsInv /\ EffectsInv
  BY DEF PickInv
<1>2. /\ dirty = {} /\ acts < MaxActs /\ acts' = acts + 1
      /\ visited' = visited \cup {url} /\ url' \in Picks
      /\ \/ navigation' = "pop" /\ dirty' \in {{"url"}, {"url", "view"}}
         \/ navigation' = "push" /\ dirty' = {"url", "view"}
      /\ UNCHANGED <<pick, allowed, exchangeVars, namespaces, skip, reconciled, mishaps,
                     failed, exchangesRaced>>
  BY <1>1 DEF SetMainView, Leave, Back, Act, scopeServerVars, Picks, NamespaceScopeTypeOK
<1>3. NamespaceScopeTypeOK'
  <2>1. acts' \in 0 .. MaxActs
    BY <1>1, <1>2 DEF NamespaceScopeTypeOK, NamespaceScopeAssumption
  <2>2. dirty' \subseteq Sources /\ visited' \subseteq Picks
    BY <1>1, <1>2 DEF Sources, NamespaceScopeTypeOK
  <2> QED BY <1>1, <1>2, <2>1, <2>2 DEF NamespaceScopeTypeOK, exchangeVars
<1>4. EffectsInv'
  BY <1>1, <1>2 DEF EffectsInv
<1>5. PostsInv'
  BY <1>1, <1>2 DEF PostsInv, exchangeVars
<1>6. ASSUME Quiet' PROVE FirstFetch' \/ OnePost' \/ PickArrived'
  <2>1. Quiet /\ "scope" \notin dirty'
    BY <1>2, <1>6 DEF Quiet
  <2>2. UNCHANGED <<pick, posts, scope, scopeFetch, namespaces>>
    BY <1>2 DEF exchangeVars
  <2> QED BY <1>2, <2>1, <2>2 DEF PickInv, FirstFetch, OnePost, PickArrived
<1> QED BY <1>3, <1>4, <1>5, <1>6 DEF PickInv

LEMMA OutsideStep ==
    ASSUME NamespaceScopeAssumption, PickInv,
           (\E n \in Namespaces : Revoke(n)) \/ \E saved \in Picks : ContextChanged(saved)
    PROVE  PickInv'
<1>1. NamespaceScopeTypeOK /\ PostsInv /\ EffectsInv
  BY DEF PickInv
<1>2. ASSUME NEW n \in Namespaces, Revoke(n) PROVE PickInv'
  <2>1. /\ mishaps < MaxMishaps /\ mishaps' = mishaps + 1 /\ allowed' = allowed \ {n}
        /\ UNCHANGED <<pick, posts, scope, scopeFetch, stateVars, acts, failed, exchangesRaced>>
    BY <1>2 DEF Revoke, exchangeVars
  <2>2. mishaps' \in 0 .. MaxMishaps /\ allowed' \in Picks
    BY <1>1, <2>1 DEF NamespaceScopeTypeOK, NamespaceScopeAssumption, Picks
  <2>3. NamespaceScopeTypeOK'
    BY <1>1, <2>1, <2>2 DEF NamespaceScopeTypeOK, stateVars
  <2>4. EffectsInv' /\ PostsInv'
    BY <1>1, <2>1, EffectsKept DEF PostsInv
  <2> QED BY <2>1, <2>3, <2>4 DEF PickInv, Quiet, FirstFetch, OnePost, PickArrived, stateVars
<1>3. ASSUME NEW saved \in Picks, ContextChanged(saved) PROVE PickInv'
  <2>1. /\ dirty = {} /\ mishaps < MaxMishaps /\ mishaps' = mishaps + 1
        /\ pick' = saved /\ scope' = NoScope /\ scopeFetch' = ScopeAsked
        /\ url' = {} /\ navigation' = "replace" /\ dirty' = {"url", "scope"}
        /\ exchangesRaced' = (exchangesRaced \/ UnderWay)
        /\ UNCHANGED <<allowed, posts, namespaces, visited, skip, reconciled, acts, failed>>
    BY <1>3 DEF ContextChanged
  <2>2. /\ mishaps' \in 0 .. MaxMishaps /\ url' \in Picks /\ dirty' \subseteq Sources
        /\ exchangesRaced' \in BOOLEAN
    BY <1>1, <2>1 DEF NamespaceScopeTypeOK, NamespaceScopeAssumption, Picks, Sources, UnderWay
  <2>3. NamespaceScopeTypeOK'
    BY <1>1, <2>1, <2>2, ScopeFacts DEF NamespaceScopeTypeOK
  <2>4. EffectsInv' /\ PostsInv'
    BY <1>1, <2>1 DEF EffectsInv, PostsInv
  <2>5. Quiet' => posts' = {}
    BY <2>1 DEF Quiet, UnderWay
  <2>6. Quiet' => FirstFetch'
    BY <2>1, <2>5, ScopeFacts DEF FirstFetch
  <2> QED BY <2>3, <2>4, <2>6 DEF PickInv
<1> QED BY <1>2, <1>3

LEMMA ScopeStep ==
    ASSUME NamespaceScopeAssumption, PickInv, [NamespaceScopeNext]_namespaceScopeVars
    PROVE  PickInv'
<1>1. CASE UNCHANGED namespaceScopeVars
  <2>1. /\ NamespaceScopeTypeOK' /\ EffectsInv' /\ PostsInv' /\ (Quiet' <=> Quiet)
    BY <1>1 DEF namespaceScopeVars, scopeServerVars, exchangeVars, stateVars, PickInv, Quiet,
        NamespaceScopeTypeOK, EffectsInv, PostsInv
  <2>2. /\ FirstFetch => FirstFetch'
        /\ OnePost => OnePost'
        /\ PickArrived => PickArrived'
    BY <1>1 DEF namespaceScopeVars, scopeServerVars, exchangeVars, stateVars, FirstFetch,
        OnePost, PickArrived
  <2> QED BY <2>1, <2>2 DEF PickInv
<1>2. ASSUME NEW p \in posts,
             \/ ServerSets(p) \/ ServerRefuses(p) \/ AnswerIsLost(p)
             \/ PostSucceeds(p) \/ PostFails(p) \/ TimeOut(p)
      PROVE  PickInv'
  BY <1>2, ServerStep, SuccessStep, FailureStep
<1>3. ASSUME NEW n \in Namespaces, Revoke(n) PROVE PickInv'
  BY <1>3, OutsideStep
<1>4. ASSUME NEW wants \in Picks,
             \/ Apply(wants) \/ Maximize(wants) \/ SetNamespaces(wants)
             \/ Back(wants) \/ ContextChanged(wants)
      PROVE  PickInv'
  BY <1>4, ClickStep, NavigationStep, OutsideStep
<1>5. CASE Effects \/ ScopeAnswered \/ ScopeArrives \/ ClearAll \/ SetMainView \/ Leave
  BY <1>5, CommitStep, FetchStep, ClickStep, NavigationStep
<1> QED BY <1>1, <1>2, <1>3, <1>4, <1>5 DEF NamespaceScopeNext

LEMMA PickInvHolds == NamespaceScopeAssumption /\ NamespaceScopeSpec => []PickInv
<1> SUFFICES ASSUME NamespaceScopeAssumption PROVE NamespaceScopeSpec => []PickInv
  OBVIOUS
<1> QED BY ScopeStart, ScopeStep, PTL DEF NamespaceScopeSpec

\* Picks stay sets of namespaces, wherever they are kept, through every cascade
\* of the effects.
THEOREM ScopeTypeCorrect == NamespaceScopeAssumption /\ NamespaceScopeSpec => []NamespaceScopeTypeOK
<1>1. PickInv => NamespaceScopeTypeOK
  BY DEF PickInv
<1> QED BY <1>1, PickInvHolds, PTL

\* In whatever order effects, clicks, answers and the history interleave: the
\* effects leave the URL and the state agreed, and exchanges that neither fail
\* nor cross leave the server, the query and the state agreed too.
THEOREM OnePickHolds == NamespaceScopeAssumption /\ NamespaceScopeSpec => []OnePick
<1>1. PickInv => OnePick
  <2> SUFFICES ASSUME PickInv PROVE OnePick
    OBVIOUS
  <2>1. dirty = {} => url = namespaces
    BY DEF PickInv, EffectsInv
  <2>2. AtRest /\ ~failed /\ ~exchangesRaced => scope = pick /\ namespaces = scope
    BY DEF AtRest, UnderWay, PickInv, Quiet, FirstFetch, OnePost, PickArrived
  <2> QED BY <2>1, <2>2 DEF OnePick
<1> QED BY <1>1, PickInvHolds, PTL

-----------------------------------------------------------------------------
(* The manifest. *)

\* What the two properties need of the types: an update of live or of drafts
\* at a resource changes it there and nowhere else.
YamlShape ==
    /\ at \in Resources
    /\ live = [r \in Resources |-> live[r]]
    /\ drafts = [r \in Resources |-> drafts[r]]

YamlInv == YamlShape /\ OwnManifest /\ DraftMirrorsTheEditor

\* The page begins with no draft, and every manifest is of its resource.
LEMMA YamlInit == YamlEditingInit => YamlInv
BY DEF YamlEditingInit, YamlInv, YamlShape, OwnManifest, DraftMirrorsTheEditor, First

\* Only OtherWrites and UpdateResource write the cluster, each a manifest that
\* names the resource it is written to.
LEMMA StepOwnManifest == YamlInv /\ [YamlEditingNext]_yamlEditingVars => OwnManifest'
<1> SUFFICES ASSUME YamlInv, [YamlEditingNext]_yamlEditingVars
             PROVE  OwnManifest'
    OBVIOUS
<1> USE DEF YamlInv, YamlShape, OwnManifest
<1>1. CASE \E r \in Resources : OtherWrites(r)
    BY <1>1 DEF OtherWrites
<1>2. CASE UpdateResource
    BY <1>2 DEF UpdateResource, Applies
<1>3. CASE UNCHANGED live
    BY <1>3
<1>4. QED
    BY <1>1, <1>2, <1>3
    DEF YamlEditingNext, yamlEditingVars, clusterVars, viewVars, InformerSees,
        EventInvalidates, FetchIsServed, FetchArrives, ShowRelated, SelectAnew, SelectBeside,
        Choose, OpenYaml, CloseYaml, StartEdit, Type, Cancel, Save, UpdateFails, SaveSucceeds,
        SaveFails, RefetchesSaved, SessionExpires

\* live and drafts stay functions on the resources, of which one is shown.
LEMMA StepYamlShape == YamlInv /\ [YamlEditingNext]_yamlEditingVars => YamlShape'
<1> SUFFICES ASSUME YamlInv, [YamlEditingNext]_yamlEditingVars
             PROVE  YamlShape'
    OBVIOUS
<1> USE DEF YamlInv, YamlShape
<1>1. CASE UNCHANGED <<at, live, drafts>>
    BY <1>1
<1>2. CASE \E r \in Resources : OtherWrites(r)
    BY <1>2 DEF OtherWrites, viewVars
<1>3. CASE UpdateResource
    BY <1>3 DEF UpdateResource, viewVars
<1>4. CASE \E r \in Resources : ShowRelated(r)
    BY <1>4 DEF ShowRelated, clusterVars
<1>5. CASE \E r \in Resources : SelectAnew(r)
    BY <1>5 DEF SelectAnew, Choose, clusterVars
<1>6. CASE \E r \in Resources : SelectBeside(r)
    BY <1>6 DEF SelectBeside, Choose, clusterVars
<1>7. CASE OpenYaml \/ StartEdit \/ Type
    BY <1>7 DEF OpenYaml, StoreRestored, StartEdit, Type, clusterVars
<1>8. CASE Cancel \/ SaveSucceeds
    BY <1>8 DEF Cancel, SaveSucceeds, EditEnds, clusterVars, viewVars
<1>9. QED
    BY <1>1, <1>2, <1>3, <1>4, <1>5, <1>6, <1>7, <1>8
    DEF YamlEditingNext, yamlEditingVars, clusterVars, viewVars, InformerSees,
        EventInvalidates, FetchIsServed, FetchArrives, CloseYaml, Save, UpdateFails,
        SaveFails, RefetchesSaved, SessionExpires

\* Each step that changes the text, the resource shown or the storage runs the
\* effect that brings the three together, or takes the view away.
LEMMA StepDraft == YamlInv /\ [YamlEditingNext]_yamlEditingVars => DraftMirrorsTheEditor'
<1> SUFFICES ASSUME YamlInv, [YamlEditingNext]_yamlEditingVars
             PROVE  DraftMirrorsTheEditor'
    OBVIOUS
<1> USE DEF YamlInv, YamlShape, DraftMirrorsTheEditor, Draft
<1>1. CASE UNCHANGED viewVars
    BY <1>1 DEF viewVars
<1>2. CASE shown' = FALSE
    BY <1>2
<1>3. CASE \E r \in Resources : SelectBeside(r)
    BY <1>2, <1>3 DEF SelectBeside, Choose, Unmounts
<1>4. CASE OpenYaml
    BY <1>4 DEF OpenYaml, StoreRestored
<1>5. CASE StartEdit
    BY <1>5 DEF StartEdit
<1>6. CASE Type
    BY <1>6 DEF Type
<1>7. CASE Cancel \/ SaveSucceeds
    BY <1>1, <1>7 DEF Cancel, SaveSucceeds, EditEnds
<1>8. CASE \E r \in Resources : SelectAnew(r) \/ ShowRelated(r)
    BY <1>2, <1>8 DEF SelectAnew, ShowRelated, Unmounts
<1>9. CASE CloseYaml \/ SessionExpires
    BY <1>2, <1>9 DEF CloseYaml, SessionExpires, Unmounts
<1>10. QED
    BY <1>1, <1>3, <1>4, <1>5, <1>6, <1>7, <1>8, <1>9
    DEF YamlEditingNext, yamlEditingVars, OtherWrites, InformerSees, EventInvalidates,
        FetchIsServed, FetchArrives, Save, UpdateResource, UpdateFails, SaveFails,
        RefetchesSaved

\* An answer on its way is what the informer cache holds, or an event says that
\* it is not; so is what is held for the resource shown, or it is refetched.
FreshInv ==
    /\ at \in Resources
    /\ fetch = [r \in Resources |-> fetch[r]] /\ detail = [r \in Resources |-> detail[r]]
    /\ cached = [r \in Resources |-> cached[r]]
    /\ \A r \in Resources :
        \/ fetch[r] = NoFetch \/ fetch[r] = Asked
        \/ /\ fetch[r].stage = "answered"
           /\ r \in missed \cup heard \/ fetch[r].got = cached[r]
    /\ fetch[at] = NoFetch =>
           at \in missed \cup heard \/ detail[at] = cached[at] \/ refetch

LEMMA StepFresh == FreshInv /\ [YamlEditingNext]_yamlEditingVars => FreshInv'
<1> SUFFICES ASSUME FreshInv, [YamlEditingNext]_yamlEditingVars
             PROVE  FreshInv'
    OBVIOUS
<1>0. NoFetch # Asked /\ NoFetch.stage = "idle" /\ Asked.stage = "asked"
    BY DEF NoFetch, Asked
<1> USE DEF FreshInv
<1>1. CASE UNCHANGED <<cached, heard, at, queryVars, refetch, missed>>
    BY <1>1 DEF queryVars
<1>2. ASSUME NEW q \in Resources, InformerSees(q) PROVE FreshInv'
    BY <1>2 DEF InformerSees, queryVars, viewVars, saveVars, historyVars
<1>3. ASSUME NEW q \in Resources, EventInvalidates(q) PROVE FreshInv'
    <2>1. /\ heard' = heard \ {q} /\ UNCHANGED <<cached, detail, at, refetch>>
          /\ fetch' = [fetch EXCEPT ![q] = IF q = at THEN Asked ELSE @]
          /\ missed' = IF q # at /\ fetch[q] # NoFetch THEN missed \cup {q} ELSE missed \ {q}
        BY <1>3 DEF EventInvalidates, viewVars, saveVars
    <2>2. CASE q = at
        BY <1>0, <2>1, <2>2
    <2>3. CASE q # at
        BY <1>0, <2>1, <2>3
    <2>4. QED BY <2>2, <2>3
<1>4. ASSUME NEW q \in Resources, FetchIsServed(q) PROVE FreshInv'
    <2>1. /\ fetch' = [fetch EXCEPT ![q] = [stage |-> "answered", got |-> cached[q]]]
          /\ UNCHANGED <<cached, heard, detail, at, refetch, missed>>
        BY <1>4 DEF FetchIsServed, clusterVars, viewVars, saveVars, historyVars
    <2>2. [stage |-> "answered", got |-> cached[q]] # NoFetch
        BY DEF NoFetch
    <2>3. QED BY <1>0, <2>1, <2>2
<1>5. ASSUME NEW q \in Resources, FetchArrives(q) PROVE FreshInv'
    <2>1. /\ fetch[q].stage = "answered"
          /\ fetch' = [fetch EXCEPT ![q] = NoFetch] /\ detail' = [detail EXCEPT ![q] = fetch[q].got]
          /\ UNCHANGED <<cached, heard, at, refetch, missed>>
        BY <1>5 DEF FetchArrives, clusterVars, viewVars, saveVars, historyVars
    <2>2. QED BY <1>0, <2>1
<1>6. ASSUME NEW q \in Resources, Choose(q) PROVE FreshInv'
    <2>1. /\ q # at /\ at' = q
          /\ fetch' = [fetch EXCEPT ![q] = IF @ = NoFetch THEN Asked ELSE @]
          /\ missed' = IF fetch[q] = NoFetch THEN missed \ {q} ELSE missed
          /\ UNCHANGED <<cached, heard, detail, refetch>>
        BY <1>6 DEF Choose, clusterVars
    <2>2. QED BY <1>0, <2>1
<1>7. CASE SaveSucceeds
    BY <1>7 DEF SaveSucceeds, RefetchLater, EditEnds, clusterVars, viewVars
<1>8. CASE RefetchesSaved
    <2>1. /\ fetch' = [fetch EXCEPT ![at] = Asked] /\ missed' = missed \ {at}
          /\ UNCHANGED <<cached, heard, detail, at>>
        BY <1>8 DEF RefetchesSaved, clusterVars, viewVars
    <2>2. QED BY <1>0, <2>1
<1>9. CASE SessionExpires
    BY <1>0, <1>9 DEF SessionExpires
<1>10. QED
    BY <1>1, <1>2, <1>3, <1>4, <1>5, <1>6, <1>7, <1>8, <1>9
    DEF YamlEditingNext, yamlEditingVars, clusterVars, viewVars, saveVars, historyVars, countVars,
        OtherWrites, ShowRelated, SelectAnew, SelectBeside, Unmounts, OpenYaml, CloseYaml,
        StartEdit, Type, Cancel, EditEnds, Save, UpdateResource, UpdateFails, SaveFails

\* YamlInv holds throughout.
LEMMA YamlInvHolds == YamlEditingSpec => []YamlInv
<1>1. YamlInv /\ [YamlEditingNext]_yamlEditingVars => YamlInv'
    BY StepYamlShape, StepOwnManifest, StepDraft DEF YamlInv
<1>2. QED BY <1>1, YamlInit, PTL DEF YamlEditingSpec

\* Whatever text the editor carries from one resource to the next, the cluster
\* takes it for the resource it names only (UpdateResource).
THEOREM ManifestsStayApart == YamlEditingSpec => []OwnManifest
<1>1. YamlInv => OwnManifest BY DEF YamlInv
<1>2. QED BY <1>1, YamlInvHolds, PTL

\* At any moment the session may expire the storage holds the editor's text,
\* and none when nothing is edited (the effects of EditableYamlView).
THEOREM DraftsAreStored == YamlEditingSpec => []DraftMirrorsTheEditor
<1>1. YamlInv => DraftMirrorsTheEditor BY DEF YamlInv
<1>2. QED BY <1>1, YamlInvHolds, PTL

\* When all is quiet the page shows the manifest in the cluster, whoever wrote
\* it last: events, the choice of a resource and onSaved's refetch leave nothing
\* stale behind (but for the event that comes during another resource's fetch).
THEOREM ShownIsLiveAtRestHolds == YamlEditingSpec => []ShownIsLiveAtRest
<1>1. YamlEditingInit => FreshInv
    BY DEF YamlEditingInit, FreshInv, NoFetch, Asked
<1>2. FreshInv => ShownIsLiveAtRest
    BY DEF FreshInv, ShownIsLiveAtRest
<1>3. QED BY <1>1, <1>2, StepFresh, PTL DEF YamlEditingSpec
=============================================================================

---------------------------- MODULE PortForwards ----------------------------
(***************************************************************************)
(* Port forwarding: the sessions of internal/server/portforward.go, with   *)
(* the listeners that client-go runs for them, and the requests of         *)
(* web/src/components/portforward/PortForwardManager.tsx, which lists,     *)
(* starts, stops and re-creates them.  (Its panel: PortForwardPanel.)      *)
(*                                                                         *)
(* A session outlives its place in the manager's table: its goroutines run *)
(* until the forward has ended.                                            *)
(***************************************************************************)
EXTENDS Naturals

CONSTANTS
    Ports,       \* local ports
    MaxSessions, \* bound: sessions ever started
    MaxCalls,    \* bound: what the user asks for
    MaxSwitches  \* bound: context switches

\* Assumed of the constants wherever the module is instantiated.
PortForwardsAssumption ==
    0 \notin Ports /\ MaxSessions \in Nat /\ MaxCalls \in Nat /\ MaxSwitches \in Nat

Sessions == 1 .. MaxSessions

VARIABLES
    session,  \* the sessions
    known,    \* those in the manager's table
    wedged,   \* a handler panicked with the manager's lock held
    switches, \* context switches so far
    behind,   \* the page has yet to hear of the last one
    calls,    \* requests of the page
    made,     \* how many there have been
    listed,   \* what the page lists: the data of the query
    listing,  \* its fetch under way
    unlisted  \* history: a start failed since the server last listed

serverVars == <<session, known, wedged>>
switchVars == <<switches, behind>>
portForwardsVars ==
    <<serverVars, switchVars, calls, made, listed, listing, unlisted>>

Session == [status : {"none", "starting", "running", "error", "stopped"},
            port : Ports \cup {0},
            forward : {"none", "dialing", "listening", "ended", "failed"},
            run : {"none", "starting", "running", "done"}, \* runPortForward
            cancelled : BOOLEAN, stopped : BOOLEAN]        \* ctx, stopCh
NoSession == [status |-> "none", port |-> 0, forward |-> "none", run |-> "none",
              cancelled |-> FALSE, stopped |-> FALSE]
Calls == [kind : {"start", "stop", "change"}, of : Sessions \cup {0}, port : Ports \cup {0},
          stage : {"delete", "deleted", "refused", "post", "sleeping", "ok", "failed"},
          makes : Sessions \cup {0}]
Listed == [id : Sessions, status : {"starting", "running", "error"}]

PortForwardsTypeOK ==
    /\ session \in [Sessions -> Session] /\ known \subseteq Sessions /\ wedged \in BOOLEAN
    /\ switches \in 0 .. MaxSwitches /\ behind \in BOOLEAN
    /\ calls \subseteq Calls /\ made \in 0 .. MaxCalls
    /\ listed \subseteq Listed
    /\ listing \in [stage : {"idle", "asked", "answered"}, listed : SUBSET Listed]
    /\ unlisted \in BOOLEAN

ListIdle == [stage |-> "idle", listed |-> {}]
ListAsked == [stage |-> "asked", listed |-> {}]

PortForwardsInit ==
    /\ session = [s \in Sessions |-> NoSession] /\ known = {} /\ wedged = FALSE
    /\ switches = 0 /\ behind = FALSE /\ calls = {} /\ made = 0
    /\ listed = {} /\ listing = ListAsked
    /\ unlisted = FALSE

Advance(c, stage) == calls' = (calls \ {c}) \cup {[c EXCEPT !.stage = stage]}

-----------------------------------------------------------------------------
(* ForwardPorts of client-go: it dials, listens, and ends when stopCh is     *)
(* closed or the connection to the pod is lost.  It knows nothing of the     *)
(* session's context.                                                        *)

Forwards(s, place) ==
    /\ session' = [session EXCEPT ![s].forward = place]
    /\ UNCHANGED <<known, wedged, switchVars, calls, made, listed, listing, unlisted>>

Busy(p) == \E s \in Sessions : session[s].forward = "listening" /\ session[s].port = p

Listens(s) ==
    /\ session[s].forward = "dialing"
    /\ Forwards(s, IF Busy(session[s].port) THEN "failed" ELSE "listening")

ConnectionLost(s) ==
    session[s].forward \in {"dialing", "listening"} /\ Forwards(s, "failed")

ForwardEnds(s) ==
    session[s].forward = "listening" /\ session[s].stopped /\ Forwards(s, "ended")

-----------------------------------------------------------------------------
(* runPortForward, and the goroutine that records its result. *)

Runs(s, place, status) ==
    /\ ~wedged
    /\ session' = [session EXCEPT ![s].run = place, ![s].status = status]
    /\ UNCHANGED <<known, wedged, switchVars, calls, made, listed, listing, unlisted>>

\* readyCh
RunIsReady(s) ==
    session[s].run = "starting" /\ session[s].forward \in {"listening", "ended"}
    /\ Runs(s, "running", "running")

RunFails(s) ==
    /\ session[s].run \in {"starting", "running"} /\ session[s].forward = "failed"
    /\ Runs(s, "done", "error")

RunEnds(s) ==
    /\ session[s].run \in {"starting", "running"}
    /\ session[s].cancelled \/ session[s].forward = "ended"
    /\ Runs(s, "done", "stopped")

-----------------------------------------------------------------------------
(* The handlers. *)

\* handleStopPortForward
ServeDelete(c) ==
    /\ c.stage = "delete" /\ ~wedged
    /\ IF c.of \in known
       THEN /\ session' = [session EXCEPT ![c.of].cancelled = TRUE, ![c.of].stopped = TRUE,
                                          ![c.of].status = "stopped"]
            /\ known' = known \ {c.of}
            /\ Advance(c, "deleted")
       ELSE Advance(c, "refused") /\ UNCHANGED <<session, known>>
    /\ UNCHANGED <<wedged, switchVars, made, listed, listing, unlisted>>

\* handleStartPortForward to its pause; without a port it takes one that is
\* free at the moment.
ServePost(c) ==
    /\ c.stage = "post" /\ ~wedged
    /\ \E s \in Sessions, p \in Ports :
        /\ session[s] = NoSession /\ \A r \in 1 .. s - 1 : session[r] # NoSession
        /\ IF c.port = 0 THEN ~Busy(p) ELSE p = c.port
        /\ session' = [session EXCEPT ![s] = [NoSession EXCEPT
               !.status = "starting", !.port = p, !.forward = "dialing", !.run = "starting"]]
        /\ known' = known \cup {s}
        /\ calls' = (calls \ {c}) \cup {[c EXCEPT !.stage = "sleeping", !.makes = s]}
    /\ UNCHANGED <<wedged, switchVars, made, listed, listing, unlisted>>

\* No pod runs, or it has no such port.
StartRefused(c) ==
    /\ c.stage = "post" /\ Advance(c, "failed")
    /\ UNCHANGED <<serverVars, switchVars, made, listed, listing, unlisted>>

\* Mutant: what has become of the session is not looked at.
WakeBlindly(c) ==
    /\ session' = [session EXCEPT ![c.makes].status = "running"]
    /\ Advance(c, "ok")

Wake(c) ==
    IF session[c.makes].status = "error"
    THEN Advance(c, "failed") /\ UNCHANGED session
    ELSE /\ session' = [session EXCEPT ![c.makes].status = "running"]
         /\ Advance(c, "ok")

\* The rest of handleStartPortForward.  A session that is no more in the table
\* is a nil pointer; the panic is recovered, the lock stays held.
HandlerWakes(c) ==
    /\ c.stage = "sleeping" /\ ~wedged
    /\ IF c.makes \in known
       THEN Wake(c) /\ UNCHANGED wedged
       ELSE wedged' = TRUE /\ Advance(c, "failed") /\ UNCHANGED session
    /\ UNCHANGED <<known, switchVars, made, listed, listing, unlisted>>

\* handleListPortForwards
ServeList ==
    /\ listing = ListAsked /\ ~wedged
    /\ listing' = [stage |-> "answered",
                 listed |-> {[id |-> s, status |-> session[s].status] : s \in known}]
    /\ unlisted' = FALSE
    /\ UNCHANGED <<serverVars, switchVars, calls, made, listed>>

\* StopAllPortForwards, before the context is switched.
StopAll ==
    /\ switches < MaxSwitches /\ ~wedged
    /\ switches' = switches + 1 /\ behind' = TRUE
    /\ session' = [s \in Sessions |-> IF s \in known
           THEN [session[s] EXCEPT !.cancelled = TRUE, !.status = "stopped"]
           ELSE session[s]]
    /\ known' = {}
    /\ UNCHANGED <<wedged, calls, made, listed, listing, unlisted>>

-----------------------------------------------------------------------------
(* The requests of the page. *)

Call(kind, id, port, stage) ==
    /\ made < MaxCalls
    /\ made' = made + 1
    /\ calls' = calls \cup {[kind |-> kind, of |-> id, port |-> port, stage |-> stage, makes |-> 0]}
    /\ UNCHANGED <<serverVars, switchVars, listed, listing, unlisted>>

\* useStartPortForward
StartForward == Call("start", 0, 0, "post")

\* stopPortForward
Stop(x) ==
    /\ \A c \in calls : ~(c.kind = "stop" /\ c.of = x.id)
    /\ Call("stop", x.id, 0, "delete")

\* toggleListenAddress, with the port it has, and changeLocalPort.
ChangeForward(x, port) ==
    /\ x.status = "running" /\ \A c \in calls : ~(c.kind = "change" /\ c.of = x.id)
    /\ Call("change", x.id, port, "delete")

\* Mutant: a fetch under way is left to it.
ListAgainIfIdle == listing' = IF listing = ListIdle THEN ListAsked ELSE listing

\* invalidateQueries cancels the fetch under way.
ListAgain == listing' = ListAsked

\* The DELETE is answered; a change then sends its POST.
Deleted(c) ==
    /\ c.stage \in {"deleted", "refused"}
    /\ IF c.stage = "deleted" /\ c.kind = "change"
       THEN Advance(c, "post") /\ UNCHANGED listing
       ELSE calls' = calls \ {c} /\ ListAgain
    /\ UNCHANGED <<serverVars, switchVars, made, listed, unlisted>>

\* The POST is answered; only a start that fails has nothing fetched again.
Posted(c) ==
    /\ c.stage \in {"ok", "failed"}
    /\ calls' = calls \ {c}
    /\ IF c.stage = "failed" /\ c.kind = "start"
       THEN unlisted' = TRUE /\ UNCHANGED listing
       ELSE ListAgain /\ UNCHANGED unlisted
    /\ UNCHANGED <<serverVars, switchVars, made, listed>>

\* refetchInterval
Poll ==
    /\ listing = ListIdle /\ listing' = ListAsked
    /\ UNCHANGED <<serverVars, switchVars, calls, made, listed, unlisted>>

ListArrives ==
    /\ listing.stage = "answered"
    /\ listing' = ListIdle
    /\ listed' = listing.listed
    /\ UNCHANGED <<serverVars, switchVars, calls, made, unlisted>>

\* context_changed: the queries are removed and fetched again.
ListStartsOver ==
    /\ behind /\ behind' = FALSE
    /\ listed' = {}
    /\ listing' = ListAsked
    /\ UNCHANGED <<serverVars, switches, calls, made, unlisted>>

-----------------------------------------------------------------------------
PortForwardsNext ==
    \/ ServeList \/ StopAll \/ Poll \/ ListArrives \/ ListStartsOver \/ StartForward
    \/ \E s \in Sessions : \/ Listens(s) \/ ConnectionLost(s) \/ ForwardEnds(s)
                           \/ RunIsReady(s) \/ RunFails(s) \/ RunEnds(s)
    \/ \E c \in calls : \/ ServeDelete(c) \/ ServePost(c) \/ StartRefused(c)
                        \/ HandlerWakes(c) \/ Deleted(c) \/ Posted(c)
    \/ \E x \in listed : Stop(x) \/ \E p \in Ports : ChangeForward(x, p)

PortForwardsSpec == PortForwardsInit /\ [][PortForwardsNext]_portForwardsVars

-----------------------------------------------------------------------------
(* Properties. *)

\* A session in the table whose forward is over is listed as failed, however
\* its end and the handler that waits for its start come together.
StatusIsTruthful == \A s \in known : session[s].run = "done" => session[s].status = "error"

\* Once nothing is under way the page lists the sessions there are, whatever
\* fetches crossed the requests -- unless a start has failed, after which
\* nothing is fetched before the poll.
ListShowsTheSessions ==
    calls = {} /\ listing = ListIdle /\ ~behind /\ ~unlisted => {x.id : x \in listed} = known

\* "StopAllPortForwards stops all active port forward sessions": a forward whose
\* session is gone has been told to end.
StoppedForwardsEnd ==
    \A s \in Sessions \ known : session[s].forward = "listening" => session[s].stopped
=============================================================================

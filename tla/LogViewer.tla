----------------------------- MODULE LogViewer -----------------------------
(***************************************************************************)
(* A pod's log viewer (packages/k8s-ui/src/components/logs): LogsViewer    *)
(* loads a snapshot or opens a stream of the selected container,           *)
(* useLogStream keeps the one EventSource, useLogBuffer shows what comes,  *)
(* a frame later when it is streamed.  WorkloadLogsViewer is built alike.  *)
(*                                                                         *)
(* A line is its container and its number; a snapshot has all there are, a *)
(* stream replays them and follows.  A closed EventSource delivers nothing *)
(* more but an error event that may come late.  Effects run with the click *)
(* or the change that causes them.  Whether to follow is known once the    *)
(* pod's phase is (PodLogsTab, MultiPodLogsTab of WorkloadView).           *)
(***************************************************************************)
EXTENDS Naturals, Sequences

CONSTANTS
    Containers,
    MaxLines, \* bound: lines of each container
    MaxStarts \* bound: snapshots and streams asked for

\* Assumed of the constants wherever the module is instantiated.
LogViewerAssumption == MaxLines \in Nat /\ MaxStarts \in Nat

Lines == [container : Containers, number : 1 .. MaxLines]
Stages == {"none", "opening", "live", "ended", "failed"}

VARIABLES
    written,     \* server: lines of each container so far
    selected,    \* selectedContainer
    following,   \* willAutoStream: the pod's phase is known and is no final one
    userStopped, \* userStoppedRef
    source,      \* eventSourceRef: its container, stage, and lines delivered
    late,        \* a closed source has its error event yet to come
    isStreaming, streamError,
    loads,       \* snapshots under way, by container
    isLoading, fetchError,
    entries,     \* useLogBuffer: the lines shown ...
    unflushed,   \* ... and those that wait for the next frame
    starts,      \* snapshots and streams asked for so far
    loadedBeside \* history: a snapshot was under way beside a stream or another

logViewerVars == <<written, selected, following, userStopped, source, late, isStreaming,
                   streamError, loads, isLoading, fetchError, entries, unflushed, starts,
                   loadedBeside>>

NoSource(c) == [container |-> c, stage |-> "none", sent |-> 0]

LogViewerTypeOK ==
    /\ written \in [Containers -> 0 .. MaxLines] /\ selected \in Containers
    /\ following \in BOOLEAN /\ userStopped \in BOOLEAN
    /\ source \in [container : Containers, stage : Stages, sent : 0 .. MaxLines]
    /\ late \in BOOLEAN /\ isStreaming \in BOOLEAN /\ streamError \in BOOLEAN
    /\ loads \in [Containers -> 0 .. MaxStarts + 1] /\ isLoading \in BOOLEAN /\ fetchError \in BOOLEAN
    /\ entries \in Seq(Lines) /\ unflushed \in Seq(Lines)
    /\ starts \in 0 .. MaxStarts /\ loadedBeside \in BOOLEAN

Open(s) == s.stage \in {"opening", "live"}

\* Opened with the phase known to be a running pod's, or not known yet.
LogViewerInit ==
    /\ written = [c \in Containers |-> 0]
    /\ selected \in Containers
    /\ following \in BOOLEAN /\ userStopped = FALSE
    /\ source = [NoSource(selected) EXCEPT !.stage = IF following THEN "opening" ELSE "none"]
    /\ late = FALSE /\ isStreaming = FALSE /\ streamError = FALSE
    /\ loads = [c \in Containers |-> IF c = selected /\ ~following THEN 1 ELSE 0]
    /\ isLoading = ~following /\ fetchError = FALSE
    /\ entries = <<>> /\ unflushed = <<>> /\ starts = 0 /\ loadedBeside = FALSE

-----------------------------------------------------------------------------
(* useLogBuffer. *)

Append1(line) == unflushed' = Append(unflushed, line) /\ UNCHANGED entries
SetLines(lines) == entries' = lines /\ unflushed' = <<>>
KeepLines == UNCHANGED <<entries, unflushed>>

FlushPending ==
    /\ unflushed # <<>>
    /\ SetLines(entries \o unflushed)
    /\ UNCHANGED <<written, selected, following, userStopped, source, late, isStreaming,
                   streamError, loads, isLoading, fetchError, starts, loadedBeside>>

-----------------------------------------------------------------------------
(* useLogStream. *)

StopStreaming ==
    /\ source' = NoSource(selected')
    /\ late' = (late \/ Open(source))
    /\ isStreaming' = FALSE
    /\ streamError' = FALSE

\* Mutant: what is shown is kept when a stream starts.
StartKeepingLines(c) ==
    /\ source' = [NoSource(c) EXCEPT !.stage = "opening"]
    /\ late' = (late \/ Open(source))
    /\ streamError' = FALSE
    /\ KeepLines

\* handleStartStreaming, with startStreaming.
StartStreaming(c) ==
    /\ source' = [NoSource(c) EXCEPT !.stage = "opening"]
    /\ late' = (late \/ Open(source))
    /\ streamError' = FALSE
    /\ SetLines(<<>>)

Connected ==
    /\ source.stage = "opening"
    /\ source' = [source EXCEPT !.stage = "live"]
    /\ isStreaming' = TRUE
    /\ KeepLines
    /\ UNCHANGED <<written, selected, following, userStopped, late, streamError, loads,
                   isLoading, fetchError, starts, loadedBeside>>

StreamedLine ==
    /\ source.stage = "live" /\ source.sent < written[source.container]
    /\ source' = [source EXCEPT !.sent = @ + 1]
    /\ Append1([container |-> source.container, number |-> source.sent + 1])
    /\ UNCHANGED <<written, selected, following, userStopped, late, isStreaming, streamError,
                   loads, isLoading, fetchError, starts, loadedBeside>>

\* The container has ended; the error event that follows is no failure.
StreamEnd ==
    /\ source.stage = "live" /\ source.sent = written[source.container]
    /\ source' = [source EXCEPT !.stage = "ended"]
    /\ isStreaming' = FALSE
    /\ KeepLines
    /\ UNCHANGED <<written, selected, following, userStopped, late, streamError, loads,
                   isLoading, fetchError, starts, loadedBeside>>

StreamFails ==
    /\ Open(source)
    /\ source' = [source EXCEPT !.stage = "failed"]
    /\ isStreaming' = FALSE
    /\ streamError' = TRUE
    /\ KeepLines
    /\ UNCHANGED <<written, selected, following, userStopped, late, loads, isLoading,
                   fetchError, starts, loadedBeside>>

\* Mutant: the error of a source that was replaced counts for the new one.
AnyErrorCounts == isStreaming' = FALSE /\ streamError' = TRUE

IgnoreError == UNCHANGED <<isStreaming, streamError>>

\* A superseded source's error event: isCurrent is false.
LateError ==
    /\ late
    /\ late' = FALSE
    /\ IgnoreError
    /\ KeepLines
    /\ UNCHANGED <<written, selected, following, userStopped, source, loads, isLoading,
                   fetchError,
                   starts, loadedBeside>>

-----------------------------------------------------------------------------
(* LogsViewer. *)

Write(c) ==
    /\ written[c] < MaxLines
    /\ written' = [written EXCEPT ![c] = @ + 1]
    /\ KeepLines
    /\ UNCHANGED <<selected, following, userStopped, source, late, isStreaming, streamError,
                   loads, isLoading, fetchError, starts, loadedBeside>>

\* loadLogs
Load(c) ==
    /\ loads' = [loads EXCEPT ![c] = @ + 1]
    /\ isLoading' = TRUE
    /\ fetchError' = FALSE

\* Whichever answer comes last is shown, also one for another container.
LoadArrives(c) ==
    /\ loads[c] > 0
    /\ loads' = [loads EXCEPT ![c] = @ - 1]
    /\ isLoading' = FALSE
    /\ SetLines([n \in 1 .. written[c] |-> [container |-> c, number |-> n]])
    /\ UNCHANGED <<written, selected, following, userStopped, source, late, isStreaming,
                   streamError, fetchError, starts, loadedBeside>>

LoadFails(c) ==
    /\ loads[c] > 0
    /\ loads' = [loads EXCEPT ![c] = @ - 1]
    /\ isLoading' = FALSE
    /\ fetchError' = TRUE
    /\ KeepLines
    /\ UNCHANGED <<written, selected, following, userStopped, source, late, isStreaming,
                   streamError, starts, loadedBeside>>

Loading == {c \in Containers : loads[c] > 0}

Racing ==
    \E c \in Loading : Open(source) \/ loads[c] > 1 \/ Loading # {c}

Asking == starts < MaxStarts /\ starts' = starts + 1
Noted == loadedBeside' = (loadedBeside \/ Racing')

\* Following viewers stream the new container, others load it; the stream of
\* the old one is stopped in both.
SelectContainer(c) ==
    /\ c # selected /\ Asking
    /\ selected' = c
    /\ isStreaming' = FALSE
    /\ IF following /\ ~userStopped
       THEN StartStreaming(c) /\ UNCHANGED <<loads, isLoading, fetchError>>
       ELSE StopStreaming /\ Load(c) /\ KeepLines
    /\ UNCHANGED <<written, following, userStopped>>
    /\ Noted

\* Another time range, which a connected stream does not allow: a following
\* viewer streams again, others load again, and do not stop a stream that is
\* opening.
ChangeRange ==
    /\ ~isStreaming /\ Asking
    /\ IF following /\ ~userStopped
       THEN StartStreaming(selected) /\ UNCHANGED <<loads, isLoading, fetchError>>
       ELSE Load(selected) /\ KeepLines /\ UNCHANGED <<source, late, streamError>>
    /\ UNCHANGED <<written, selected, following, userStopped, isStreaming>>
    /\ Noted

Refresh ==
    /\ ~isStreaming /\ ~isLoading /\ Asking
    /\ ~(following /\ source.stage = "opening" /\ entries = <<>>)
    /\ Load(selected) /\ KeepLines
    /\ UNCHANGED <<written, selected, following, userStopped, source, late, isStreaming,
                   streamError>>
    /\ Noted

\* The phase has come: the pod runs.  The snapshot asked for is not given up.
StartFollowing ==
    /\ ~following /\ Asking
    /\ following' = TRUE
    /\ IF userStopped
       THEN Load(selected) /\ KeepLines /\ UNCHANGED <<source, late, streamError>>
       ELSE StartStreaming(selected) /\ UNCHANGED <<loads, isLoading, fetchError>>
    /\ UNCHANGED <<written, selected, userStopped, isStreaming>>
    /\ Noted

\* The pod has ended: a snapshot is loaded, and a stream that has connected is
\* stopped.
StopFollowing ==
    /\ following /\ Asking
    /\ following' = FALSE
    /\ Load(selected) /\ KeepLines
    /\ UNCHANGED <<written, selected, userStopped>>
    /\ IF isStreaming THEN StopStreaming
       ELSE UNCHANGED <<source, late, isStreaming, streamError>>
    /\ Noted

PressStart ==
    /\ ~isStreaming /\ Asking
    /\ StartStreaming(selected)
    /\ UNCHANGED <<written, selected, following, userStopped, isStreaming, loads, isLoading,
                   fetchError>>
    /\ Noted

PressStop ==
    /\ isStreaming
    /\ userStopped' = TRUE
    /\ UNCHANGED selected
    /\ StopStreaming
    /\ KeepLines
    /\ UNCHANGED <<written, following, loads, isLoading, fetchError, starts, loadedBeside>>

Clear ==
    /\ entries # <<>>
    /\ SetLines(<<>>)
    /\ UNCHANGED <<written, selected, following, userStopped, source, late, isStreaming,
                   streamError, loads, isLoading, fetchError, starts, loadedBeside>>

-----------------------------------------------------------------------------
LogViewerNext ==
    \/ FlushPending \/ Connected \/ StreamedLine \/ StreamEnd \/ StreamFails \/ LateError
    \/ ChangeRange \/ Refresh \/ StartFollowing \/ StopFollowing \/ PressStart \/ PressStop \/ Clear
    \/ \E c \in Containers : Write(c) \/ LoadArrives(c) \/ LoadFails(c) \/ SelectContainer(c)

LogViewerSpec == LogViewerInit /\ [][LogViewerNext]_logViewerVars

-----------------------------------------------------------------------------
(* Properties. *)

\* What is shown, with what waits for the next frame, is a part of one
\* container's log, each line once and in order, and once nothing is under way
\* of the selected one.  (Unless a snapshot was under way beside a stream or
\* another snapshot: the answers are not told apart.)
ShowsOneLog ==
    ~loadedBeside =>
        LET lines == entries \o unflushed
        IN  /\ \A i \in DOMAIN lines :
                lines[i] = [lines[1] EXCEPT !.number = @ + i - 1]
            /\ Loading = {} /\ ~fetchError /\ lines # <<>> => lines[1].container = selected

\* "Streaming" is shown of a source that is open, an error of one that has
\* failed.
StreamStateIsItsOwn ==
    /\ isStreaming => Open(source)
    /\ streamError => source.stage = "failed"
=============================================================================

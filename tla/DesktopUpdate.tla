---------------------------- MODULE DesktopUpdate ----------------------------
(***************************************************************************)
(* The desktop app's update of itself: internal/updater/updater.go behind  *)
(* the handlers of internal/server/desktop_update.go, and the notification *)
(* of the page, web/src/components/ui/UpdateNotification.tsx, that starts  *)
(* a download, polls for its outcome and has it applied.                   *)
(*                                                                         *)
(* An attempt is the number of its download.  Left out: progress, version  *)
(* and asset names, the cancel function, which nothing calls, dismissing   *)
(* the notification, and the new process of an update that was applied (a  *)
(* relaunch that fails leaves this one running).                           *)
(***************************************************************************)
EXTENDS Naturals

CONSTANTS
    MaxAttempts, \* bound: downloads ever started
    MaxApplies,  \* bound: clicks that apply an update
    MaxReloads   \* bound: reloads of the page

ASSUME DesktopUpdateAssumption ==
    MaxAttempts \in Nat /\ MaxApplies \in Nat /\ MaxReloads \in Nat

Attempts == 1 .. MaxAttempts

VARIABLES
    state,     \* of the Updater, like the next two
    asset,     \* the attempt whose file assetPath names, 0 for none
    err,       \* the attempt that failed last, 0 for none
    attempt,   \* the attempts so far
    download,  \* the doDownload of each attempt
    updating,  \* desktopUpdating of the page: it polls
    status,    \* what it polled last: the data of the query
    poll,      \* its poll under way
    start,     \* its request for a download under way
    apply,     \* its request to apply, not served yet (of two, one is refused)
    applies,   \* how often it has asked
    reloads,   \* of the page
    mine,      \* history: the last attempt this page knows it started
    overtaken  \* history: an answer from before that attempt ended its polling

updaterVars == <<state, asset, err, attempt, download>>
pageHistory == <<mine, overtaken>>
pageVars == <<updating, status, poll, start, apply, applies, reloads, pageHistory>>
desktopUpdateVars == <<updaterVars, pageVars>>

States == {"idle", "downloading", "ready", "applying", "error"}
Status == [state : States \cup {"none"}, of : 0 .. MaxAttempts]
NoStatus == [state |-> "none", of |-> 0]

DesktopUpdateTypeOK ==
    /\ state \in States
    /\ asset \in 0 .. MaxAttempts /\ err \in 0 .. MaxAttempts /\ attempt \in 0 .. MaxAttempts
    /\ download \in [Attempts -> {"none", "release", "asset", "checksum", "over"}]
    /\ updating \in BOOLEAN /\ status \in Status
    /\ poll \in [stage : {"idle", "asked", "answered"}, got : Status]
    /\ start \in [stage : {"idle", "asked", "accepted", "refused"}, of : 0 .. MaxAttempts]
    /\ apply \in BOOLEAN /\ applies \in 0 .. MaxApplies /\ reloads \in 0 .. MaxReloads
    /\ mine \in 0 .. MaxAttempts /\ overtaken \in BOOLEAN

NoPoll == [stage |-> "idle", got |-> NoStatus]
NoStart == [stage |-> "idle", of |-> 0]

DesktopUpdateInit ==
    /\ state = "idle" /\ asset = 0 /\ err = 0 /\ attempt = 0
    /\ download = [a \in Attempts |-> "none"]
    /\ updating = FALSE /\ status = NoStatus /\ poll = NoPoll /\ start = NoStart
    /\ apply = FALSE /\ applies = 0 /\ reloads = 0 /\ mine = 0 /\ overtaken = FALSE

-----------------------------------------------------------------------------
(* The Updater. *)

\* No update is being downloaded, ready or being applied.
MayStart == state \in {"idle", "error"}

Forget == err' = 0 /\ asset' = 0

\* StartDownload for the request under way, and the goroutine it spawns.
StartDownload ==
    /\ MayStart /\ attempt < MaxAttempts
    /\ attempt' = attempt + 1
    /\ download' = [download EXCEPT ![attempt + 1] = "release"]
    /\ state' = "downloading" /\ Forget
    /\ start' = [stage |-> "accepted", of |-> attempt + 1]
    /\ UNCHANGED <<updating, status, poll, apply, applies, reloads, pageHistory>>

\* 409
RefuseDownload ==
    /\ ~MayStart
    /\ start' = [stage |-> "refused", of |-> 0]
    /\ UNCHANGED <<updaterVars, updating, status, poll, apply, applies, reloads, pageHistory>>

ServeStart == start.stage = "asked" /\ (StartDownload \/ RefuseDownload)

\* doDownload: the release, its asset, the checksum.
DownloadAdvances(a) ==
    /\ \/ download[a] = "release" /\ download' = [download EXCEPT ![a] = "asset"]
       \/ download[a] = "asset" /\ download' = [download EXCEPT ![a] = "checksum"]
    /\ UNCHANGED <<state, asset, err, attempt, pageVars>>

DownloadFails(a) ==
    /\ download[a] \in {"release", "asset", "checksum"}
    /\ download' = [download EXCEPT ![a] = "over"]
    /\ state' = "error" /\ err' = a
    /\ UNCHANGED <<asset, attempt, pageVars>>

DownloadIsReady(a) ==
    /\ download[a] = "checksum"
    /\ download' = [download EXCEPT ![a] = "over"]
    /\ state' = "ready" /\ asset' = a
    /\ UNCHANGED <<err, attempt, pageVars>>

\* Apply up to applyUpdate, or its refusal.
ServeApply ==
    /\ apply /\ apply' = FALSE
    /\ state' = IF state = "ready" THEN "applying" ELSE state
    /\ UNCHANGED <<asset, err, attempt, download, updating, status, poll, start, applies,
                   reloads, pageHistory>>

ApplySucceeds ==
    /\ state = "applying" /\ state' = "idle"
    /\ UNCHANGED <<asset, err, attempt, download, pageVars>>

ApplyFails ==
    /\ state = "applying" /\ state' = "error" /\ err' = attempt
    /\ UNCHANGED <<asset, attempt, download, pageVars>>

-----------------------------------------------------------------------------
(* The page. *)

\* "Update Now", "Retry"
ClickStart ==
    /\ status.state \in {"none", "idle", "error"} /\ start.stage = "idle"
    /\ start' = [stage |-> "asked", of |-> 0]
    /\ UNCHANGED <<updaterVars, updating, status, poll, apply, applies, reloads, pageHistory>>

\* Mutant: the effect that stops polling runs when polling begins, too.
StartPollingUnlessOver == updating' = (status.state \notin {"error", "idle"})

StartPolling == updating' = TRUE

\* onSuccess of handleStartDesktopUpdate; a refusal is only reported.
StartAnswered ==
    /\ start.stage \in {"accepted", "refused"} /\ start' = NoStart
    /\ IF start.stage = "accepted" THEN StartPolling /\ mine' = start.of
       ELSE UNCHANGED <<updating, mine>>
    /\ UNCHANGED <<updaterVars, status, poll, apply, applies, reloads, overtaken>>

\* At once when the query is enabled, and every 500 ms.
PollAsks ==
    /\ updating /\ poll.stage = "idle" /\ poll' = [poll EXCEPT !.stage = "asked"]
    /\ UNCHANGED <<updaterVars, updating, status, start, apply, applies, reloads, pageHistory>>

PollIsServed ==
    /\ poll.stage = "asked"
    /\ poll' = [stage |-> "answered", got |-> [state |-> state, of |-> attempt]]
    /\ UNCHANGED <<updaterVars, updating, status, start, apply, applies, reloads, pageHistory>>

\* The effect on updateStatus.state runs when that has changed.
Stops(got) == got.state # status.state /\ got.state \in {"error", "idle"}

PollArrives ==
    /\ poll.stage = "answered" /\ poll' = NoPoll
    /\ status' = poll.got
    /\ updating' = (updating /\ ~Stops(poll.got))
    /\ overtaken' = (overtaken \/ (Stops(poll.got) /\ poll.got.of < mine))
    /\ UNCHANGED <<updaterVars, start, apply, applies, reloads, mine>>

\* "Restart Now"
ClickApply ==
    /\ status.state = "ready" /\ ~apply /\ applies < MaxApplies
    /\ apply' = TRUE /\ applies' = applies + 1
    /\ UNCHANGED <<updaterVars, updating, status, poll, start, reloads, pageHistory>>

\* A request the server has not read yet is lost with the page.
Reload ==
    /\ reloads < MaxReloads /\ reloads' = reloads + 1
    /\ updating' = FALSE /\ status' = NoStatus /\ poll' = NoPoll /\ start' = NoStart
    /\ apply' = FALSE /\ mine' = 0 /\ overtaken' = FALSE
    /\ UNCHANGED <<updaterVars, applies>>

-----------------------------------------------------------------------------

DownloadStep(a) == DownloadAdvances(a) \/ DownloadFails(a) \/ DownloadIsReady(a)

DesktopUpdateNext ==
    \/ ServeStart \/ \E a \in Attempts : DownloadStep(a)
    \/ ServeApply \/ ApplySucceeds \/ ApplyFails
    \/ ClickStart \/ StartAnswered \/ PollAsks \/ PollIsServed \/ PollArrives
    \/ ClickApply \/ Reload

\* Downloads are bounded by the timeouts of their HTTP clients, requests are
\* answered, and the interval of the poll comes round.
DesktopUpdateFairness ==
    /\ \A a \in Attempts : WF_desktopUpdateVars(DownloadStep(a))
    /\ WF_desktopUpdateVars(StartAnswered)
    /\ WF_desktopUpdateVars(PollAsks)
    /\ WF_desktopUpdateVars(PollIsServed)
    /\ WF_desktopUpdateVars(PollArrives)

DesktopUpdateSpec ==
    DesktopUpdateInit /\ [][DesktopUpdateNext]_desktopUpdateVars /\ DesktopUpdateFairness

-----------------------------------------------------------------------------

\* One download runs exactly while the state says so, and it is the last one:
\* two would write the same file, which Apply may be reading (StartDownload,
\* doDownload, Apply).
OneDownload ==
    \A a \in Attempts :
        download[a] \in {"release", "asset", "checksum"} <=> state = "downloading" /\ a = attempt

\* What is ready or being applied is the file of the last attempt, reported
\* without the error of one before it, and an error is that of the last one
\* (StartDownload, setError, Status).
OutcomeIsOfTheLastAttempt ==
    /\ state \in {"ready", "applying"} => asset = attempt /\ err = 0
    /\ state = "error" => err = attempt

\* The page that started a download comes to show its outcome, unless it is
\* reloaded, starts another, or a poll from before it is answered after it: a
\* retry is polled although the status it starts from is that of an update that
\* ended (UpdateNotification).
AttemptIsReported ==
    []<>(\/ mine = 0 \/ overtaken
         \/ status.of = mine /\ status.state # "downloading")
=============================================================================

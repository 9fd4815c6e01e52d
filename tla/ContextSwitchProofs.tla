------------------------ MODULE ContextSwitchProofs ------------------------
(***************************************************************************)
(* What holds of ContextSwitch for every set of requests and contexts.     *)
(* Whatever Overlap allows: type correctness, one init per Once, stopped   *)
(* informers are visible only inside a teardown, and the connecting screen *)
(* ends.  For handlers in series (Overlap = {}): the cluster named as      *)
(* connected is the one that is served, by one set of subsystems, and no   *)
(* informers are left behind.                                              *)
(***************************************************************************)
EXTENDS MCContextSwitch, TLAPS

USE DEF Goto, InitGoto, DiscGoto

\* The initial state is of the declared types.
LEMMA InitTypeOK == Init => TypeOK
  <1> SUFFICES ASSUME Init PROVE TypeOK
    OBVIOUS
  <1>1. status \in [state : States, context : Contexts]
    BY ContextsAssumption DEF Init, Status, States
  <1>2. /\ pc \in [Actors -> RequestPlaces \cup BootPlaces]
        /\ ipc \in [Actors -> InitPlaces]
        /\ dpc \in [Actors -> DiscPlaces]
    BY DEF Init, RequestPlaces, InitPlaces, DiscPlaces
  <1>3. QED
    BY ContextsAssumption, <1>1, <1>2 DEF Init, TypeOK

\* A request's steps preserve the types.
LEMMA RequestTypeOK ==
  ASSUME TypeOK, NEW r \in Requests, Begin(r) \/ RequestStep(r) \/ Expire(r)
  PROVE  TypeOK'
  <1>1. r \in Actors
    BY DEF Actors
  <1>2. CASE Begin(r)
    <2>1. PICK ctx \in Contexts : BeginSwitch(r, ctx)
      BY <1>2 DEF Begin, BeginRetry, TypeOK
    <2>2. QED
      BY <1>1, <2>1 DEF BeginSwitch, TypeOK, RequestPlaces,
         opVars, ctxVars, onceVars, cacheVars, dynVars, discVars
  <1>3. CASE RequestCancel(r)
    BY <1>1, <1>3 DEF RequestCancel, CancelOngoing, TypeOK, RequestPlaces,
       ctxVars, onceVars, cacheVars, dynVars, discVars
  <1>4. CASE ResetAux(r)
    BY <1>1, <1>4 DEF ResetAux, TypeOK, RequestPlaces,
       opVars, ctxVars, onceVars, cacheVars, dynVars, discVars
  <1>5. CASE ResetDynamic(r)
    BY <1>1, <1>5 DEF ResetDynamic, TypeOK, RequestPlaces,
       opVars, ctxVars, onceVars, cacheVars, discVars
  <1>6. CASE ResetDiscovery(r)
    BY <1>1, <1>6 DEF ResetDiscovery, TypeOK, RequestPlaces,
       opVars, ctxVars, onceVars, cacheVars, dynVars
  <1>7. CASE StopCache(r)
    BY <1>1, <1>7 DEF StopCache, TypeOK, RequestPlaces,
       opVars, ctxVars, onceVars, dynVars, discVars
  <1>8. CASE ClearCache(r)
    BY <1>1, <1>8 DEF ClearCache, TypeOK, RequestPlaces,
       opVars, ctxVars, dynVars, discVars
  <1>9. CASE ResetNoCache(r)
    BY <1>1, <1>9 DEF ResetNoCache, TypeOK, RequestPlaces,
       opVars, ctxVars, cacheVars, dynVars, discVars
  <1>10. CASE SwitchContextOk(r)
    BY <1>1, <1>10 DEF SwitchContextOk, TypeOK, RequestPlaces,
       ctxVars, onceVars, cacheVars, dynVars, discVars
  <1>11. CASE TestOk(r)
    BY <1>1, <1>11 DEF TestOk, TypeOK, RequestPlaces, InitPlaces,
       opVars, onceVars, cacheVars, dynVars, discVars
  <1>12. CASE SwitchContextFails(r) \/ TestFails(r) \/ InitOk(r) \/ InitFails(r)
    <2>1. PICK from \in RequestPlaces, s \in [state : States, context : Contexts] :
            Report(r, from, s)
      BY <1>1, <1>12 DEF SwitchContextFails, TestFails, InitOk, InitFails,
         Status, States, TypeOK, RequestPlaces
    <2>2. QED
      BY <1>1, <2>1 DEF Report, TypeOK, RequestPlaces,
         opVars, ctxVars, onceVars, cacheVars, dynVars, discVars
  <1>13. CASE Expire(r)
    BY <1>1, <1>13 DEF Expire, TypeOK, orchVars,
       opVars, onceVars, cacheVars, dynVars, discVars
  <1>14. QED
    BY <1>2, <1>3, <1>4, <1>5, <1>6, <1>7, <1>8, <1>9, <1>10, <1>11, <1>12, <1>13
    DEF RequestStep, Reset

\* The boot sequence's steps preserve the types.
LEMMA BootTypeOK == TypeOK /\ BootStep => TypeOK'
  <1> SUFFICES ASSUME TypeOK, BootStep PROVE TypeOK'
    OBVIOUS
  <1>1. Boot \in Actors
    BY DEF Actors
  <1>2. CASE BootCancel
    BY <1>1, <1>2 DEF BootCancel, CancelOngoing, TypeOK, BootPlaces,
       ctxVars, onceVars, cacheVars, dynVars, discVars
  <1>3. CASE BootStart
    BY <1>1, <1>3 DEF BootStart, TypeOK, BootPlaces, InitPlaces, Status, States,
       opVars, onceVars, cacheVars, dynVars, discVars
  <1>4. CASE VersionFails
    BY <1>1, <1>4 DEF VersionFails, TypeOK, BootPlaces, Status, States,
       opVars, onceVars, cacheVars, dynVars, discVars
  <1>5. CASE VersionRetry \/ VersionOk \/ BootOk \/ BootFails
    <2>1. PICK from \in BootPlaces, to \in BootPlaces,
               s \in [state : States, context : Contexts] : BootMoves(from, to, s)
      BY <1>5 DEF VersionRetry, VersionOk, BootOk, BootFails,
         Status, States, TypeOK, BootPlaces
    <2>2. QED
      BY <1>1, <2>1 DEF BootMoves, TypeOK,
         opVars, ctxVars, onceVars, cacheVars, dynVars, discVars
  <1>6. QED
    BY <1>2, <1>3, <1>4, <1>5 DEF BootStep

\* The steps of InitAllSubsystems preserve the types.
LEMMA InitStepTypeOK ==
  ASSUME TypeOK, NEW a \in Actors, InitStep(a)
  PROVE  TypeOK'
  <1> USE DEF InitPlaces
  <1>1. Status("connecting", client) \in [state : States, context : Contexts]
    BY DEF TypeOK, Status, States
  <1>2. CASE InitStart(a)
    BY <1>1, <1>2 DEF InitStart, Progress, TypeOK, DiscPlaces, opVars, orchVars,
       ctxVars, onceVars, cacheVars, dynVars
  <1>3. CASE OnceRun(a)
    BY <1>3 DEF OnceRun, TypeOK, opVars, orchVars, ctxVars, cacheVars, dynVars,
       discVars
  <1>4. CASE OnceBlock(a)
    BY <1>4 DEF OnceBlock, TypeOK, opVars, orchVars, ctxVars, cacheVars, dynVars,
       discVars
  <1>5. CASE OnceSkip(a) \/ OnceReleased(a)
    <2>1. /\ ipc' = [ipc EXCEPT ![a] = "loaded"]
          /\ UNCHANGED <<opVars, status, orchVars, ctxVars, onceVars, cacheVars, dynVars,
                         discVars, metrics>>
      BY <1>5 DEF OnceSkip, OnceReleased
    <2>2. ipc' \in [Actors -> InitPlaces]
      BY <2>1 DEF TypeOK
    <2> QED
      BY <2>1, <2>2 DEF TypeOK, opVars, orchVars, ctxVars, onceVars, cacheVars, dynVars, discVars
  <1>6. CASE ProbesCancelled(a)
    <2>1. /\ ipc' = [ipc EXCEPT ![a] = "err"]
          /\ OnceReturns(a)
          /\ UNCHANGED <<opVars, status, orchVars, ctxVars, cacheOnce, ran, waits, cacheVars,
                         dynVars, discVars, metrics>>
      BY <1>6 DEF ProbesCancelled
    <2>2. /\ ipc' \in [Actors -> InitPlaces]
          /\ onceBusy' \subseteq Nat /\ onceDone' \subseteq Nat \cup {None}
      BY <2>1 DEF TypeOK, OnceReturns
    <2> QED
      BY <2>1, <2>2 DEF TypeOK, opVars, orchVars, ctxVars, cacheVars, dynVars, discVars
  <1>7. CASE StartInformers(a)
    <2>1. /\ ipc' = [ipc EXCEPT ![a] = "sync"]
          /\ informers' = [informers EXCEPT ![a] = "live"]
          /\ built' = [built EXCEPT ![a] = client]
          /\ UNCHANGED <<opVars, status, orchVars, ctxVars, onceVars, resourceCache,
                         dynVars, discVars, metrics>>
      BY <1>7 DEF StartInformers
    <2>2. /\ ipc' \in [Actors -> InitPlaces]
          /\ informers' \in [Actors -> {"none", "live", "stopped"}]
          /\ built' \in [Actors -> Contexts \cup {None}]
      BY <2>1 DEF TypeOK
    <2> QED
      BY <2>1, <2>2 DEF TypeOK, opVars, orchVars, ctxVars, onceVars, dynVars, discVars
  <1>8. CASE InstallCache(a)
    <2>1. /\ ipc' = [ipc EXCEPT ![a] = "loaded"] /\ resourceCache' = a
          /\ OnceReturns(a)
          /\ UNCHANGED <<opVars, status, orchVars, ctxVars, cacheOnce, ran, waits, informers,
                         built, dynVars, discVars, metrics>>
      BY <1>8 DEF InstallCache
    <2>2. /\ ipc' \in [Actors -> InitPlaces] /\ resourceCache' \in Actors \cup {None}
          /\ onceBusy' \subseteq Nat /\ onceDone' \subseteq Nat \cup {None}
      BY <2>1 DEF TypeOK, OnceReturns
    <2> QED
      BY <2>1, <2>2 DEF TypeOK, opVars, orchVars, ctxVars, dynVars, discVars
  <1>9. CASE CacheLoaded(a) \/ DiscoveryJoined(a) \/ Bail(a)
    <2>1. /\ \E to \in {"await", "dynRead", "err"} : ipc' = [ipc EXCEPT ![a] = to]
          /\ UNCHANGED <<opVars, status, orchVars, ctxVars, onceVars, cacheVars, dynVars,
                         discVars, metrics>>
      BY <1>9 DEF CacheLoaded, DiscoveryJoined, Bail, InitMoves
    <2>2. ipc' \in [Actors -> InitPlaces]
      BY <2>1 DEF TypeOK
    <2> QED
      BY <2>1, <2>2 DEF TypeOK, opVars, orchVars, ctxVars, onceVars, cacheVars, dynVars, discVars
  <1>10. CASE ReadCacheForDynamic(a)
    BY <1>1, <1>10 DEF ReadCacheForDynamic, Progress, TypeOK, opVars, orchVars,
       ctxVars, onceVars, cacheVars, discVars
  <1>11. CASE MakeDynamic(a)
    BY <1>11 DEF MakeDynamic, TypeOK, Dynamics, opVars, orchVars, ctxVars,
       onceVars, cacheVars, discVars
  <1>12. CASE InitAux(a)
    BY <1>12 DEF InitAux, TypeOK, opVars, orchVars, ctxVars, onceVars, cacheVars,
       dynVars, discVars
  <1>13. QED
    BY <1>2, <1>3, <1>4, <1>5, <1>6, <1>7, <1>8, <1>9, <1>10, <1>11, <1>12
    DEF InitStep

\* The steps of the discovery goroutine preserve the types.
LEMMA DiscoveryTypeOK ==
  ASSUME TypeOK, NEW a \in Actors, DiscoveryStep(a)
  PROVE  TypeOK'
  <1> USE DEF DiscPlaces
  <1>1. CASE DiscoverySkips(a) \/ DiscoveryReleased(a)
    <2>1. /\ dpc' = [dpc EXCEPT ![a] = "done"]
          /\ UNCHANGED <<opVars, status, orchVars, ctxVars, ipc, onceVars, cacheVars, dynVars,
                         discovery, discOnce, discRun, discDone, described, metrics>>
      BY <1>1 DEF DiscoverySkips, DiscoveryReleased
    <2>2. dpc' \in [Actors -> DiscPlaces]
      BY <2>1 DEF TypeOK
    <2> QED
      BY <2>1, <2>2 DEF TypeOK, opVars, orchVars, ctxVars, onceVars, cacheVars, dynVars
  <1>2. CASE DiscoveryRuns(a)
    BY <1>2 DEF DiscoveryRuns, TypeOK, opVars, orchVars, ctxVars, onceVars,
       cacheVars, dynVars
  <1>3. CASE DiscoveryBlocks(a)
    BY <1>3 DEF DiscoveryBlocks, TypeOK, opVars, orchVars, ctxVars, onceVars,
       cacheVars, dynVars
  <1>4. CASE DiscoveryOk(a) \/ DiscoveryFails(a)
    <2>1. PICK answer \in Contexts \cup {None} : DiscoveryReturns(a, answer)
      BY <1>4 DEF DiscoveryOk, DiscoveryFails, TypeOK
    <2>2. /\ dpc' = [dpc EXCEPT ![a] = "done"] /\ discovery' = answer
          /\ discDone' = discDone \cup {discRun[a]}
          /\ UNCHANGED <<opVars, status, orchVars, ctxVars, ipc, onceVars, cacheVars, dynVars,
                         discOnce, discRun, described, metrics>>
      BY <2>1 DEF DiscoveryReturns
    <2>3. /\ dpc' \in [Actors -> DiscPlaces] /\ discovery' \in Contexts \cup {None}
          /\ discDone' \subseteq Nat \cup {None}
      BY <2>2 DEF TypeOK
    <2> QED
      BY <2>2, <2>3 DEF TypeOK, opVars, orchVars, ctxVars, onceVars, cacheVars, dynVars
  <1>5. QED
    BY <1>1, <1>2, <1>3, <1>4 DEF DiscoveryStep

\* Every step of the system preserves the type invariant.
LEMMA TypeStep == TypeOK /\ [Next]_vars => TypeOK'
  <1>1. TypeOK /\ UNCHANGED vars => TypeOK'
    BY DEF TypeOK, vars, opVars, orchVars, ctxVars, onceVars, cacheVars,
       dynVars, discVars
  <1>2. QED
    BY <1>1, RequestTypeOK, BootTypeOK, InitStepTypeOK, DiscoveryTypeOK
    DEF Next, Rest

\* Every variable of ContextSwitch stays in its declared type, whatever
\* requests overlap.
THEOREM TypeCorrect == Spec => []TypeOK
  BY InitTypeOK, TypeStep, PTL DEF Spec

-----------------------------------------------------------------------------
(***************************************************************************)
(* One init per Once.  What makes it inductive: a Once whose function some *)
(* actor ran is busy or done for good, and OnceRun takes neither.          *)
(***************************************************************************)
RanIsTaken ==
    \A a \in Actors : ran[a] # None => ran[a] \in onceBusy \cup onceDone

OnceInv == TypeOK /\ RanIsTaken /\ OneInitPerOnce

\* Only a run of the Once's function and its return touch the Once.
LEMMA OnceSteps ==
  ASSUME [Next]_vars
  PROVE  \/ UNCHANGED <<ran, onceBusy, onceDone>>
         \/ \E a \in Actors : OnceRun(a) \/ (OnceReturns(a) /\ ran' = ran)
  <1>1. CASE UNCHANGED vars
    BY <1>1 DEF vars, onceVars
  <1>2. ASSUME NEW r \in Requests, Begin(r) \/ RequestStep(r) \/ Expire(r)
        PROVE  UNCHANGED <<ran, onceBusy, onceDone>>
    BY <1>2 DEF Begin, BeginRetry, BeginSwitch, RequestStep, RequestCancel, Reset,
       ResetAux, ResetDynamic, ResetDiscovery, StopCache, ClearCache,
       ResetNoCache, SwitchContextOk, SwitchContextFails, TestOk, TestFails,
       InitOk, InitFails, Report, Expire, onceVars
  <1>3. CASE BootStep
    BY <1>3 DEF BootStep, BootCancel, BootStart, VersionRetry, VersionOk,
       VersionFails, BootOk, BootFails, BootMoves, onceVars
  <1>4. ASSUME NEW a \in Actors, InitStep(a)
        PROVE  \/ UNCHANGED <<ran, onceBusy, onceDone>>
               \/ OnceRun(a) \/ (OnceReturns(a) /\ ran' = ran)
    BY <1>4 DEF InitStep, InitStart, OnceBlock, OnceSkip, OnceReleased,
       ProbesCancelled, StartInformers, InstallCache, CacheLoaded,
       DiscoveryJoined, Bail, InitMoves, ReadCacheForDynamic, MakeDynamic,
       InitAux, onceVars
  <1>5. ASSUME NEW a \in Actors, DiscoveryStep(a)
        PROVE  UNCHANGED <<ran, onceBusy, onceDone>>
    BY <1>5 DEF DiscoveryStep, DiscoverySkips, DiscoveryRuns, DiscoveryBlocks,
       DiscoveryReleased, DiscoveryOk, DiscoveryFails, DiscoveryReturns, onceVars
  <1>6. QED
    BY <1>1, <1>2, <1>3, <1>4, <1>5 DEF Next, Rest, vars, onceVars

\* sync.Once as InitResourceCache uses it: whatever handlers overlap, no two of
\* them run its function between two teardowns.
THEOREM OneInitPerOnceHolds == Spec => []OneInitPerOnce
  <1>1. Init => OnceInv
    BY InitTypeOK DEF Init, OnceInv, RanIsTaken, OneInitPerOnce
  <1>2. OnceInv /\ [Next]_vars => OnceInv'
    <2> SUFFICES ASSUME OnceInv, [Next]_vars PROVE OnceInv'
      OBVIOUS
    <2>1. TypeOK'
      BY TypeStep DEF OnceInv
    <2>2. CASE UNCHANGED <<ran, onceBusy, onceDone>>
      BY <2>1, <2>2 DEF OnceInv, RanIsTaken, OneInitPerOnce
    <2>3. ASSUME NEW a \in Actors, OnceRun(a)
          PROVE  RanIsTaken' /\ OneInitPerOnce'
      BY <2>3, ActorsAssumption
      DEF OnceInv, TypeOK, RanIsTaken, OneInitPerOnce, OnceRun
    <2>4. ASSUME NEW a \in Actors, OnceReturns(a), ran' = ran
          PROVE  RanIsTaken' /\ OneInitPerOnce'
      BY <2>4 DEF OnceInv, RanIsTaken, OneInitPerOnce, OnceReturns
    <2>5. QED
      BY <2>1, <2>2, <2>3, <2>4, OnceSteps DEF OnceInv
  <1>3. OnceInv => OneInitPerOnce
    BY DEF OnceInv
  <1>4. QED
    BY <1>1, <1>2, <1>3, PTL DEF Spec

-----------------------------------------------------------------------------
(***************************************************************************)
(* Stopped informers are visible only in a teardown.  What makes it        *)
(* inductive: the global names an actor whose init has installed, and an   *)
(* init about to install has live informers.                               *)
(***************************************************************************)
BeforeInstall == {"off", "start", "once", "blocked", "probe", "sync"}

PublishedIsInstalled ==
    resourceCache # None => ipc[resourceCache] \notin BeforeInstall

AboutToInstallIsLive ==
    \A a \in Actors : ipc[a] = "sync" => informers[a] = "live"

TeardownInv == /\ TypeOK /\ PublishedIsInstalled /\ AboutToInstallIsLive
               /\ StoppedCacheOnlyInTeardown

\* A step that leaves the caches alone, keeps every teardown in its critical
\* section and neither enters nor leaves "sync" preserves the invariant.
LEMMA QuietStep ==
  ASSUME TeardownInv, UNCHANGED cacheVars,
         \A r \in Requests : pc[r] = "clearCache" => pc'[r] = "clearCache",
         \A a \in Actors : /\ ipc'[a] = "sync" => ipc[a] = "sync"
                           /\ ipc[a] \notin BeforeInstall => ipc'[a] \notin BeforeInstall
  PROVE  PublishedIsInstalled' /\ AboutToInstallIsLive' /\ StoppedCacheOnlyInTeardown'
  BY DEF TeardownInv, TypeOK, PublishedIsInstalled, AboutToInstallIsLive,
     StoppedCacheOnlyInTeardown, cacheVars

\* A handler preserves it: the Stop leaves a stopped cache installed only with
\* the handler at clearCache, and the assignment of nil removes it.
LEMMA TeardownRequestStep ==
  ASSUME TeardownInv, NEW r \in Requests, Begin(r) \/ RequestStep(r) \/ Expire(r)
  PROVE  PublishedIsInstalled' /\ AboutToInstallIsLive' /\ StoppedCacheOnlyInTeardown'
  <1>1. r \in Actors
    BY DEF Actors
  <1>2. CASE StopCache(r)
    BY <1>1, <1>2, ActorsAssumption
    DEF StopCache, TeardownInv, TypeOK, PublishedIsInstalled,
        AboutToInstallIsLive, StoppedCacheOnlyInTeardown, BeforeInstall
  <1>3. CASE ClearCache(r)
    BY <1>1, <1>3 DEF ClearCache, TeardownInv, TypeOK, PublishedIsInstalled,
       AboutToInstallIsLive, StoppedCacheOnlyInTeardown
  <1>4. CASE TestOk(r)
    BY <1>1, <1>4, QuietStep DEF TestOk, TeardownInv, TypeOK, BeforeInstall
  <1>5. CASE Begin(r) \/ RequestCancel(r) \/ ResetAux(r) \/ ResetDynamic(r)
             \/ ResetDiscovery(r) \/ ResetNoCache(r) \/ SwitchContextOk(r) \/ Expire(r)
    <2>1. UNCHANGED <<cacheVars, ipc>>
      BY <1>5 DEF Begin, BeginRetry, BeginSwitch, RequestCancel, ResetAux,
         ResetDynamic, ResetDiscovery, ResetNoCache, SwitchContextOk, Expire
    <2>2. \/ UNCHANGED pc
          \/ /\ pc[r] # "clearCache"
             /\ \E to : pc' = [pc EXCEPT ![r] = to]
      BY <1>5 DEF Begin, BeginRetry, BeginSwitch, RequestCancel, ResetAux,
         ResetDynamic, ResetDiscovery, ResetNoCache, SwitchContextOk, Expire, orchVars
    <2>3. \A q \in Requests : pc[q] = "clearCache" => pc'[q] = "clearCache"
      BY <1>1, <2>2 DEF TeardownInv, TypeOK, Actors
    <2>4. QED
      BY <2>1, <2>3, QuietStep
  <1>6. CASE SwitchContextFails(r) \/ TestFails(r) \/ InitOk(r) \/ InitFails(r)
    <2>1. UNCHANGED <<cacheVars, ipc>>
      BY <1>6 DEF SwitchContextFails, TestFails, InitOk, InitFails, Report
    <2>2. pc[r] # "clearCache" /\ pc' = [pc EXCEPT ![r] = "done"]
      BY <1>6 DEF SwitchContextFails, TestFails, InitOk, InitFails, Report
    <2>3. QED
      BY <1>1, <2>1, <2>2, QuietStep DEF TeardownInv, TypeOK
  <1>7. QED
    BY <1>2, <1>3, <1>4, <1>5, <1>6 DEF RequestStep, Reset

\* InitAllSubsystems preserves it: what it installs it has just started, and
\* only a published cache can have been stopped.
LEMMA TeardownInitStep ==
  ASSUME TeardownInv, NEW a \in Actors, InitStep(a)
  PROVE  PublishedIsInstalled' /\ AboutToInstallIsLive' /\ StoppedCacheOnlyInTeardown'
  <1>1. CASE StartInformers(a)
    BY <1>1 DEF StartInformers, TeardownInv, TypeOK, PublishedIsInstalled,
       AboutToInstallIsLive, StoppedCacheOnlyInTeardown, BeforeInstall, orchVars
  <1>2. CASE InstallCache(a)
    BY <1>2 DEF InstallCache, TeardownInv, TypeOK, PublishedIsInstalled,
       AboutToInstallIsLive, StoppedCacheOnlyInTeardown, BeforeInstall, orchVars
  <1>3. CASE InitStart(a) \/ OnceRun(a) \/ OnceBlock(a) \/ OnceSkip(a)
             \/ OnceReleased(a) \/ ProbesCancelled(a)
    BY <1>3, QuietStep DEF InitStart, OnceRun, OnceBlock, OnceSkip, OnceReleased,
       ProbesCancelled, TeardownInv, TypeOK, BeforeInstall, orchVars
  <1>4. CASE CacheLoaded(a) \/ DiscoveryJoined(a) \/ Bail(a)
             \/ ReadCacheForDynamic(a) \/ MakeDynamic(a) \/ InitAux(a)
    BY <1>4, QuietStep DEF CacheLoaded, DiscoveryJoined, Bail, InitMoves,
       ReadCacheForDynamic, MakeDynamic, InitAux, TeardownInv, TypeOK,
       BeforeInstall, orchVars
  <1>5. QED
    BY <1>1, <1>2, <1>3, <1>4 DEF InitStep

\* The boot sequence and the discovery goroutines touch no cache.
LEMMA TeardownOtherStep ==
  ASSUME TeardownInv,
         \/ BootStep \/ Rest \/ UNCHANGED vars
         \/ \E a \in Actors : DiscoveryStep(a)
  PROVE  PublishedIsInstalled' /\ AboutToInstallIsLive' /\ StoppedCacheOnlyInTeardown'
  <1>1. CASE Rest \/ UNCHANGED vars
    BY <1>1, QuietStep DEF Rest, vars, orchVars
  <1>2. CASE BootStep
    <2>1. Boot \in Actors /\ Boot \notin Requests
      BY ActorsAssumption DEF Actors
    <2>2. CASE BootStart
      BY <2>1, <2>2, QuietStep DEF BootStart, TeardownInv, TypeOK, BeforeInstall
    <2>3. CASE BootCancel \/ VersionRetry \/ VersionOk \/ VersionFails \/ BootOk \/ BootFails
      <3>1. UNCHANGED <<cacheVars, ipc>> /\ \E to : pc' = [pc EXCEPT ![Boot] = to]
        BY <2>3 DEF BootCancel, VersionRetry, VersionOk, VersionFails, BootOk,
           BootFails, BootMoves
      <3>2. QED
        BY <2>1, <3>1, QuietStep DEF TeardownInv, TypeOK
    <2>4. QED
      BY <1>2, <2>2, <2>3 DEF BootStep
  <1>3. ASSUME NEW a \in Actors, DiscoveryStep(a)
        PROVE  UNCHANGED <<cacheVars, pc, ipc>>
    BY <1>3 DEF DiscoveryStep, DiscoverySkips, DiscoveryRuns, DiscoveryBlocks,
       DiscoveryReleased, DiscoveryOk, DiscoveryFails, DiscoveryReturns, orchVars
  <1>4. QED
    BY <1>1, <1>2, <1>3, QuietStep

\* GetResourceCache hands out stopped informers only while some request is
\* between the Stop and the nil of ResetResourceCache, whatever overlaps.
THEOREM StoppedCacheOnlyInTeardownHolds == Spec => []StoppedCacheOnlyInTeardown
  <1>1. Init => TeardownInv
    BY InitTypeOK DEF Init, TeardownInv, PublishedIsInstalled,
       AboutToInstallIsLive, StoppedCacheOnlyInTeardown
  <1>2. TeardownInv /\ [Next]_vars => TeardownInv'
    BY TypeStep, TeardownRequestStep, TeardownInitStep, TeardownOtherStep
    DEF TeardownInv, Next
  <1>3. TeardownInv => StoppedCacheOnlyInTeardown
    BY DEF TeardownInv
  <1>4. QED
    BY <1>1, <1>2, <1>3, PTL DEF Spec
-----------------------------------------------------------------------------
(***************************************************************************)
(* Handlers in series: with Overlap = {} a handler begins once the boot is *)
(* over and nothing of an earlier one runs.  Turns says that at most one   *)
(* actor is at work, so that what it finds stays as it is until its own    *)
(* next step; the other parts follow the cluster through the teardown, the *)
(* switch of the clients and the init.                                     *)
(***************************************************************************)
Busy(a) == Active(a) \/ InitRunning(a) \/ DiscRunning(a)

BeforeInit == {"idle", "begun", "resetAux", "resetDynamic", "resetDiscovery",
               "resetCache", "clearCache", "swap", "test"}

OneAtATime == \A a, b \in Actors : Busy(a) /\ Busy(b) => a = b
BootComesFirst == pc[Boot] # "done" => \A r \in Requests : pc[r] = "idle"
NoInitYet == \A a \in Actors : pc[a] \in BeforeInit => ipc[a] = "off" /\ dpc[a] = "off"
Turns == OneAtATime /\ BootComesFirst /\ NoInitYet

\* Between the teardown and the run of the Once's function there is no cache,
\* and the Once is a new one: nobody finds it done, or blocks on it.
Vacant == cacheOnce \notin onceBusy \cup onceDone /\ resourceCache = None
OnceIsFresh ==
    /\ \A n \in onceBusy \cup onceDone : n \in 0 .. cacheOnce
    /\ \A a \in Actors : pc[a] \in {"swap", "test"} \/ ipc[a] \in {"start", "once"} => Vacant
    /\ pc[Boot] \in {"idle", "begun"} => Vacant
    /\ \A a \in Actors :
           ipc[a] \in {"probe", "sync"} => ran[a] = cacheOnce /\ resourceCache = None
    /\ \A a \in Actors : ipc[a] # "blocked"

\* The cache is of the cluster that the clients lead to, and an actor past the
\* Once has made it.
Loaded(a) == \/ ipc[a] \in {"loaded", "await", "dynRead", "dynMake", "aux"}
             \/ ipc[a] = "ok" /\ pc[a] # "done"
CacheIsOfClient ==
    /\ resourceCache # None =>
           built[resourceCache] = client /\ informers[resourceCache] # "none"
    /\ \A a \in Actors : ipc[a] = "sync" => built[a] = client /\ informers[a] = "live"
    /\ \A a \in Actors : Loaded(a) => resourceCache = a
    /\ \A a \in Actors : pc[a] = "clearCache" =>
           resourceCache # None /\ informers[resourceCache] = "stopped"

DiscoveryIsOfClient ==
    /\ discovery \in {None, client}
    /\ pc[Boot] \in {"idle", "begun"} => discovery = None
    /\ \A a \in Actors : pc[a] \in {"resetCache", "clearCache", "swap"} => discovery = None
    /\ \A a \in Actors : dpc[a] = "running" => described[a] = client

\* The dynamic cache is the first to go and comes after all it depends on.
BeforeDynamic == {"start", "once", "probe", "sync", "loaded", "await", "dynRead", "dynMake"}
DynamicComesLast ==
    /\ pc[Boot] \in {"idle", "begun"} => dynamic = None
    /\ \A a \in Actors :
           \/ pc[a] \in {"resetDiscovery", "resetCache", "clearCache", "swap", "test"}
           \/ ipc[a] \in BeforeDynamic
           => dynamic = None
    /\ \A a \in Actors : ipc[a] = "dynMake" => feeds[a] = resourceCache

\* What "connected" promises once the handler is over.
ConnectedIsServed ==
    status.state = "connected" /\ (\A a \in Actors : ~Active(a)) =>
        resourceCache # None /\ status.context = client

ClusterInv == /\ OnceIsFresh /\ CacheIsOfClient /\ DiscoveryIsOfClient
              /\ DynamicComesLast /\ ConnectedIsServed
              /\ SubsystemsOnOneCluster /\ NoOrphanInformers
SeriesInv == TypeOK /\ Turns /\ TeardownInv /\ ClusterInv

\* What a step of InitAllSubsystems leaves alone: only its own places move.
LEMMA InitStepFrame ==
  ASSUME TypeOK, NEW a \in Actors, InitStep(a)
  PROVE  /\ ipc[a] \notin {"off", "ok", "err"} /\ ipc'[a] # "off"
         /\ \A b \in Actors : b # a => ipc'[b] = ipc[b] /\ dpc'[b] = dpc[b]
         /\ dpc'[a] \in {dpc[a], "off", "spawned"}
         /\ UNCHANGED <<pc, opCtx, client, discovery, discOnce, discRun, discDone, described>>
  <1> USE DEF TypeOK
  <1>1. CASE InitStart(a)
    BY <1>1 DEF InitStart, opVars, orchVars
  <1>2. ASSUME UNCHANGED <<opVars, orchVars, discVars>>,
               NEW from \in InitPlaces \ {"off", "ok", "err"}, NEW to \in InitPlaces \ {"off"},
               InitGoto(a, from, to)
        PROVE  /\ ipc[a] \notin {"off", "ok", "err"} /\ ipc'[a] # "off"
               /\ \A b \in Actors : b # a => ipc'[b] = ipc[b] /\ dpc'[b] = dpc[b]
               /\ dpc'[a] \in {dpc[a], "off", "spawned"}
               /\ UNCHANGED <<pc, opCtx, client, discovery, discOnce, discRun, discDone, described>>
    BY <1>2 DEF opVars, orchVars, discVars
  <1> DEFINE Moves == /\ UNCHANGED <<opVars, orchVars, discVars>>
                      /\ \E from \in InitPlaces \ {"off", "ok", "err"} :
                         \E to \in InitPlaces \ {"off"} : InitGoto(a, from, to)
  <1>3. CASE OnceRun(a) \/ OnceBlock(a) \/ OnceSkip(a) \/ OnceReleased(a)
    <2>1. Moves
      BY <1>3 DEF OnceRun, OnceBlock, OnceSkip, OnceReleased, InitPlaces
    <2> QED BY <2>1, <1>2
  <1>4. CASE ProbesCancelled(a) \/ StartInformers(a) \/ InstallCache(a)
    <2>1. Moves
      BY <1>4 DEF ProbesCancelled, StartInformers, InstallCache, InitPlaces
    <2> QED BY <2>1, <1>2
  <1>5. CASE CacheLoaded(a) \/ DiscoveryJoined(a) \/ Bail(a)
    <2>1. Moves
      BY <1>5 DEF CacheLoaded, DiscoveryJoined, Bail, InitMoves, InitPlaces
    <2> QED BY <2>1, <1>2
  <1>6. CASE ReadCacheForDynamic(a) \/ MakeDynamic(a) \/ InitAux(a)
    <2>1. Moves
      BY <1>6 DEF ReadCacheForDynamic, MakeDynamic, InitAux, InitPlaces
    <2> QED BY <2>1, <1>2
  <1> QED
    BY <1>1, <1>3, <1>4, <1>5, <1>6 DEF InitStep

\* What a request's steps leave alone.
LEMMA RequestStepFrame ==
  ASSUME TypeOK, NEW r \in Requests, RequestStep(r)
  PROVE  /\ pc[r] \notin {"idle", "done"} /\ pc'[r] # "idle"
         /\ pc'[r] \in BeforeInit => pc[r] \in BeforeInit
         /\ \A b \in Actors : b # r => pc'[b] = pc[b] /\ ipc'[b] = ipc[b]
         /\ \/ ipc'[r] = ipc[r]
            \/ pc'[r] = "init" /\ ipc'[r] = "start"
         /\ dpc' = dpc
  <1>0. r \in Actors
    BY DEF Actors
  <1>t. pc \in [Actors -> RequestPlaces \cup BootPlaces] /\ ipc \in [Actors -> InitPlaces]
    BY DEF TypeOK
  <1> DEFINE Moves == \E from \in RequestPlaces \ {"idle", "done"},
                         to \in RequestPlaces \ {"idle"} :
                         Goto(r, from, to) /\ (to \in BeforeInit => from \in BeforeInit)
             Launches == Goto(r, "test", "init") /\ InitGoto(r, "off", "start")
  <1>1. CASE RequestCancel(r) \/ ResetAux(r) \/ ResetDynamic(r)
    <2>1. Moves /\ ipc' = ipc /\ dpc' = dpc
      BY <1>1 DEF RequestCancel, ResetAux, ResetDynamic, RequestPlaces, BeforeInit, discVars
    <2> QED BY <1>0, <1>t, <2>1 DEF Goto
  <1>2. CASE ResetDiscovery(r) \/ StopCache(r)
    <2>1. Moves /\ ipc' = ipc /\ dpc' = dpc
      BY <1>2 DEF ResetDiscovery, StopCache, RequestPlaces, BeforeInit, discVars
    <2> QED BY <1>0, <1>t, <2>1 DEF Goto
  <1>3. CASE ClearCache(r) \/ ResetNoCache(r) \/ SwitchContextOk(r)
    <2>1. Moves /\ ipc' = ipc /\ dpc' = dpc
      BY <1>3 DEF ClearCache, ResetNoCache, SwitchContextOk, RequestPlaces, BeforeInit, discVars
    <2> QED BY <1>0, <1>t, <2>1 DEF Goto
  <1>4. CASE SwitchContextFails(r) \/ TestFails(r) \/ InitOk(r) \/ InitFails(r)
    <2>1. PICK from \in {"swap", "test", "init"} : \E s : Report(r, from, s)
      BY <1>4 DEF SwitchContextFails, TestFails, InitOk, InitFails
    <2>2. Goto(r, from, "done") /\ ipc' = ipc /\ dpc' = dpc
      BY <2>1 DEF Report, discVars
    <2>3. pc'[r] = "done" /\ pc[r] = from
      BY <1>0, <1>t, <2>2 DEF Goto
    <2> QED BY <1>0, <1>t, <2>2, <2>3 DEF Goto, BeforeInit
  <1>5. CASE TestOk(r)
    <2>1. Launches /\ dpc' = dpc
      BY <1>5 DEF TestOk, discVars
    <2> QED BY <1>0, <1>t, <2>1 DEF Goto, InitGoto, BeforeInit
  <1> QED
    BY <1>1, <1>2, <1>3, <1>4, <1>5 DEF RequestStep, Reset

\* What the boot's steps leave alone.
LEMMA BootStepFrame ==
  ASSUME TypeOK, BootStep
  PROVE  /\ pc[Boot] # "done"
         /\ \A r \in Requests : pc'[r] = pc[r]
         /\ pc'[Boot] \in BootPlaces \ {"idle"}
         /\ pc'[Boot] = "begun" => pc[Boot] = "idle"
         /\ \A b \in Actors : b # Boot => ipc'[b] = ipc[b]
         /\ \/ ipc'[Boot] = ipc[Boot]
            \/ pc[Boot] = "begun" /\ pc'[Boot] = "version" /\ ipc'[Boot] = "start"
         /\ UNCHANGED <<client, onceVars, cacheVars, dynVars, discVars>>
  <1>0. Boot \in Actors /\ Boot \notin Requests /\ Requests \subseteq Actors
    BY ActorsAssumption DEF Actors
  <1>t. pc \in [Actors -> RequestPlaces \cup BootPlaces] /\ ipc \in [Actors -> InitPlaces]
    BY DEF TypeOK
  <1> DEFINE Kept == UNCHANGED <<client, onceVars, cacheVars, dynVars, discVars>>
             Moves == \E from \in BootPlaces \ {"done"}, to \in BootPlaces \ {"idle"} :
                         Goto(Boot, from, to) /\ (to = "begun" => from = "idle")
             Launches == Goto(Boot, "begun", "version") /\ InitGoto(Boot, "off", "start")
  <1>1. Kept /\ Moves /\ (ipc' = ipc \/ Launches)
    <2>1. CASE BootCancel
      BY <2>1 DEF BootCancel, BootPlaces
    <2>2. CASE BootStart
      <3>1. Kept /\ Launches
        BY <2>2 DEF BootStart, opVars
      <3>2. "begun" \in BootPlaces \ {"done"} /\ "version" \in BootPlaces \ {"idle"}
        BY DEF BootPlaces
      <3> QED BY <3>1, <3>2
    <2>3. ASSUME NEW from \in BootPlaces \ {"idle", "done"},
                 NEW to \in BootPlaces \ {"idle", "begun"}, NEW new, BootMoves(from, to, new)
          PROVE  Kept /\ Moves /\ ipc' = ipc
      BY <2>3 DEF BootMoves, opVars
    <2>4. CASE VersionRetry \/ VersionOk
      BY <2>3, <2>4 DEF VersionRetry, VersionOk, BootPlaces
    <2>5. CASE VersionFails
      BY <2>5 DEF VersionFails, BootPlaces, opVars
    <2>6. CASE BootOk \/ BootFails
      BY <2>3, <2>6 DEF BootOk, BootFails, BootPlaces
    <2> QED
      BY <2>1, <2>2, <2>4, <2>5, <2>6 DEF BootStep
  <1>2. /\ pc[Boot] # "done"
        /\ \A r \in Requests : pc'[r] = pc[r]
        /\ pc'[Boot] \in BootPlaces \ {"idle"}
        /\ pc'[Boot] = "begun" => pc[Boot] = "idle"
    BY <1>0, <1>1, <1>t DEF Goto
  <1>3. CASE ipc' = ipc
    BY <1>1, <1>2, <1>3
  <1>4. CASE Launches
    <2>1. /\ pc[Boot] = "begun" /\ pc'[Boot] = "version" /\ ipc'[Boot] = "start"
          /\ \A b \in Actors : b # Boot => ipc'[b] = ipc[b]
      BY <1>0, <1>4, <1>t DEF Goto, InitGoto
    <2> QED BY <1>1, <1>2, <2>1
  <1> QED
    BY <1>1, <1>3, <1>4

\* A step is the start of an actor that finds nothing at work, or is taken by
\* one that is.
LEMMA Movers ==
  ASSUME TypeOK, Overlap = {}, Turns, Next
  PROVE  \/ UNCHANGED vars
         \/ \E a \in Actors :
              /\ Busy(a) \/ \A b \in Actors : ~Busy(b)
              /\ \A b \in Actors : b # a =>
                     pc'[b] = pc[b] /\ ipc'[b] = ipc[b] /\ dpc'[b] = dpc[b]
  <1> USE DEF Busy, Active, InitRunning, DiscRunning, TypeOK
  <1>1. ASSUME NEW r \in Requests, Begin(r)
        PROVE  /\ \A b \in Actors : ~Busy(b)
               /\ \A b \in Actors : b # r =>
                     pc'[b] = pc[b] /\ ipc'[b] = ipc[b] /\ dpc'[b] = dpc[b]
    <2>1. PICK ctx : BeginSwitch(r, ctx)
      BY <1>1 DEF Begin, BeginRetry
    <2>2. \A b \in Actors : ~Active(b)
      BY <2>1 DEF BeginSwitch, Admitted, Actors
    <2>3. QED
      BY <2>1, <2>2 DEF BeginSwitch, Admitted, discVars
  <1>2. ASSUME NEW r \in Requests, RequestStep(r) \/ Expire(r)
        PROVE  /\ Busy(r)
               /\ \A b \in Actors : b # r =>
                     pc'[b] = pc[b] /\ ipc'[b] = ipc[b] /\ dpc'[b] = dpc[b]
    <2>1. CASE RequestStep(r)
      BY <2>1, RequestStepFrame DEF Actors
    <2>2. CASE Expire(r)
      BY <2>2 DEF Expire, Actors, orchVars, discVars
    <2> QED BY <1>2, <2>1, <2>2
  <1>3. ASSUME BootStep
        PROVE  /\ Busy(Boot) \/ \A b \in Actors : ~Busy(b)
               /\ \A b \in Actors : b # Boot =>
                     pc'[b] = pc[b] /\ ipc'[b] = ipc[b] /\ dpc'[b] = dpc[b]
    <2>1. CASE BootCancel
      <3>1. \A b \in Actors : pc[b] = "idle"
        BY <2>1 DEF BootCancel, Actors, Turns, BootComesFirst
      <3>2. QED
        BY <2>1, <3>1 DEF BootCancel, Actors, Turns, NoInitYet, BeforeInit, discVars
    <2>2. CASE pc[Boot] # "idle"
      BY <1>3, <2>2, BootStepFrame DEF Actors, discVars
    <2>3. CASE pc[Boot] = "idle"
      <3>1. BootCancel
        BY <1>3, <2>3 DEF BootStep, BootStart, VersionRetry, VersionOk, VersionFails,
           BootOk, BootFails, BootMoves, Goto
      <3> QED BY <2>1, <3>1
    <2> QED BY <2>2, <2>3
  <1>4. ASSUME NEW a \in Actors, InitStep(a)
        PROVE  /\ Busy(a)
               /\ \A b \in Actors : b # a =>
                     pc'[b] = pc[b] /\ ipc'[b] = ipc[b] /\ dpc'[b] = dpc[b]
    BY <1>4, InitStepFrame
  <1>5. ASSUME NEW a \in Actors, DiscoveryStep(a)
        PROVE  /\ Busy(a)
               /\ \A b \in Actors : b # a =>
                     pc'[b] = pc[b] /\ ipc'[b] = ipc[b] /\ dpc'[b] = dpc[b]
    BY <1>5 DEF DiscoveryStep, DiscoverySkips, DiscoveryRuns, DiscoveryBlocks,
       DiscoveryReleased, DiscoveryOk, DiscoveryFails, DiscoveryReturns, orchVars
  <1>6. Requests \subseteq Actors /\ Boot \in Actors
    BY DEF Actors
  <1> HIDE DEF Busy, TypeOK
  <1>7. QED
    BY <1>1, <1>2, <1>3, <1>4, <1>5, <1>6 DEF Next, Rest

\* Nothing else moves beside a step, and nothing is at work beside its actor.
LEMMA OthersRest ==
  ASSUME TypeOK, Turns, NEW a \in Actors, Busy(a), NEW b \in Actors, b # a
  PROVE  /\ pc[b] \in {"idle", "done"}
         /\ ipc[b] \in {"off", "ok", "err"}
         /\ dpc[b] \in {"off", "done"}
  BY DEF Turns, OneAtATime, Busy, Active, InitRunning, DiscRunning

\* Handlers take turns.
LEMMA TurnsStep ==
  ASSUME TypeOK, Overlap = {}, Turns, Next
  PROVE  Turns'
  <1>1. OneAtATime'
    BY Movers DEF Turns, OneAtATime, Busy, Active, InitRunning, DiscRunning, vars,
       orchVars, discVars
  <1>2. BootComesFirst'
    <2>1. ASSUME NEW r \in Requests, Begin(r)
          PROVE  pc'[Boot] = "done"
      BY <2>1, ActorsAssumption DEF Begin, BeginRetry, BeginSwitch, Admitted, TypeOK, Actors
    <2>2. ASSUME NEW r \in Requests, RequestStep(r) \/ Expire(r)
          PROVE  /\ pc[r] # "idle"
                 /\ pc'[Boot] = pc[Boot]
      <3>1. CASE RequestStep(r)
        BY <3>1, RequestStepFrame, ActorsAssumption DEF Actors
      <3>2. CASE Expire(r)
        BY <3>2, ActorsAssumption DEF Turns, NoInitYet, BeforeInit, InitRunning, Expire,
           orchVars, Actors
      <3> QED BY <2>2, <3>1, <3>2
    <2>3. BootStep => pc[Boot] # "done" /\ \A r \in Requests : pc'[r] = pc[r]
      BY BootStepFrame
    <2>4. ASSUME NEW a \in Actors, InitStep(a) \/ DiscoveryStep(a)
          PROVE  pc' = pc
      BY <2>4, InitStepFrame DEF orchVars, DiscoveryStep, DiscoverySkips, DiscoveryRuns, DiscoveryBlocks,
         DiscoveryReleased, DiscoveryOk, DiscoveryFails, DiscoveryReturns
    <2>5. QED
      BY <2>1, <2>2, <2>3, <2>4 DEF Next, Rest, vars, orchVars, Turns, BootComesFirst
  <1>3. NoInitYet'
    <2> USE DEF Turns, NoInitYet, BeforeInit, TypeOK
    <2>1. ASSUME NEW r \in Requests, Begin(r) \/ RequestStep(r) \/ Expire(r)
          PROVE  NoInitYet'
      <3>1. CASE Begin(r)
        <4>1. PICK ctx : BeginSwitch(r, ctx)
          BY <3>1 DEF Begin, BeginRetry
        <4> QED BY <4>1 DEF BeginSwitch, Goto, Actors, discVars
      <3>2. CASE RequestStep(r)
        BY <3>2, RequestStepFrame DEF Actors
      <3>3. CASE Expire(r)
        BY <3>3 DEF Expire, Actors, orchVars, discVars
      <3> QED BY <2>1, <3>1, <3>2, <3>3
    <2>2. BootStep => NoInitYet'
      <3> SUFFICES ASSUME BootStep, NEW a \in Actors, pc'[a] \in BeforeInit
                   PROVE  ipc'[a] = "off" /\ dpc'[a] = "off"
        BY DEF NoInitYet
      <3>1. dpc' = dpc
        BY BootStepFrame DEF discVars
      <3>2. CASE a # Boot
        BY <3>1, <3>2, BootStepFrame DEF Actors
      <3>3. CASE a = Boot
        <4>1. pc'[Boot] = "begun"
          BY <3>3, BootStepFrame DEF BootPlaces
        <4>2. pc[Boot] = "idle" /\ ipc'[Boot] = ipc[Boot]
          BY <4>1, BootStepFrame
        <4> QED BY <3>1, <3>3, <4>2
      <3> QED BY <3>2, <3>3
    <2>3. ASSUME NEW a \in Actors, InitStep(a)
          PROVE  NoInitYet'
      BY <2>3, InitStepFrame
    <2>4. ASSUME NEW a \in Actors, DiscoveryStep(a)
          PROVE  NoInitYet'
      BY <2>4 DEF DiscoveryStep, DiscoverySkips, DiscoveryRuns, DiscoveryBlocks, orchVars,
         DiscoveryReleased, DiscoveryOk, DiscoveryFails, DiscoveryReturns
    <2>5. QED
      BY <2>1, <2>2, <2>3, <2>4 DEF Next, Rest, vars, orchVars, discVars
  <1>4. QED
    BY <1>1, <1>2, <1>3 DEF Turns

\* The teardown leaves a new Once and no cache, which last until the one init
\* that is run then takes the Once.
LEMMA OnceIsFreshStep ==
  ASSUME SeriesInv, Overlap = {}, Next
  PROVE  OnceIsFresh'
  <1> USE DEF SeriesInv, ClusterInv, OnceIsFresh, Vacant, TypeOK
  <1>1. ASSUME NEW r \in Requests, Begin(r) \/ RequestStep(r) \/ Expire(r)
        PROVE  OnceIsFresh'
    <2>1. r \in Actors /\ r # Boot /\ Boot \in Actors
      BY ActorsAssumption DEF Actors
    <2>2. pc[r] # "idle" => pc[Boot] = "done" /\ pc'[Boot] = "done"
      BY <1>1, <2>1 DEF Turns, BootComesFirst, Begin, BeginRetry, BeginSwitch, RequestStep,
         Reset, RequestCancel, ResetAux, ResetDynamic,
         ResetDiscovery, StopCache, ClearCache, ResetNoCache, SwitchContextOk,
         SwitchContextFails, TestOk, TestFails, InitOk, InitFails, Report, Expire,
         orchVars
    <2>3. CASE Begin(r)
      <3>1. /\ UNCHANGED <<cacheOnce, onceBusy, onceDone, ran, resourceCache, ipc>>
            /\ pc' = [pc EXCEPT ![r] = "begun"]
        BY <2>3 DEF Begin, BeginRetry, BeginSwitch, onceVars, cacheVars
      <3>2. /\ \A b \in Actors : pc'[b] \in {"swap", "test"} => pc[b] \in {"swap", "test"}
            /\ pc'[Boot] = pc[Boot]
        BY <2>1, <3>1
      <3> QED
        BY <3>1, <3>2
    <2>4. CASE Expire(r)
      <3>1. UNCHANGED <<cacheOnce, onceBusy, onceDone, ran, resourceCache, ipc, pc>>
        BY <2>4 DEF Expire, onceVars, cacheVars, orchVars
      <3> QED
        BY <3>1
    <2>5. CASE RequestCancel(r) \/ ResetAux(r) \/ ResetDynamic(r) \/ ResetDiscovery(r)
               \/ StopCache(r)
      <3>1. /\ UNCHANGED <<cacheOnce, onceBusy, onceDone, ran, resourceCache, ipc>>
            /\ \E to \in {"resetAux", "resetDynamic", "resetDiscovery", "resetCache",
                          "clearCache"} : pc' = [pc EXCEPT ![r] = to]
        BY <2>5 DEF RequestCancel, ResetAux, ResetDynamic, ResetDiscovery, StopCache,
           onceVars, cacheVars
      <3>2. /\ \A b \in Actors : pc'[b] \in {"swap", "test"} => pc[b] \in {"swap", "test"}
            /\ pc'[Boot] = pc[Boot]
        BY <2>1, <3>1
      <3> QED
        BY <3>1, <3>2
    <2>6. CASE SwitchContextOk(r) \/ SwitchContextFails(r) \/ TestOk(r) \/ TestFails(r)
               \/ InitOk(r) \/ InitFails(r)
      <3>1. /\ UNCHANGED <<cacheOnce, onceBusy, onceDone, ran, resourceCache>>
            /\ \A a \in Actors : ipc'[a] = ipc[a] \/ (a = r /\ pc[a] = "test" /\ ipc'[a] = "start")
            /\ \A a \in Actors : pc'[a] = pc[a] \/ (a = r /\ pc'[a] \notin {"idle", "swap"})
            /\ pc'[r] = "test" => pc[r] = "swap"
        BY <2>1, <2>6 DEF SwitchContextOk, SwitchContextFails, TestOk, TestFails, InitOk,
           InitFails, Report, onceVars, cacheVars
      <3>2. QED
        BY <2>1, <3>1
    <2>7. CASE ClearCache(r) \/ ResetNoCache(r)
      <3>1. pc[r] \in {"clearCache", "resetCache"} /\ Busy(r)
        BY <2>7 DEF ClearCache, ResetNoCache, Busy, Active
      <3>2. \A b \in Actors : ipc[b] \in {"off", "ok", "err"}
        BY <2>1, <3>1, OthersRest DEF Turns, NoInitYet, BeforeInit
      <3>3. /\ resourceCache' = None /\ cacheOnce' = cacheOnce + 1
            /\ UNCHANGED <<onceBusy, onceDone, ran, ipc>>
        BY <2>7 DEF ClearCache, ResetNoCache, cacheVars
      <3>4. pc'[Boot] = "done"
        BY <2>2, <3>1
      <3>5. cacheOnce' \notin onceBusy' \cup onceDone'
        BY <3>3
      <3>6. QED
        BY <3>2, <3>3, <3>4, <3>5
    <2>8. QED
      BY <1>1, <2>3, <2>4, <2>5, <2>6, <2>7 DEF RequestStep, Reset
  <1>2. ASSUME BootStep
        PROVE  OnceIsFresh'
    BY <1>2, BootStepFrame, ActorsAssumption DEF Actors, onceVars, cacheVars, BootPlaces
  <1>3. ASSUME NEW a \in Actors, InitStep(a)
        PROVE  OnceIsFresh'
    <2>1. Busy(a) /\ pc[a] \notin BeforeInit
      BY <1>3, InitStepFrame DEF Busy, InitRunning, Turns, NoInitYet
    <2>2. \A b \in Actors : b # a => pc[b] \in {"idle", "done"} /\ ipc[b] \in {"off", "ok", "err"}
      BY <2>1, OthersRest
    <2>3. pc[Boot] \notin {"idle", "begun"}
      BY <2>1, <2>2 DEF Actors, Turns, BootComesFirst, BeforeInit, NoInitYet
    <2>4. pc' = pc
      BY <1>3, InitStepFrame
    <2>5. CASE OnceRun(a)
      BY <2>1, <2>2, <2>3, <2>4, <2>5 DEF OnceRun, cacheVars, BeforeInit
    <2>6. CASE ProbesCancelled(a) \/ InstallCache(a)
      <3>1. /\ ipc[a] \in {"probe", "sync"} /\ ipc'[a] \in {"err", "loaded"}
            /\ \A b \in Actors : b # a => ipc'[b] = ipc[b]
            /\ UNCHANGED <<cacheOnce, ran>> /\ OnceReturns(a)
        BY <2>6 DEF ProbesCancelled, InstallCache
      <3>2. ran[a] = cacheOnce
        BY <3>1
      <3>3. \A n \in onceBusy' \cup onceDone' : n \in 0 .. cacheOnce'
        BY <3>1, <3>2 DEF OnceReturns
      <3>4. QED
        BY <2>1, <2>2, <2>3, <2>4, <3>1, <3>3 DEF BeforeInit
    <2>7. CASE InitStart(a) \/ OnceBlock(a) \/ OnceSkip(a) \/ OnceReleased(a)
               \/ StartInformers(a)
      <3>1. /\ UNCHANGED <<cacheOnce, onceBusy, onceDone, ran, resourceCache>>
            /\ \A b \in Actors : b # a => ipc'[b] = ipc[b]
        BY <2>7 DEF InitStart, OnceBlock, OnceSkip, OnceReleased, StartInformers, onceVars,
           cacheVars
      <3>2. \/ ipc[a] = "start" /\ ipc'[a] = "once"
            \/ ipc[a] = "probe" /\ ipc'[a] = "sync"
            \/ ipc[a] = "once" /\ cacheOnce \in onceBusy \cup onceDone
            \/ ipc[a] = "blocked"
        BY <2>7 DEF InitStart, OnceBlock, OnceSkip, OnceReleased, StartInformers
      <3>3. \/ ipc[a] = "start" /\ ipc'[a] = "once"
            \/ ipc[a] = "probe" /\ ipc'[a] = "sync"
        BY <3>2
      <3> QED
        BY <2>3, <2>4, <3>1, <3>3
    <2>8. CASE CacheLoaded(a) \/ DiscoveryJoined(a) \/ Bail(a)
               \/ ReadCacheForDynamic(a) \/ MakeDynamic(a) \/ InitAux(a)
      <3>1. /\ UNCHANGED <<cacheOnce, onceBusy, onceDone, ran, resourceCache>>
            /\ \A b \in Actors : b # a => ipc'[b] = ipc[b]
        BY <2>8 DEF CacheLoaded, DiscoveryJoined, Bail, InitMoves, ReadCacheForDynamic,
           MakeDynamic, InitAux, onceVars, cacheVars
      <3>2. ipc'[a] \in {"await", "dynRead", "err", "aux", "dynMake", "ok"}
        BY <2>8 DEF CacheLoaded, DiscoveryJoined, Bail, InitMoves, ReadCacheForDynamic,
           MakeDynamic, InitAux
      <3> QED
        BY <2>3, <2>4, <3>1, <3>2
    <2>9. QED
      BY <1>3, <2>5, <2>6, <2>7, <2>8 DEF InitStep
  <1>4. ASSUME NEW a \in Actors, DiscoveryStep(a)
        PROVE  UNCHANGED <<cacheOnce, onceBusy, onceDone, ran, resourceCache, pc, ipc>>
    BY <1>4 DEF DiscoveryStep, DiscoverySkips, DiscoveryRuns, DiscoveryBlocks,
       DiscoveryReleased, DiscoveryOk, DiscoveryFails, DiscoveryReturns, orchVars, onceVars,
       cacheVars
  <1>5. QED
    BY <1>1, <1>2, <1>3, <1>4 DEF Next, Rest, vars, onceVars, cacheVars, orchVars

\* A handler in its teardown finds nothing at work but itself.
LEMMA TeardownIsAlone ==
  ASSUME SeriesInv, NEW r \in Requests, pc[r] \in BeforeInit, pc[r] # "idle"
  PROVE  /\ \A b \in Actors : /\ ipc[b] \in {"off", "ok", "err"}
                              /\ dpc[b] \in {"off", "done"}
                              /\ ~Loaded(b)
                              /\ b # r => pc[b] \in {"idle", "done"}
         /\ pc[Boot] = "done"
  <1>1. r \in Actors /\ Busy(r)
    BY DEF Actors, Busy, Active, BeforeInit
  <1>2. ipc[r] = "off" /\ dpc[r] = "off"
    BY <1>1 DEF SeriesInv, Turns, NoInitYet
  <1>3. \A b \in Actors : /\ ipc[b] \in {"off", "ok", "err"}
                          /\ dpc[b] \in {"off", "done"}
                          /\ b # r => pc[b] \in {"idle", "done"}
    BY <1>1, <1>2, OthersRest DEF SeriesInv
  <1>4. \A b \in Actors : ~Loaded(b)
    BY <1>2, <1>3 DEF Loaded, SeriesInv, Turns, NoInitYet, BeforeInit
  <1>5. QED
    BY <1>3, <1>4 DEF SeriesInv, Turns, BootComesFirst

\* An init, or the goroutine it spawned, finds nobody else at work.
LEMMA InitIsAlone ==
  ASSUME SeriesInv, NEW a \in Actors, InitRunning(a) \/ DiscRunning(a)
  PROVE  /\ pc[a] \notin BeforeInit
         /\ \A b \in Actors : b # a => /\ pc[b] \in {"idle", "done"}
                                       /\ ipc[b] \in {"off", "ok", "err"}
                                       /\ dpc[b] \in {"off", "done"}
                                       /\ ~Loaded(b)
         /\ pc[Boot] \notin {"idle", "begun"}
  <1>1. Busy(a) /\ pc[a] \notin BeforeInit
    BY DEF Busy, InitRunning, DiscRunning, SeriesInv, Turns, NoInitYet
  <1>2. \A b \in Actors : b # a => /\ pc[b] \in {"idle", "done"}
                                   /\ ipc[b] \in {"off", "ok", "err"}
                                   /\ dpc[b] \in {"off", "done"}
    BY <1>1, OthersRest DEF SeriesInv
  <1>3. \A b \in Actors : b # a => ~Loaded(b)
    BY <1>2 DEF Loaded, SeriesInv, Turns, NoInitYet, BeforeInit
  <1>4. pc[Boot] \notin {"idle", "begun"}
    BY <1>1, <1>2 DEF Actors, SeriesInv, Turns, BootComesFirst, BeforeInit
  <1>5. QED
    BY <1>1, <1>2, <1>3, <1>4

\* Every step of an init is taken by one that runs.
LEMMA InitStepRuns ==
  ASSUME NEW a \in Actors, InitStep(a)
  PROVE  InitRunning(a) /\ pc' = pc
  BY DEF InitRunning, InitStep, InitStart, OnceRun, OnceBlock, OnceSkip, OnceReleased,
     ProbesCancelled, StartInformers, InstallCache, CacheLoaded, DiscoveryJoined,
     Bail, InitMoves, ReadCacheForDynamic, MakeDynamic, InitAux, orchVars

\* The cache follows the clients: it is gone when they are swapped, and a new
\* one is built from them before they can be swapped again.
LEMMA CacheStep ==
  ASSUME SeriesInv, Overlap = {}, Next
  PROVE  CacheIsOfClient' /\ NoOrphanInformers'
  <1> USE DEF SeriesInv, ClusterInv, CacheIsOfClient, NoOrphanInformers, TypeOK
  <1>0. Boot \in Actors /\ Requests \subseteq Actors /\ Boot \notin Requests /\ None \notin Actors
    BY ActorsAssumption DEF Actors
  <1>1. ASSUME NEW r \in Requests, Begin(r) \/ RequestStep(r) \/ Expire(r)
        PROVE  CacheIsOfClient' /\ NoOrphanInformers'
    <2>1. CASE Begin(r)
      BY <1>0, <2>1 DEF Begin, BeginRetry, BeginSwitch, opVars, cacheVars, Loaded, Turns,
         NoInitYet, BeforeInit
    <2>2. CASE Expire(r)
      BY <2>2 DEF Expire, opVars, cacheVars, orchVars, Loaded
    <2>3. CASE RequestCancel(r) \/ ResetAux(r) \/ ResetDynamic(r) \/ ResetDiscovery(r)
               \/ ResetNoCache(r)
      <3>1. pc[r] \in BeforeInit /\ pc[r] # "idle"
        BY <2>3 DEF RequestCancel, ResetAux, ResetDynamic, ResetDiscovery, ResetNoCache, BeforeInit
      <3>2. /\ UNCHANGED <<resourceCache, built, informers, client, ipc>>
            /\ \A b \in Actors : b # r => pc'[b] = pc[b]
            /\ pc'[r] # "clearCache"
        BY <1>0, <2>3 DEF RequestCancel, ResetAux, ResetDynamic, ResetDiscovery, ResetNoCache,
           opVars, cacheVars
      <3>3. \A b \in Actors : ipc[b] \in {"off", "ok", "err"} /\ ~Loaded(b)
        BY <3>1, TeardownIsAlone
      <3>4. \A b \in Actors : ~Loaded(b)'
        BY <1>0, <3>1, <3>2, <3>3, TeardownIsAlone DEF Loaded, BeforeInit, Turns, NoInitYet
      <3>5. QED
        BY <3>2, <3>3, <3>4
    <2>4. CASE StopCache(r)
      <3>1. pc[r] = "resetCache"
        BY <2>4 DEF StopCache
      <3>2. \A b \in Actors : /\ ipc[b] \in {"off", "ok", "err"} /\ ~Loaded(b)
                              /\ b # r => pc[b] \in {"idle", "done"}
        BY <3>1, TeardownIsAlone DEF BeforeInit
      <3>3. QED
        BY <1>0, <2>4, <3>1, <3>2 DEF StopCache, opVars, Loaded
    <2>5. CASE ClearCache(r)
      <3>1. pc[r] = "clearCache"
        BY <2>5 DEF ClearCache
      <3>2. \A b \in Actors : /\ ipc[b] \in {"off", "ok", "err"} /\ ~Loaded(b)
                              /\ b # r => pc[b] \in {"idle", "done"}
        BY <3>1, TeardownIsAlone DEF BeforeInit
      <3>3. QED
        BY <1>0, <2>5, <3>1, <3>2 DEF ClearCache, opVars, Loaded
    <2>6. CASE SwitchContextOk(r)
      <3>1. pc[r] = "swap" /\ resourceCache = None
        BY <1>0, <2>6 DEF SwitchContextOk, OnceIsFresh, Vacant
      <3>2. \A b \in Actors : /\ ipc[b] \in {"off", "ok", "err"} /\ ~Loaded(b)
                              /\ b # r => pc[b] \in {"idle", "done"}
        BY <3>1, TeardownIsAlone DEF BeforeInit
      <3>3. QED
        BY <1>0, <2>6, <3>1, <3>2 DEF SwitchContextOk, cacheVars, Loaded
    <2>7. CASE TestOk(r)
      BY <1>0, <2>7 DEF TestOk, cacheVars, opVars, Loaded
    <2>8. CASE SwitchContextFails(r) \/ TestFails(r) \/ InitOk(r) \/ InitFails(r)
      BY <1>0, <2>8 DEF SwitchContextFails, TestFails, InitOk, InitFails, Report, cacheVars,
         opVars, Loaded
    <2>9. QED
      BY <1>1, <2>1, <2>2, <2>3, <2>4, <2>5, <2>6, <2>7, <2>8 DEF RequestStep, Reset
  <1>2. ASSUME BootStep
        PROVE  CacheIsOfClient' /\ NoOrphanInformers'
    <2>1. UNCHANGED <<resourceCache, built, informers, client>>
      BY <1>2 DEF BootStep, BootCancel, BootStart, VersionRetry, VersionOk, VersionFails,
         BootOk, BootFails, BootMoves, cacheVars, opVars
    <2>2. \A b \in Actors : ipc'[b] = ipc[b] \/ (ipc[b] = "off" /\ ipc'[b] = "start")
      BY <1>0, <1>2 DEF BootStep, BootCancel, BootStart, VersionRetry, VersionOk, VersionFails,
         BootOk, BootFails, BootMoves
    <2>3. \A b \in Actors : \/ pc'[b] = pc[b]
                            \/ pc'[b] # "clearCache" /\ (pc[b] # "done" \/ pc'[b] = "done")
      BY <1>0, <1>2 DEF BootStep, BootCancel, BootStart, VersionRetry, VersionOk, VersionFails,
         BootOk, BootFails, BootMoves
    <2>4. QED
      BY <2>1, <2>2, <2>3 DEF Loaded
  <1>3. ASSUME NEW a \in Actors, InitStep(a)
        PROVE  CacheIsOfClient' /\ NoOrphanInformers'
    <2>1. pc' = pc /\ pc[a] \notin BeforeInit
      BY <1>3, InitStepRuns, InitIsAlone
    <2>2. \A b \in Actors : b # a =>
              pc[b] \in {"idle", "done"} /\ ipc[b] \in {"off", "ok", "err"} /\ ~Loaded(b)
      BY <1>3, InitStepRuns, InitIsAlone
    <2>3. CASE StartInformers(a)
      <3>1. resourceCache = None
        BY <2>3 DEF StartInformers, OnceIsFresh
      <3>2. QED
        BY <1>0, <2>1, <2>2, <2>3, <3>1 DEF StartInformers, opVars, Loaded, BeforeInit
    <2>4. CASE InstallCache(a)
      <3>1. resourceCache = None
        BY <2>4 DEF InstallCache, OnceIsFresh
      <3>2. QED
        BY <1>0, <2>1, <2>2, <2>4, <3>1 DEF InstallCache, opVars, Loaded, BeforeInit
    <2>5. CASE OnceSkip(a) \/ OnceReleased(a)
      BY <2>5 DEF OnceSkip, OnceReleased, OnceIsFresh, Vacant
    <2>6. CASE InitStart(a) \/ OnceRun(a) \/ OnceBlock(a) \/ ProbesCancelled(a)
               \/ CacheLoaded(a) \/ DiscoveryJoined(a) \/ Bail(a)
               \/ ReadCacheForDynamic(a) \/ MakeDynamic(a) \/ InitAux(a)
      <3>1. UNCHANGED <<resourceCache, built, informers, client>>
        BY <2>6 DEF InitStart, OnceRun, OnceBlock, ProbesCancelled, CacheLoaded, DiscoveryJoined,
           Bail, InitMoves, ReadCacheForDynamic, MakeDynamic, InitAux, cacheVars, opVars
      <3>2. /\ \A b \in Actors : b # a => ipc'[b] = ipc[b]
            /\ ipc[a] # "sync" /\ ipc'[a] # "sync"
            /\ ipc'[a] \in {"loaded", "await", "dynRead", "dynMake", "aux", "ok"} => Loaded(a)
        BY <2>6 DEF InitStart, OnceRun, OnceBlock, ProbesCancelled, CacheLoaded, DiscoveryJoined,
           Bail, InitMoves, ReadCacheForDynamic, MakeDynamic, InitAux, Loaded
      <3>3. \A b \in Actors : Loaded(b)' => Loaded(b)
        BY <2>1, <3>2 DEF Loaded
      <3>4. QED
        BY <2>1, <3>1, <3>2, <3>3
    <2>7. QED
      BY <1>3, <2>3, <2>4, <2>5, <2>6 DEF InitStep
  <1>4. ASSUME NEW a \in Actors, DiscoveryStep(a)
        PROVE  UNCHANGED <<resourceCache, built, informers, client, pc, ipc>>
    BY <1>4 DEF DiscoveryStep, DiscoverySkips, DiscoveryRuns, DiscoveryBlocks,
       DiscoveryReleased, DiscoveryOk, DiscoveryFails, DiscoveryReturns, orchVars, opVars,
       cacheVars
  <1>5. CASE UNCHANGED <<resourceCache, built, informers, client, pc, ipc>>
    BY <1>5 DEF Loaded
  <1>6. Rest => UNCHANGED <<resourceCache, built, informers, client, pc, ipc>>
    BY DEF Rest, vars, cacheVars, opVars, orchVars
  <1>7. QED
    BY <1>1, <1>2, <1>3, <1>4, <1>5, <1>6 DEF Next

\* What was discovered is forgotten before the clients are swapped, and the
\* goroutine that discovers is over by then.
LEMMA DiscoveryInSeriesStep ==
  ASSUME SeriesInv, Overlap = {}, Next
  PROVE  DiscoveryIsOfClient'
  <1> USE DEF DiscoveryIsOfClient
  <1>0. /\ Boot \in Actors /\ Requests \subseteq Actors /\ Boot \notin Requests
        /\ TypeOK /\ DiscoveryIsOfClient
    BY ActorsAssumption DEF Actors, SeriesInv, ClusterInv
  <1>1. ASSUME NEW r \in Requests, Begin(r) \/ RequestStep(r) \/ Expire(r)
        PROVE  DiscoveryIsOfClient'
    <2>1. CASE Begin(r) \/ Expire(r)
      BY <1>0, <2>1 DEF Begin, BeginRetry, BeginSwitch, Expire, opVars, orchVars, discVars, TypeOK
    <2>2. CASE ResetDiscovery(r) \/ SwitchContextOk(r)
      <3>1. pc[r] \in {"resetDiscovery", "swap"}
        BY <2>2 DEF ResetDiscovery, SwitchContextOk
      <3>2. /\ pc[Boot] = "done"
            /\ \A b \in Actors : dpc[b] \in {"off", "done"}
        BY <3>1, TeardownIsAlone DEF BeforeInit
      <3>3. discovery' = None /\ dpc' = dpc
        BY <1>0, <2>2, <3>1 DEF ResetDiscovery, SwitchContextOk, discVars
      <3>4. pc'[Boot] = pc[Boot]
        BY <1>0, <2>2 DEF ResetDiscovery, SwitchContextOk, TypeOK
      <3>5. QED
        BY <3>2, <3>3, <3>4
    <2>3. CASE RequestCancel(r) \/ ResetAux(r) \/ ResetDynamic(r)
               \/ StopCache(r) \/ ClearCache(r) \/ ResetNoCache(r)
      BY <1>0, <2>3 DEF RequestCancel, ResetAux, ResetDynamic, StopCache, ClearCache,
         ResetNoCache, opVars, discVars, TypeOK
    <2>4. CASE SwitchContextFails(r) \/ TestOk(r) \/ TestFails(r) \/ InitOk(r) \/ InitFails(r)
      BY <1>0, <2>4 DEF SwitchContextFails, TestOk, TestFails, InitOk, InitFails, Report,
         opVars, discVars, TypeOK
    <2>5. QED
      BY <1>1, <2>1, <2>2, <2>3, <2>4 DEF RequestStep, Reset
  <1>2. ASSUME BootStep
        PROVE  DiscoveryIsOfClient'
    BY <1>0, <1>2, BootStepFrame DEF Actors, discVars, BootPlaces
  <1>3. ASSUME NEW a \in Actors, InitStep(a)
        PROVE  DiscoveryIsOfClient'
    <2>1. \A b \in Actors : dpc'[b] = "running" => dpc[b] = "running"
      BY <1>0, <1>3, InitStepFrame
    <2> QED
      BY <1>0, <1>3, <2>1, InitStepFrame
  <1>4. ASSUME NEW a \in Actors, DiscoveryStep(a)
        PROVE  DiscoveryIsOfClient'
    <2>1. DiscRunning(a) /\ pc' = pc /\ client' = client
      BY <1>4 DEF DiscRunning, DiscoveryStep, DiscoverySkips, DiscoveryRuns, DiscoveryBlocks,
         DiscoveryReleased, DiscoveryOk, DiscoveryFails, DiscoveryReturns, opVars, orchVars
    <2>2. /\ \A b \in Actors : pc[b] \notin {"resetCache", "clearCache", "swap"}
          /\ pc[Boot] \notin {"idle", "begun"}
      BY <2>1, InitIsAlone DEF BeforeInit
    <2>3. QED
      BY <1>0, <1>4, <2>1, <2>2 DEF DiscoveryStep, DiscoverySkips, DiscoveryRuns, DiscoveryBlocks,
         DiscoveryReleased, DiscoveryOk, DiscoveryFails, DiscoveryReturns, TypeOK
  <1>5. QED
    BY <1>0, <1>1, <1>2, <1>3, <1>4 DEF Next, Rest, vars, opVars, orchVars, discVars

\* The dynamic cache is made of the cache and the discovery there are, and
\* lasts no longer than they do.
LEMMA DynamicStep ==
  ASSUME SeriesInv, Overlap = {}, Next
  PROVE  DynamicComesLast' /\ SubsystemsOnOneCluster'
  <1> USE DEF DynamicComesLast, SubsystemsOnOneCluster
  <1>0. /\ Boot \in Actors /\ Requests \subseteq Actors /\ Boot \notin Requests
        /\ TypeOK /\ DynamicComesLast /\ SubsystemsOnOneCluster
    BY ActorsAssumption DEF Actors, SeriesInv, ClusterInv
  <1>1. ASSUME NEW r \in Requests, Begin(r) \/ RequestStep(r) \/ Expire(r)
        PROVE  DynamicComesLast' /\ SubsystemsOnOneCluster'
    <2>1. CASE Begin(r) \/ Expire(r)
      BY <1>0, <2>1 DEF Begin, BeginRetry, BeginSwitch, Expire, orchVars, cacheVars, dynVars,
         TypeOK
    <2>2. CASE RequestCancel(r) \/ ResetAux(r)
      <3>1. \E to \in {"resetAux", "resetDynamic"} : pc' = [pc EXCEPT ![r] = to]
        BY <2>2 DEF RequestCancel, ResetAux, Goto
      <3>2. UNCHANGED <<ipc, resourceCache, built, feeds, dynamic>>
        BY <2>2 DEF RequestCancel, ResetAux, cacheVars, dynVars
      <3>3. pc \in [Actors -> RequestPlaces \cup BootPlaces]
        BY <1>0 DEF TypeOK
      <3>4. DynamicComesLast'
        BY <1>0, <3>1, <3>2, <3>3
      <3> QED
        BY <1>0, <3>2, <3>4
    <2>3. CASE ResetDynamic(r) \/ ResetDiscovery(r) \/ StopCache(r) \/ ClearCache(r)
               \/ ResetNoCache(r) \/ SwitchContextOk(r) \/ TestOk(r)
      <3>1. pc[r] \in BeforeInit /\ pc[r] # "idle"
        BY <2>3 DEF ResetDynamic, ResetDiscovery, StopCache, ClearCache, ResetNoCache,
           SwitchContextOk, TestOk, BeforeInit
      <3>2. \A b \in Actors : ipc[b] \in {"off", "ok", "err"}
        BY <3>1, TeardownIsAlone
      <3>3. dynamic' = None
        BY <1>0, <2>3 DEF ResetDynamic, ResetDiscovery, StopCache, ClearCache, ResetNoCache,
           SwitchContextOk, TestOk, dynVars
      <3>4. \A b \in Actors : ipc'[b] # "dynMake"
        BY <1>0, <2>3, <3>2 DEF ResetDynamic, ResetDiscovery, StopCache, ClearCache,
           ResetNoCache, SwitchContextOk, TestOk, TypeOK
      <3>5. QED
        BY <3>3, <3>4
    <2>4. CASE SwitchContextFails(r) \/ TestFails(r) \/ InitOk(r) \/ InitFails(r)
      BY <1>0, <2>4 DEF SwitchContextFails, TestFails, InitOk, InitFails, Report, cacheVars,
         dynVars, TypeOK
    <2>5. QED
      BY <1>1, <2>1, <2>2, <2>3, <2>4 DEF RequestStep, Reset
  <1>2. ASSUME BootStep
        PROVE  DynamicComesLast' /\ SubsystemsOnOneCluster'
    BY <1>0, <1>2 DEF BootStep, BootCancel, BootStart, VersionRetry, VersionOk,
       VersionFails, BootOk, BootFails, BootMoves, cacheVars, dynVars, TypeOK
  <1>3. ASSUME NEW a \in Actors, InitStep(a)
        PROVE  DynamicComesLast' /\ SubsystemsOnOneCluster'
    <2>1. /\ pc' = pc /\ pc[a] \notin BeforeInit
          /\ \A b \in Actors : b # a =>
                 pc[b] \in {"idle", "done"} /\ ipc[b] \in {"off", "ok", "err"}
          /\ pc[Boot] \notin {"idle", "begun"}
      BY <1>3, InitStepRuns, InitIsAlone
    <2>2. \A b \in Actors : ipc[b] = "dynMake" => b = a
      BY <2>1
    <2>3. CASE OnceSkip(a) \/ OnceReleased(a)
      BY <2>3 DEF OnceSkip, OnceReleased, SeriesInv, ClusterInv, OnceIsFresh, Vacant
    <2>4. CASE InitStart(a) \/ OnceRun(a) \/ OnceBlock(a) \/ ProbesCancelled(a)
               \/ CacheLoaded(a) \/ DiscoveryJoined(a) \/ Bail(a) \/ InitAux(a)
      <3>1. /\ UNCHANGED <<dynamic, resourceCache, built, feeds>>
            /\ \A b \in Actors : ipc'[b] # "dynMake" \/ ipc'[b] = ipc[b]
            /\ \A b \in Actors : ipc'[b] \in BeforeDynamic => ipc[b] \in BeforeDynamic
        BY <1>0, <2>4 DEF InitStart, OnceRun, OnceBlock, ProbesCancelled, CacheLoaded,
           DiscoveryJoined, Bail, InitMoves, InitAux, BeforeDynamic, cacheVars, dynVars, TypeOK
      <3>2. QED
        BY <1>0, <2>1, <3>1
    <2>5. CASE StartInformers(a) \/ InstallCache(a)
      <3>1. dynamic' = None /\ ipc'[a] # "dynMake"
        BY <1>0, <2>5 DEF StartInformers, InstallCache, BeforeDynamic, dynVars, TypeOK
      <3>2. \A b \in Actors : b # a => ipc'[b] = ipc[b]
        BY <1>0, <2>5 DEF StartInformers, InstallCache, TypeOK
      <3>3. \A b \in Actors : ipc'[b] # "dynMake"
        BY <2>2, <3>1, <3>2
      <3>4. QED
        BY <3>1, <3>3
    <2>6. CASE ReadCacheForDynamic(a)
      <3>1. dynamic' = None
        BY <1>0, <2>6 DEF ReadCacheForDynamic, BeforeDynamic
      <3>2. QED
        BY <1>0, <2>2, <2>6, <3>1 DEF ReadCacheForDynamic, cacheVars, TypeOK
    <2>7. CASE MakeDynamic(a)
      <3>1. /\ ipc[a] = "dynMake" /\ feeds[a] = resourceCache /\ dynamic = None
            /\ resourceCache = a /\ built[a] = client /\ discovery \in {None, client}
        BY <1>0, <2>7, ActorsAssumption DEF MakeDynamic, BeforeDynamic, SeriesInv, ClusterInv,
           CacheIsOfClient, Loaded, DiscoveryIsOfClient, Actors
      <3>2. \A b \in Actors : ipc'[b] # "dynMake" /\ ipc'[b] \notin BeforeDynamic
        BY <1>0, <2>1, <2>7 DEF MakeDynamic, BeforeDynamic, TypeOK
      <3>3. dynamic' # None => dynamic' = [cluster |-> client, feeds |-> a, discovery |-> discovery]
        BY <2>7, <3>1 DEF MakeDynamic
      <3>4. SubsystemsOnOneCluster'
        BY <2>7, <3>1, <3>3 DEF MakeDynamic, cacheVars
      <3>5. QED
        BY <2>1, <3>2, <3>4 DEF BeforeInit
    <2>8. QED
      BY <1>3, <2>3, <2>4, <2>5, <2>6, <2>7 DEF InitStep
  <1>4. ASSUME NEW a \in Actors, DiscoveryStep(a)
        PROVE  UNCHANGED <<dynamic, resourceCache, built, feeds, pc, ipc>>
    BY <1>4 DEF DiscoveryStep, DiscoverySkips, DiscoveryRuns, DiscoveryBlocks,
       DiscoveryReleased, DiscoveryOk, DiscoveryFails, DiscoveryReturns, orchVars, dynVars,
       cacheVars
  <1>5. Rest => UNCHANGED <<dynamic, resourceCache, built, feeds, pc, ipc>>
    BY DEF Rest, vars, cacheVars, dynVars, orchVars
  <1>6. QED
    BY <1>0, <1>1, <1>2, <1>3, <1>4, <1>5 DEF Next

\* A handler that reports "connected" has loaded the cache, and the next one is
\* at work before that is torn down.
LEMMA ConnectedStep ==
  ASSUME SeriesInv, Overlap = {}, Next
  PROVE  ConnectedIsServed'
  <1> USE DEF ConnectedIsServed, Active, Status
  <1>0. /\ Boot \in Actors /\ Requests \subseteq Actors /\ Boot \notin Requests
        /\ None \notin Actors /\ TypeOK /\ ConnectedIsServed
    BY ActorsAssumption DEF Actors, SeriesInv, ClusterInv
  <1>1. ASSUME NEW r \in Requests, Begin(r) \/ RequestStep(r) \/ Expire(r)
        PROVE  ConnectedIsServed'
    <2>1. CASE Expire(r)
      BY <1>0, <2>1 DEF Expire, orchVars, cacheVars, opVars
    <2>2. CASE \/ Begin(r) \/ RequestCancel(r) \/ Reset(r) \/ SwitchContextOk(r) \/ TestOk(r)
      BY <1>0, <2>2 DEF Begin, BeginRetry, BeginSwitch, RequestCancel, Reset, ResetAux,
         ResetDynamic, ResetDiscovery, StopCache, ClearCache, ResetNoCache, SwitchContextOk,
         TestOk, TypeOK
    <2>3. CASE SwitchContextFails(r) \/ TestFails(r) \/ InitFails(r)
      BY <2>3 DEF SwitchContextFails, TestFails, InitFails, Report
    <2>4. CASE InitOk(r)
      <3>1. resourceCache = r
        BY <1>0, <2>4 DEF InitOk, Report, SeriesInv, ClusterInv, CacheIsOfClient, Loaded
      <3>2. QED
        BY <1>0, <2>4, <3>1 DEF InitOk, Report, cacheVars, opVars
    <2>5. QED
      BY <1>1, <2>1, <2>2, <2>3, <2>4 DEF RequestStep
  <1>2. ASSUME BootStep
        PROVE  ConnectedIsServed'
    <2>1. CASE BootOk
      <3>1. resourceCache = Boot
        BY <1>0, <2>1 DEF BootOk, BootMoves, SeriesInv, ClusterInv, CacheIsOfClient, Loaded
      <3>2. QED
        BY <1>0, <2>1, <3>1 DEF BootOk, BootMoves, cacheVars, opVars
    <2>2. CASE BootStep /\ ~BootOk
      BY <1>0, <2>2 DEF BootStep, BootCancel, BootStart, VersionRetry, VersionOk,
         VersionFails, BootFails, BootMoves, TypeOK
    <2>3. QED
      BY <1>2, <2>1, <2>2
  <1>3. ASSUME NEW a \in Actors, InitStep(a)
        PROVE  ConnectedIsServed'
    <2>1. UNCHANGED <<pc, client>> /\ status' \in {status, Status("connecting", client)}
      BY <1>3, InitStepRuns DEF opVars, InitStep, InitStart, OnceRun, OnceBlock, OnceSkip, OnceReleased,
         ProbesCancelled, StartInformers, InstallCache, CacheLoaded, DiscoveryJoined,
         Bail, InitMoves, ReadCacheForDynamic, MakeDynamic, InitAux, Progress
    <2>2. resourceCache' = resourceCache \/ resourceCache' = a
      BY <1>3 DEF InitStep, InitStart, OnceRun, OnceBlock, OnceSkip, OnceReleased,
         ProbesCancelled, StartInformers, InstallCache, CacheLoaded, DiscoveryJoined,
         Bail, InitMoves, ReadCacheForDynamic, MakeDynamic, InitAux, cacheVars
    <2>3. QED
      BY <1>0, <2>1, <2>2
  <1>4. ASSUME NEW a \in Actors, DiscoveryStep(a)
        PROVE  UNCHANGED <<status, client, resourceCache, pc>>
    BY <1>4 DEF DiscoveryStep, DiscoverySkips, DiscoveryRuns, DiscoveryBlocks,
       DiscoveryReleased, DiscoveryOk, DiscoveryFails, DiscoveryReturns, orchVars, opVars,
       cacheVars
  <1>5. Rest => UNCHANGED <<status, client, resourceCache, pc>>
    BY DEF Rest, vars, cacheVars, opVars, orchVars
  <1>6. QED
    BY <1>0, <1>1, <1>2, <1>3, <1>4, <1>5 DEF Next

\* The parts together.
LEMMA SeriesStep ==
  ASSUME Overlap = {}, SeriesInv, [Next]_vars
  PROVE  SeriesInv'
  <1>1. CASE Next
    <2>1. TypeOK'
      BY <1>1, TypeStep DEF SeriesInv
    <2>2. Turns'
      BY <1>1, TurnsStep DEF SeriesInv
    <2>3. TeardownInv'
      BY <1>1, TypeStep, TeardownRequestStep, TeardownInitStep, TeardownOtherStep
      DEF SeriesInv, TeardownInv, Next
    <2>4. ClusterInv'
      BY <1>1, OnceIsFreshStep, CacheStep, DiscoveryInSeriesStep, DynamicStep, ConnectedStep
      DEF ClusterInv
    <2>5. QED
      BY <2>1, <2>2, <2>3, <2>4 DEF SeriesInv
  <1>2. CASE UNCHANGED vars
    <2> USE <1>2 DEF vars, opVars, orchVars, ctxVars, onceVars, cacheVars, dynVars, discVars
    <2>1. TypeOK'
      BY TypeStep DEF SeriesInv
    <2>2. Turns'
      BY DEF SeriesInv, Turns, OneAtATime, BootComesFirst, NoInitYet, Busy, Active,
         InitRunning, DiscRunning
    <2>3. TeardownInv'
      BY <2>1, TeardownOtherStep DEF SeriesInv, TeardownInv
    <2>4. OnceIsFresh' /\ CacheIsOfClient' /\ NoOrphanInformers'
      BY DEF SeriesInv, ClusterInv, OnceIsFresh, Vacant, CacheIsOfClient, Loaded,
         NoOrphanInformers
    <2>5. DiscoveryIsOfClient' /\ DynamicComesLast' /\ SubsystemsOnOneCluster'
      BY DEF SeriesInv, ClusterInv, DiscoveryIsOfClient, DynamicComesLast,
         SubsystemsOnOneCluster
    <2>6. ConnectedIsServed'
      BY DEF SeriesInv, ClusterInv, ConnectedIsServed, Active
    <2>7. QED
      BY <2>1, <2>2, <2>3, <2>4, <2>5, <2>6 DEF SeriesInv, ClusterInv
  <1>3. QED
    BY <1>1, <1>2

\* Program start.
LEMMA InitSeriesInv == Init => SeriesInv
  <1> SUFFICES ASSUME Init PROVE SeriesInv
    OBVIOUS
  <1>1. TypeOK
    BY InitTypeOK
  <1>2. Turns
    <2>1. \A a \in Actors : pc[a] = "idle" /\ ipc[a] = "off" /\ dpc[a] = "off"
      BY DEF Init
    <2>2. Boot \in Actors /\ Requests \subseteq Actors
      BY DEF Actors
    <2>3. QED
      BY <2>1, <2>2 DEF Turns, OneAtATime, BootComesFirst, NoInitYet, Busy, Active, InitRunning,
         DiscRunning
  <1>3. TeardownInv
    BY <1>1 DEF Init, TeardownInv, PublishedIsInstalled, AboutToInstallIsLive,
       StoppedCacheOnlyInTeardown
  <1>4. ClusterInv
    BY ActorsAssumption DEF Init, Status, ClusterInv, OnceIsFresh, Vacant, CacheIsOfClient,
       Loaded, DiscoveryIsOfClient, DynamicComesLast, BeforeDynamic, ConnectedIsServed,
       SubsystemsOnOneCluster, NoOrphanInformers
  <1>5. QED
    BY <1>1, <1>2, <1>3, <1>4 DEF SeriesInv

\* What the invariant says to a reader of the cache.
LEMMA SeriesInvServes ==
  SeriesInv => /\ ConnectedServesCurrentCluster /\ SubsystemsOnOneCluster
               /\ NoOrphanInformers
  <1> SUFFICES ASSUME SeriesInv, status.state = "connected", \A a \in Actors : ~Active(a)
               PROVE  ConnectedServesCurrentCluster
    BY DEF SeriesInv, ClusterInv, ConnectedServesCurrentCluster
  <1>1. resourceCache \in Actors /\ resourceCache # None /\ status.context = client
    BY DEF SeriesInv, TypeOK, ClusterInv, ConnectedIsServed
  <1>2. built[resourceCache] = client /\ informers[resourceCache] # "none"
    BY <1>1 DEF SeriesInv, ClusterInv, CacheIsOfClient
  <1>3. informers[resourceCache] # "stopped"
    BY <1>1 DEF SeriesInv, TeardownInv, StoppedCacheOnlyInTeardown, Active, Actors
  <1>4. informers[resourceCache] = "live"
    BY <1>1, <1>2, <1>3 DEF SeriesInv, TypeOK
  <1>5. QED
    BY <1>1, <1>2, <1>4 DEF ConnectedServesCurrentCluster

\* For any number of handlers in series, "connected" between handlers means a
\* cache that runs on the cluster the clients and the status name; a dynamic
\* cache feeds on that cache and knows that cluster only.
THEOREM ServedInSeries ==
  ASSUME Overlap = {}
  PROVE  Spec => [](ConnectedServesCurrentCluster /\ SubsystemsOnOneCluster)
  <1>1. SeriesInv /\ [Next]_vars => SeriesInv'
    BY SeriesStep
  <1>2. QED
    BY <1>1, InitSeriesInv, SeriesInvServes, PTL DEF Spec

\* ... and no informers run that the next teardown would not find.
THEOREM NoOrphansWithoutOverlap ==
  ASSUME Overlap = {}
  PROVE  Spec => []NoOrphanInformers
  <1>1. SeriesInv /\ [Next]_vars => SeriesInv'
    BY SeriesStep
  <1>2. QED
    BY <1>1, InitSeriesInv, SeriesInvServes, PTL DEF Spec

\* The same of the instance that is checked, in which handlers are in series
\* or beside the boot: what is promised of the former.
LEMMA SwitchingInSeries ==
  ASSUME Overlap = {}
  PROVE  SwitchingSpec => [](serial => SeriesInv)
  <1>1. SwitchingInit => (serial => SeriesInv)
    BY InitSeriesInv DEF SwitchingInit
  <1>2. (serial => SeriesInv) /\ [SwitchingNext]_switchingVars => (serial => SeriesInv)'
    <2> SUFFICES ASSUME serial => SeriesInv, [SwitchingNext]_switchingVars, serial'
                 PROVE  SeriesInv'
      OBVIOUS
    <2>1. serial /\ [Next]_vars
      BY DEF SwitchingNext, InSeries, OthersStayAway, WithTheBoot, switchingVars
    <2>2. QED
      BY <2>1, SeriesStep
  <1>3. QED
    BY <1>1, <1>2, PTL DEF SwitchingSpec

\* However many handlers follow each other, the connected cluster is served.
THEOREM OneClusterInSeriesHolds ==
  ASSUME Overlap = {}
  PROVE  SwitchingSpec => []OneClusterInSeries
  <1>1. (serial => SeriesInv) => OneClusterInSeries
    BY SeriesInvServes DEF OneClusterInSeries
  <1>2. QED
    BY <1>1, SwitchingInSeries, PTL

\* ... and leave no informers behind.
THEOREM NoOrphansInSeriesHolds ==
  ASSUME Overlap = {}
  PROVE  SwitchingSpec => []NoOrphansInSeries
  <1>1. (serial => SeriesInv) => NoOrphansInSeries
    BY SeriesInvServes DEF NoOrphansInSeries
  <1>2. QED
    BY <1>1, SwitchingInSeries, PTL

-----------------------------------------------------------------------------
(***************************************************************************)
(* The connecting screen.  It is the boot that puts the status on          *)
(* "connecting", and only until it is over.                                *)
(***************************************************************************)
BootHasReported == pc[Boot] = "done" => status.state \in {"connected", "disconnected"}

\* Whatever overlaps, a boot that is over has reported how it went, and nothing
\* takes that back.
LEMMA ReportStep ==
  ASSUME TypeOK, BootHasReported, Next
  PROVE  BootHasReported'
  <1> USE DEF BootHasReported, Status, TypeOK
  <1>0. Boot \in Actors /\ Boot \notin Requests /\ Requests \subseteq Actors
    BY ActorsAssumption DEF Actors
  <1>1. ASSUME NEW r \in Requests, Begin(r) \/ RequestStep(r) \/ Expire(r)
        PROVE  /\ pc'[Boot] = pc[Boot]
               /\ status' = status \/ status'.state \in {"connected", "disconnected"}
    BY <1>0, <1>1 DEF Begin, BeginRetry, BeginSwitch, RequestStep,
       Reset, RequestCancel, ResetAux, ResetDynamic,
       ResetDiscovery, StopCache, ClearCache, ResetNoCache, SwitchContextOk,
       SwitchContextFails, TestOk, TestFails, InitOk, InitFails, Report, Expire, orchVars
  <1>2. BootStep => BootHasReported'
    BY <1>0 DEF BootStep, BootCancel, BootStart, VersionRetry, VersionOk, VersionFails,
       BootOk, BootFails, BootMoves
  <1>3. ASSUME NEW a \in Actors, InitStep(a)
        PROVE  pc' = pc /\ (pc[Boot] = "done" => status' = status)
    BY <1>3 DEF InitStep, InitStart, OnceRun, OnceBlock, OnceSkip, OnceReleased,
       ProbesCancelled, StartInformers, InstallCache, CacheLoaded, DiscoveryJoined,
       Bail, InitMoves, ReadCacheForDynamic, MakeDynamic, InitAux, Progress, orchVars
  <1>4. ASSUME NEW a \in Actors, DiscoveryStep(a)
        PROVE  UNCHANGED <<pc, status>>
    BY <1>4 DEF DiscoveryStep, DiscoverySkips, DiscoveryRuns, DiscoveryBlocks,
       DiscoveryReleased, DiscoveryOk, DiscoveryFails, DiscoveryReturns, orchVars
  <1>5. QED
    BY <1>1, <1>2, <1>3, <1>4 DEF Next, Rest, vars, orchVars

\* Whatever overlaps, the page is not left on the connecting screen once all
\* work is over.
THEOREM NeverLeftConnectingHolds == Spec => []NeverLeftConnecting
  <1>1. Init => BootHasReported
    BY DEF Init, BootHasReported, Actors
  <1>2. TypeOK /\ BootHasReported /\ [Next]_vars => BootHasReported'
    BY ReportStep DEF BootHasReported, vars, orchVars
  <1>3. BootHasReported => NeverLeftConnecting
    BY DEF BootHasReported, NeverLeftConnecting, Actors
  <1>4. QED
    BY <1>1, <1>2, <1>3, TypeCorrect, PTL DEF Spec
=============================================================================

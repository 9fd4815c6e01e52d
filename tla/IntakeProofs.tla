--------------------------- MODULE IntakeProofs ----------------------------
(***************************************************************************)
(* Proofs about the server's intake from the cluster.                      *)
(*                                                                         *)
(* ResourceCacheSync: what holds of the staged cache start for every       *)
(* choice of kinds and timers.  One inductive invariant, in three parts:   *)
(* what the constructor has established, what the marks and the close      *)
(* stand for, and what the handler may still conclude from what it has     *)
(* read.                                                                   *)
(*                                                                         *)
(* EventRing: for every size of the ring and every batch, its indices stay *)
(* in range, and it implements EventLog.  The refinement mapping reads the *)
(* ring backwards from head (Walk).  Writing an event moves head forward   *)
(* by one, so that the slot that was i-th newest becomes (i+1)-th newest,  *)
(* and the slot written is the first.                                      *)
(* A query goes over that walk, and after each event has the page of those *)
(* it let through so far, by induction along the walk.                     *)
(***************************************************************************)
EXTENDS ResourceCacheSync, EventRing, SetInduction, SequenceTheorems

-----------------------------------------------------------------------------
(* The staged start of the informers (ResourceCacheSync). *)

\* Before it returns nothing the goroutines own has moved, and each place of
\* the constructor records what led there.
ConstructorInv ==
    /\ Deferred \subseteq deferredKeys
    /\ ctor # "returned" => /\ waiter = "off" /\ bg = "off"
                            /\ ~deferredDone
                            /\ deferredSynced = {}
    /\ ctor # "phase1" =>
           \/ timedOut
           \/ Critical \subseteq synced
           \/ patienceElapsed /\ Minimal \cap Critical \subseteq synced
    /\ ctor \in {"publish", "returned"} => Critical \subseteq synced \cup deferredKeys

\* A mark stands for a synced informer, and the close for every mark or for
\* the flag: the flag is up before the close can be seen.
MarksInv ==
    /\ deferredSynced \subseteq synced
    /\ waiter \in {"off", "scan", "select", "closing", "done"}
    /\ waiter = "closing" => deferredKeys \subseteq deferredSynced \/ deferredFailed
    /\ deferredDone => deferredKeys \subseteq deferredSynced \/ deferredFailed

\* What the handler knows at each place.
ReaderInv ==
    /\ reader.place \in {"idle", "noLister", "notFailed"} => reader.answer = None
    /\ reader.place = "noLister" => reader.kind \in Denied \cup Late
    /\ reader.place = "notFailed" => reader.kind \in Late
    /\ LateKindsServedInFull
    /\ AnswersAreExplained

SyncInv == TypeOK /\ ConstructorInv /\ MarksInv /\ ReaderInv

\* The initial states satisfy the invariant, the empty cache's too.
LEMMA InitSyncInv == Init => SyncInv
<1> SUFFICES ASSUME Init PROVE SyncInv
  OBVIOUS
<1> USE KindsAssumption, TimersAssumption, NoneAssumption
<1>1. TypeOK
  BY DEF Init, TypeOK, Enabled, Late, Kinds, NoRead, Answers
<1>2. ConstructorInv
  BY DEF Init, ConstructorInv, Enabled, Late
<1>3. MarksInv
  BY DEF Init, MarksInv, Enabled, Late
<1>4. ReaderInv
  BY DEF Init, ReaderInv, NoRead, Answers, LateKindsServedInFull, AnswersAreExplained
<1> QED
  BY <1>1, <1>2, <1>3, <1>4 DEF SyncInv
\* Informers, timers, trackers and Stop only ever add to what the invariant
\* asks to be large.
LEMMA EnvironmentSteps ==
    ASSUME SyncInv,
           \/ \E k \in Kinds : InformerSyncs(k) \/ TrackStatus(k)
           \/ \E t \in Timers : TimerFires(t)
           \/ Stop
    PROVE  SyncInv'
<1>1. TypeOK'
  <2>1. CASE \E k \in Kinds : InformerSyncs(k)
    BY <2>1 DEF SyncInv, TypeOK, InformerSyncs, ctorVars, doneVars
  <2>2. CASE \E k \in Kinds : TrackStatus(k)
    BY <2>2 DEF SyncInv, TypeOK, TrackStatus, ctorVars, infVars, doneVars
  <2>3. CASE \E t \in Timers : TimerFires(t)
    BY <2>3 DEF SyncInv, TypeOK, TimerFires, ctorVars, infVars, doneVars
  <2>4. CASE Stop
    BY <2>4 DEF SyncInv, TypeOK, Stop, ctorVars, infVars, doneVars
  <2> QED
    BY <2>1, <2>2, <2>3, <2>4
<1>2. /\ synced \subseteq synced'
      /\ UNCHANGED <<ctorVars, doneVars, waiter, bg, reader>>
  BY DEF InformerSyncs, TrackStatus, TimerFires, Stop, ctorVars, infVars, doneVars
<1>3. ConstructorInv'
  BY <1>2 DEF SyncInv, ConstructorInv, ctorVars, doneVars
<1>4. MarksInv'
  BY <1>2 DEF SyncInv, MarksInv, ctorVars, doneVars
<1>5. ReaderInv'
  BY <1>2 DEF SyncInv, ReaderInv, LateKindsServedInFull, AnswersAreExplained, doneVars
<1> QED
  BY <1>1, <1>3, <1>4, <1>5 DEF SyncInv

\* The constructor: the only steps that change what it has established.
LEMMA ConstructorSteps ==
    ASSUME SyncInv, PatienceRunsOut \/ LeavePhase1 \/ Promote \/ Publish
    PROVE  SyncInv'
<1>1. CASE PatienceRunsOut
  <2>1. TypeOK'
    BY <1>1 DEF SyncInv, TypeOK, PatienceRunsOut, infVars, doneVars
  <2>2. ConstructorInv' /\ MarksInv' /\ ReaderInv'
    BY <1>1 DEF SyncInv, ConstructorInv, MarksInv, ReaderInv, PatienceRunsOut,
                infVars, doneVars, LateKindsServedInFull, AnswersAreExplained
  <2> QED
    BY <2>1, <2>2 DEF SyncInv
<1>2. CASE LeavePhase1
  <2>1. TypeOK'
    <3>1. timedOut' = TRUE \/ timedOut' = FALSE
      BY <1>2, Zenon DEF LeavePhase1
    <3>2. ctor' = "promote" /\ UNCHANGED <<patienceElapsed, promotedKinds,
          deferredKeys, fired, infVars, statuses, doneVars, waiter, bg, stopped, reader>>
      BY <1>2, Zenon DEF LeavePhase1
    <3>3. timedOut' \in BOOLEAN
      BY <3>1
    <3> QED
      BY <3>2, <3>3 DEF SyncInv, TypeOK, infVars, doneVars
  <2>2. ConstructorInv'
    BY <1>2 DEF SyncInv, ConstructorInv, LeavePhase1, infVars, doneVars,
                CriticalSynced, MinimalReady
  <2>3. MarksInv' /\ ReaderInv'
    BY <1>2 DEF SyncInv, MarksInv, ReaderInv, LeavePhase1, infVars, doneVars,
                LateKindsServedInFull, AnswersAreExplained
  <2> QED
    BY <2>1, <2>2, <2>3 DEF SyncInv
<1>3. CASE Promote
  <2>1. TypeOK'
    BY <1>3 DEF SyncInv, TypeOK, Promote, infVars, doneVars
  <2>2. ConstructorInv'
    BY <1>3 DEF SyncInv, ConstructorInv, Promote, infVars, doneVars
  <2>3. MarksInv'
    BY <1>3 DEF SyncInv, ConstructorInv, MarksInv, Promote, infVars, doneVars
  <2>4. ReaderInv'
    BY <1>3 DEF SyncInv, ReaderInv, Promote, infVars, doneVars,
                LateKindsServedInFull, AnswersAreExplained
  <2> QED
    BY <2>1, <2>2, <2>3, <2>4 DEF SyncInv
<1>4. CASE Publish
  <2>1. TypeOK'
    BY <1>4 DEF SyncInv, TypeOK, Publish, Enabled, Late
  <2>2. ConstructorInv'
    BY <1>4 DEF SyncInv, ConstructorInv, Publish
  <2>3. MarksInv'
    BY <1>4 DEF SyncInv, MarksInv, Publish
  <2>4. ReaderInv'
    BY <1>4 DEF SyncInv, ReaderInv, Publish, LateKindsServedInFull, AnswersAreExplained
  <2> QED
    BY <2>1, <2>2, <2>3, <2>4 DEF SyncInv
<1> QED
  BY <1>1, <1>2, <1>3, <1>4

\* The two goroutines: marks only for synced informers, the flag before the
\* close, and nothing a handler relied on is taken back.
LEMMA GoroutineSteps ==
    ASSUME SyncInv,
           \/ Scan \/ ScanAgain \/ GiveUp \/ CloseDone
           \/ BackgroundSynced \/ BackgroundStopped
    PROVE  SyncInv'
<1>1. TypeOK'
  <2>1. CASE Scan
    BY <2>1 DEF SyncInv, TypeOK, Scan, ctorVars, infVars
  <2>2. CASE ScanAgain
    BY <2>2 DEF SyncInv, TypeOK, ScanAgain, ctorVars, infVars, doneVars
  <2>3. CASE GiveUp \/ BackgroundStopped
    BY <2>3 DEF SyncInv, TypeOK, GiveUp, BackgroundStopped, ctorVars, infVars
  <2>4. CASE CloseDone
    BY <2>4 DEF SyncInv, TypeOK, CloseDone, ctorVars, infVars
  <2>5. CASE BackgroundSynced
    BY <2>5 DEF SyncInv, TypeOK, BackgroundSynced, ctorVars, infVars
  <2> QED
    BY <2>1, <2>2, <2>3, <2>4, <2>5
<1>2. ConstructorInv'
  BY DEF SyncInv, ConstructorInv, Scan, ScanAgain, GiveUp, CloseDone,
         BackgroundSynced, BackgroundStopped, ctorVars, infVars, doneVars
<1>3. MarksInv'
  BY DEF SyncInv, MarksInv, Scan, ScanAgain, GiveUp, CloseDone,
         BackgroundSynced, BackgroundStopped, ctorVars, infVars, doneVars
<1>4. /\ deferredSynced \subseteq deferredSynced'
      /\ deferredFailed => deferredFailed'
      /\ UNCHANGED <<synced, reader>>
  BY DEF SyncInv, TypeOK, Scan, ScanAgain, GiveUp, CloseDone, BackgroundSynced,
         BackgroundStopped, ctorVars, infVars, doneVars
<1>5. ReaderInv'
  BY <1>4 DEF SyncInv, ReaderInv, LateKindsServedInFull, AnswersAreExplained
<1> QED
  BY <1>1, <1>2, <1>3, <1>5 DEF SyncInv

\* The handler: each answer follows from what it has read so far.
LEMMA ReaderSteps ==
    ASSUME SyncInv,
           \/ \E k \in Kinds : ReadLister(k)
           \/ ReadFailed \/ ReadSynced \/ ReaderReturns
    PROVE  SyncInv'
<1> USE NoneAssumption DEF Answers
<1>1. UNCHANGED <<ctorVars, fired, infVars, statuses, doneVars, waiter, bg, stopped>>
  BY DEF ReadLister, ReadFailed, ReadSynced, ReaderReturns
<1>2. ConstructorInv' /\ MarksInv'
  BY <1>1 DEF SyncInv, ConstructorInv, MarksInv, ctorVars, infVars, doneVars
<1>3. TypeOK' /\ ReaderInv'
  <2>1. CASE \E k \in Kinds : ReadLister(k)
    <3>1. PICK k \in Kinds : ReadLister(k)
      BY <2>1
    <3>2. CASE IsReady(k)
      <4>1. reader' = [place |-> "answered", kind |-> k, answer |-> "items"]
        BY <3>1, <3>2 DEF ReadLister, Answer
      <4>2. k \in Late => k \in synced
        BY <3>2 DEF IsReady, SyncInv, MarksInv
      <4> QED
        BY <1>1, <4>1, <4>2 DEF SyncInv, TypeOK, ReaderInv, LateKindsServedInFull,
           AnswersAreExplained, ctorVars, infVars, doneVars
    <3>3. CASE ~IsReady(k)
      <4>1. reader' = [place |-> "noLister", kind |-> k, answer |-> None]
        BY <3>1, <3>3 DEF ReadLister
      <4>2. k \in Denied \cup Late
        BY <3>3 DEF IsReady, Kinds
      <4> QED
        BY <1>1, <4>1, <4>2 DEF SyncInv, TypeOK, ReaderInv, LateKindsServedInFull,
           AnswersAreExplained, ctorVars, infVars, doneVars
    <3> QED
      BY <3>2, <3>3
  <2>2. CASE ReadFailed
    BY <1>1, <2>2 DEF SyncInv, TypeOK, ReaderInv, ReadFailed, Answer,
       LateKindsServedInFull, AnswersAreExplained, ctorVars, infVars, doneVars
  <2>3. CASE ReadSynced
    BY <1>1, <2>3 DEF SyncInv, TypeOK, ReaderInv, ReadSynced, Answer,
       LateKindsServedInFull, AnswersAreExplained, ctorVars, infVars, doneVars
  <2>4. CASE ReaderReturns
    BY <1>1, <2>4 DEF SyncInv, TypeOK, ReaderInv, ReaderReturns, NoRead,
       LateKindsServedInFull, AnswersAreExplained, ctorVars, infVars, doneVars
  <2> QED
    BY <2>1, <2>2, <2>3, <2>4
<1> QED
  BY <1>2, <1>3 DEF SyncInv

\* The invariant holds in every reachable state.
LEMMA SyncInvariant == Spec => []SyncInv
<1>1. Init => SyncInv
  BY InitSyncInv
<1>2. SyncInv /\ [Next]_vars => SyncInv'
  <2> SUFFICES ASSUME SyncInv, [Next]_vars PROVE SyncInv'
    OBVIOUS
  <2>1. CASE Next
    BY <2>1, EnvironmentSteps, ConstructorSteps, GoroutineSteps, ReaderSteps DEF Next
  <2>2. CASE UNCHANGED vars
    BY <2>2 DEF vars, ctorVars, infVars, doneVars, SyncInv, TypeOK, ConstructorInv,
       MarksInv, ReaderInv, LateKindsServedInFull, AnswersAreExplained
  <2> QED
    BY <2>1, <2>2
<1> QED
  BY <1>1, <1>2, PTL DEF Spec

-----------------------------------------------------------------------------
\* The staged start keeps its types: in particular an informer is only synced
\* once started, and only kinds that are waited for are ever marked.
THEOREM SyncTypeCorrect == Spec => []TypeOK
<1>1. SyncInv => TypeOK
  BY DEF SyncInv
<1> QED
  BY <1>1, SyncInvariant, PTL

\* The constructor never returns early without a configured reason, and never
\* forgets a critical kind it returns without.
THEOREM FirstPaintIsEarnedHolds == Spec => []FirstPaintIsEarned
<1>1. SyncInv => FirstPaintIsEarned
  BY DEF SyncInv, ConstructorInv, FirstPaintIsEarned
<1> QED
  BY <1>1, SyncInvariant, PTL

\* IsDeferredSynced never says yes while a deferred or promoted kind lacks data.
THEOREM DeferredDoneIsTruthfulHolds == Spec => []DeferredDoneIsTruthful
<1>1. SyncInv => DeferredDoneIsTruthful
  BY DEF SyncInv, ConstructorInv, MarksInv, DeferredDoneIsTruthful, IsDeferredSynced
<1> QED
  BY <1>1, SyncInvariant, PTL

\* No list of Secrets, Events or any other late kind is served half filled.
THEOREM LateKindsServedInFullHolds == Spec => []LateKindsServedInFull
<1>1. SyncInv => LateKindsServedInFull
  BY DEF SyncInv, ReaderInv
<1> QED
  BY <1>1, SyncInvariant, PTL

\* A "forbidden" or a "loading" answer always has one of its stated causes.
THEOREM AnswersAreExplainedHolds == Spec => []AnswersAreExplained
<1>1. SyncInv => AnswersAreExplained
  BY DEF SyncInv, ReaderInv
<1> QED
  BY <1>1, SyncInvariant, PTL

-----------------------------------------------------------------------------
(* The ring of the timeline (EventRing). *)

\* The slots of a ring of n, walked backwards from position h: the remainder
\* wraps at most once.
LEMMA SlotIs ==
  ASSUME NEW n \in Nat \ {0}, NEW h \in 0 .. n - 1, NEW i \in 1 .. n
  PROVE  (h - i + n) % n = IF i <= h THEN h - i ELSE h - i + n
  OBVIOUS

\* The next write position.
LEMMA NextHead ==
  ASSUME NEW n \in Nat \ {0}, NEW h \in 0 .. n - 1
  PROVE  (h + 1) % n = IF h + 1 = n THEN 0 ELSE h + 1
  OBVIOUS

-----------------------------------------------------------------------------
(* Type correctness. *)

\* Writing one event keeps the ring's indices in range.
LEMMA WriteTypeOK ==
  ASSUME RingTypeOK, NEW e \in Events, Write(e)
  PROVE  /\ records' \in [Slots -> Events \cup {Empty}]
         /\ head' \in Slots
         /\ count' \in 0 .. MaxSize
  <1>1. head' = IF head + 1 = MaxSize THEN 0 ELSE head + 1
    BY SizeAssumption, NextHead DEF RingTypeOK, Write, Slots
  <1>2. head' \in Slots
    BY <1>1, SizeAssumption DEF RingTypeOK, Slots
  <1>3. QED
    BY <1>2, SizeAssumption DEF RingTypeOK, Write

\* Every step preserves the type invariant.
LEMMA TypeStep == RingTypeOK /\ [RingNext]_ringVars => RingTypeOK'
  <1> SUFFICES ASSUME RingTypeOK, [RingNext]_ringVars PROVE RingTypeOK'
    OBVIOUS
  <1>1. CASE \E e \in Events : AppendOne(e)
    <2>1. PICK e \in Events : AppendOne(e)
      BY <1>1
    <2>2. QED
      BY <2>1, WriteTypeOK DEF AppendOne, RingTypeOK
  <1>2. CASE \E events \in Batches : AppendBatch(events)
    <2>1. PICK events \in Batches : AppendBatch(events)
      BY <1>2
    <2>2. PICK n \in 1 .. MaxBatch : events \in [1 .. n -> Events]
      BY <2>1 DEF Batches
    <2>3. events \in Seq(Events)
      BY <2>2, LimitsAssumption
    <2>4. QED
      BY <2>1, <2>3 DEF AppendBatch, RingTypeOK
  <1>3. CASE WriteNext
    <2>1. Head(writing) \in Events /\ Tail(writing) \in Seq(Events)
      BY <1>3 DEF WriteNext, RingTypeOK
    <2>2. QED
      BY <1>3, <2>1, WriteTypeOK DEF WriteNext, RingTypeOK
  <1>4. CASE UNCHANGED ringVars
    BY <1>4 DEF ringVars, RingTypeOK
  <1>5. QED
    BY <1>1, <1>2, <1>3, <1>4 DEF RingNext

\* head and count never leave the ring (EventRing TypeOK), whatever its size.
THEOREM RingTypeCorrect == RingSpec => []RingTypeOK
  <1>1. RingInit => RingTypeOK
    BY SizeAssumption DEF RingInit, RingTypeOK, Slots
  <1>2. QED
    BY <1>1, TypeStep, PTL DEF RingSpec

-----------------------------------------------------------------------------
(* The ring implements the log. *)

\* What Walk returns: count events, the i-th newest in Slot(i).
LEMMA WalkIs ==
  ASSUME RingTypeOK
  PROVE  /\ Len(Walk) = count
         /\ DOMAIN Walk = 1 .. count
         /\ \A i \in 1 .. count :
               Walk[i] = records[IF i <= head THEN head - i ELSE head - i + MaxSize]
  <1>1. DOMAIN Walk = 1 .. count /\ count \in Nat
    BY SizeAssumption DEF Walk, RingTypeOK
  <1>2. Len(Walk) = count
    BY <1>1 DEF Walk
  <1>3. ASSUME NEW i \in 1 .. count
        PROVE  Walk[i] = records[IF i <= head THEN head - i ELSE head - i + MaxSize]
    <2>1. head \in 0 .. MaxSize - 1 /\ i \in 1 .. MaxSize /\ MaxSize \in Nat \ {0}
      BY <1>3, SizeAssumption DEF RingTypeOK, Slots
    <2>2. Slot(i) = IF i <= head THEN head - i ELSE head - i + MaxSize
      BY <2>1, SlotIs DEF Slot
    <2> QED
      BY <1>3, <2>2 DEF Walk
  <1>4. QED
    BY <1>1, <1>2, <1>3

\* Writing an event pushes it onto the log.
LEMMA WritePushes ==
  ASSUME RingTypeOK, RingTypeOK', NEW e \in Events, Write(e)
  PROVE  Log!Push(e)
  <1> DEFINE n == IF Len(Walk) < MaxSize THEN Len(Walk) + 1 ELSE MaxSize
  <1>1. head' = IF head + 1 = MaxSize THEN 0 ELSE head + 1
    BY SizeAssumption, NextHead DEF RingTypeOK, Write, Slots
  <1>2. count' = n
    BY WalkIs, SizeAssumption DEF Write, RingTypeOK
  <1>3. Walk' = [i \in 1 .. count' |-> records'[(head' - i + MaxSize) % MaxSize]]
    BY DEF Walk, Slot
  <1>4. ASSUME NEW i \in 1 .. n
        PROVE  Walk'[i] = IF i = 1 THEN e ELSE Walk[i - 1]
    <2>1. i \in 1 .. MaxSize /\ n \in 1 .. MaxSize
      BY <1>2, <1>4, SizeAssumption DEF RingTypeOK
    <2>2. Walk'[i] = records'[IF i <= head' THEN head' - i ELSE head' - i + MaxSize]
      BY <1>2, <1>3, <2>1, SizeAssumption, SlotIs DEF RingTypeOK, Slots
    <2>3. CASE i = 1
      <3>1. (IF i <= head' THEN head' - i ELSE head' - i + MaxSize) = head
        BY <1>1, <2>3, SizeAssumption DEF RingTypeOK, Slots
      <3>2. QED
        BY <2>2, <2>3, <3>1 DEF Write, RingTypeOK
    <2>4. CASE i # 1
      <3>1. i - 1 \in 1 .. count
        BY <2>1, <2>4, WalkIs, SizeAssumption DEF RingTypeOK
      <3>2. (IF i <= head' THEN head' - i ELSE head' - i + MaxSize)
              = IF i - 1 <= head THEN head - (i - 1) ELSE head - (i - 1) + MaxSize
        BY <1>1, <2>1, <2>4, SizeAssumption DEF RingTypeOK, Slots
      <3>3. /\ (IF i - 1 <= head THEN head - (i - 1) ELSE head - (i - 1) + MaxSize) \in Slots
            /\ (IF i - 1 <= head THEN head - (i - 1) ELSE head - (i - 1) + MaxSize) # head
        BY <2>1, <2>4, SizeAssumption DEF RingTypeOK, Slots
      <3>4. QED
        BY <2>2, <2>4, <3>1, <3>2, <3>3, WalkIs DEF Write, RingTypeOK
    <2>5. QED
      BY <2>3, <2>4
  <1>5. Walk' = [i \in 1 .. n |-> IF i = 1 THEN e ELSE Walk[i - 1]]
    BY <1>2, <1>3, <1>4
  <1>6. QED
    BY <1>5 DEF Log!Push

\* Every step of the ring is a step of the log or leaves it as it was: taking
\* up a batch does, and each of its events is pushed in turn.
LEMMA RingStep ==
  RingTypeOK /\ RingTypeOK' /\ [RingNext]_ringVars => [Log!Next]_Walk
  <1> SUFFICES ASSUME RingTypeOK, RingTypeOK', [RingNext]_ringVars PROVE [Log!Next]_Walk
    OBVIOUS
  <1>1. ASSUME NEW e \in Events, AppendOne(e) PROVE Log!Next
    BY <1>1, WritePushes DEF AppendOne, Log!Next
  <1>2. ASSUME NEW events \in Batches, AppendBatch(events) PROVE UNCHANGED Walk
    BY <1>2 DEF AppendBatch, Walk, Slot
  <1>3. CASE WriteNext
    <2>1. Head(writing) \in Events
      BY <1>3 DEF WriteNext, RingTypeOK
    <2>2. QED
      BY <1>3, <2>1, WritePushes DEF WriteNext, Log!Next
  <1>4. CASE UNCHANGED ringVars
    BY <1>4 DEF ringVars, Walk, Slot
  <1>5. QED
    BY <1>1, <1>2, <1>3, <1>4 DEF RingNext

\* MemoryStore keeps the newest maxSize events in the order they were added,
\* for every maxSize and batch size (EventRing KeepsTheNewest).
THEOREM RingImplementsLog == RingSpec => KeepsTheNewest
  <1>1. RingInit => Log!Init
    <2> SUFFICES ASSUME RingInit PROVE Walk = <<>>
      BY DEF Log!Init
    <2>1. Walk = [i \in 1 .. 0 |-> records[Slot(i)]]
      BY DEF RingInit, Walk
    <2>2. QED
      BY <2>1
  <1>2. QED
    BY <1>1, RingTypeCorrect, RingStep, PTL DEF RingSpec, KeepsTheNewest, Log!Spec

-----------------------------------------------------------------------------
(* A query answers with a page of what it lets through. *)

PageTypes == [skipped : Nat, results : Seq(Events)]
FirstPage == [skipped |-> 0, results |-> <<>>]
Smaller(m, n) == IF m <= n THEN m ELSE n
Skips(query) == IF query.offset > 0 THEN query.offset ELSE 0

\* What a query asks for, and that its limit is a positive number.
LEMMA QueryIs ==
  ASSUME NEW query \in Queries
  PROVE  /\ query.wanted \subseteq Events /\ query.limit \in Int /\ query.offset \in Int
         /\ Limit(query.limit) \in Nat \ {0}
         /\ Skips(query) \in Nat
  <1>1. query.wanted \subseteq Events /\ query.limit \in Int /\ query.offset \in Int
    BY SizeAssumption, LimitsAssumption DEF Queries
  <1>2. Limit(query.limit) \in Nat \ {0}
    BY <1>1, LimitsAssumption DEF Limit
  <1>3. Skips(query) \in Nat
    BY <1>1 DEF Skips
  <1> QED
    BY <1>1, <1>2, <1>3

\* The slots walked hold events, or nothing.
LEMMA WalkTypes ==
  ASSUME RingTypeOK, NEW i \in 1 .. count
  PROVE  Walk[i] \in Events \cup {Empty}
  <1>1. /\ head \in 0 .. MaxSize - 1 /\ i \in 1 .. MaxSize /\ MaxSize \in Nat
        /\ records \in [0 .. MaxSize - 1 -> Events \cup {Empty}]
    BY SizeAssumption DEF RingTypeOK, Slots
  <1>2. (IF i <= head THEN head - i ELSE head - i + MaxSize) \in 0 .. MaxSize - 1
    BY <1>1
  <1>3. Walk[i] = records[IF i <= head THEN head - i ELSE head - i + MaxSize]
    BY WalkIs
  <1> QED
    BY <1>1, <1>2, <1>3

\* A visit leaves the page as it was, skips, or adds the event.
LEMMA VisitTypes ==
  ASSUME NEW query \in Queries, NEW page \in PageTypes, NEW event
  PROVE  Visit(query, page, event) \in PageTypes
  <1>1. page.skipped \in Nat /\ page.results \in Seq(Events)
    BY DEF PageTypes
  <1>2. CASE event \notin query.wanted
    BY <1>2 DEF Visit
  <1>3. CASE event \in query.wanted
    <2>1. event \in Events
      BY <1>3, QueryIs
    <2>2. Append(page.results, event) \in Seq(Events)
      BY <1>1, <2>1
    <2>3. [page EXCEPT !.skipped = @ + 1] \in PageTypes
      BY <1>1 DEF PageTypes
    <2>4. [page EXCEPT !.results = Append(@, event)] \in PageTypes
      BY <1>1, <2>2 DEF PageTypes
    <2> QED BY <2>3, <2>4, Zenon DEF Visit
  <1> QED
    BY <1>2, <1>3

\* Pages is what its definition says: nothing, then one visit after the other.
LEMMA PagesAre ==
  ASSUME RingTypeOK, NEW query \in Queries
  PROVE  /\ Pages(query)[0] = FirstPage
         /\ \A i \in 1 .. count : Pages(query)[i] = Visit(query, Pages(query)[i - 1], Walk[i])
  <1>0. count \in Nat
    BY DEF RingTypeOK
  <1> DEFINE visit == [i \in 1 .. count |-> [page \in PageTypes |-> Visit(query, page, Walk[i])]]
             body(g) == [i \in 0 .. count |->
                           IF i = 0 THEN [skipped |-> 0, results |-> <<>>]
                           ELSE Visit(query, g[i - 1], Walk[i])]
  <1>1. \A i \in 1 .. count : \A page \in PageTypes : visit[i][page] = Visit(query, page, Walk[i])
    OBVIOUS
  <1>2. visit \in [1 .. count -> [PageTypes -> PageTypes]]
    BY VisitTypes
  <1> HIDE DEF visit
  <1>3. FirstPage \in PageTypes
    BY DEF FirstPage, PageTypes
  <1>4. PICK g \in [0 .. count -> PageTypes] :
            g[0] = FirstPage /\ \A i \in 1 .. count : g[i] = visit[i][g[i - 1]]
    <2>1. StepByStep(count, PageTypes, FirstPage, visit) # {}
      BY <1>0, <1>2, <1>3, StepsCanBeTaken
    <2> QED BY <2>1 DEF StepByStep
  <1>5. ASSUME NEW i \in 1 .. count
        PROVE  g[i] = Visit(query, g[i - 1], Walk[i])
    <2>1. i - 1 \in 0 .. count
      BY <1>0
    <2>2. g[i - 1] \in PageTypes
      BY <1>4, <2>1
    <2> QED BY <1>1, <1>4, <2>2
  <1>6. g = body(g)
    <2>1. ASSUME NEW i \in 0 .. count
          PROVE  g[i] = body(g)[i]
      <3>1. CASE i = 0
        BY <1>4, <3>1 DEF FirstPage
      <3>2. CASE i # 0
        <4>1. i \in 1 .. count
          BY <1>0, <3>2
        <4> QED BY <1>5, <3>2, <4>1
      <3> QED BY <3>1, <3>2
    <2> QED BY <2>1
  <1>7. Pages(query) = body(Pages(query))
    BY <1>6, Zenon DEF Pages
  <1>8. ASSUME NEW i \in 0 .. count
        PROVE  Pages(query)[i] = body(Pages(query))[i]
    BY <1>7, Zenon
  <1>9. Pages(query)[0] = FirstPage
    <2>1. 0 \in 0 .. count
      BY <1>0
    <2> QED BY <1>8, <2>1 DEF FirstPage
  <1>10. ASSUME NEW i \in 1 .. count
         PROVE  Pages(query)[i] = Visit(query, Pages(query)[i - 1], Walk[i])
    <2>1. i \in 0 .. count /\ i # 0
      BY <1>0
    <2>2. body(Pages(query))[i] = Visit(query, Pages(query)[i - 1], Walk[i])
      BY <2>1
    <2> HIDE DEF body
    <2> QED BY <1>8, <2>1, <2>2
  <1> QED
    BY <1>9, <1>10

\* Matching is what its definition says: nothing, then each event let through.
LEMMA MatchingIs ==
  ASSUME RingTypeOK, NEW wanted \in SUBSET Events
  PROVE  /\ Matching(wanted)[0] = <<>>
         /\ \A i \in 1 .. count :
              Matching(wanted)[i] = IF Walk[i] \in wanted
                                    THEN Append(Matching(wanted)[i - 1], Walk[i])
                                    ELSE Matching(wanted)[i - 1]
         /\ \A i \in 0 .. count : Matching(wanted)[i] \in Seq(Events)
  <1>0. count \in Nat
    BY DEF RingTypeOK
  <1> DEFINE let == [i \in 1 .. count |-> [s \in Seq(Events) |->
                       IF Walk[i] \in wanted THEN Append(s, Walk[i]) ELSE s]]
             body(g) == [i \in 0 .. count |->
                           IF i = 0 THEN <<>>
                           ELSE IF Walk[i] \in wanted THEN Append(g[i - 1], Walk[i]) ELSE g[i - 1]]
  <1>1. ASSUME NEW i \in 1 .. count, NEW s \in Seq(Events)
        PROVE  (IF Walk[i] \in wanted THEN Append(s, Walk[i]) ELSE s) \in Seq(Events)
    <2>1. CASE Walk[i] \in wanted
      <3>1. Append(s, Walk[i]) \in Seq(Events)
        BY <2>1
      <3> QED BY <2>1, <3>1
    <2> QED BY <2>1
  <1>2. \A i \in 1 .. count : \A s \in Seq(Events) :
            let[i][s] = IF Walk[i] \in wanted THEN Append(s, Walk[i]) ELSE s
    OBVIOUS
  <1>3. let \in [1 .. count -> [Seq(Events) -> Seq(Events)]]
    BY <1>1
  <1> HIDE DEF let
  <1>4. PICK g \in [0 .. count -> Seq(Events)] :
            g[0] = <<>> /\ \A i \in 1 .. count : g[i] = let[i][g[i - 1]]
    <2>1. <<>> \in Seq(Events)
      OBVIOUS
    <2>2. StepByStep(count, Seq(Events), <<>>, let) # {}
      BY <1>0, <1>3, <2>1, StepsCanBeTaken
    <2> QED BY <2>2 DEF StepByStep
  <1>5. ASSUME NEW i \in 1 .. count
        PROVE  g[i] = IF Walk[i] \in wanted THEN Append(g[i - 1], Walk[i]) ELSE g[i - 1]
    <2>1. i - 1 \in 0 .. count
      BY <1>0
    <2>2. g[i - 1] \in Seq(Events)
      BY <1>4, <2>1
    <2> QED BY <1>2, <1>4, <2>2
  <1>6. g = body(g)
    <2>1. ASSUME NEW i \in 0 .. count
          PROVE  g[i] = body(g)[i]
      <3>1. CASE i = 0
        BY <1>4, <3>1
      <3>2. CASE i # 0
        <4>1. i \in 1 .. count
          BY <1>0, <3>2
        <4> QED BY <1>5, <3>2, <4>1
      <3> QED BY <3>1, <3>2
    <2> QED BY <2>1
  <1>7. Matching(wanted) = body(Matching(wanted))
    BY <1>6, Zenon DEF Matching
  <1>8. ASSUME NEW i \in 0 .. count
        PROVE  Matching(wanted)[i] = body(Matching(wanted))[i]
    BY <1>7, Zenon
  <1>9. Matching(wanted)[0] = <<>>
    <2>1. 0 \in 0 .. count
      BY <1>0
    <2> QED BY <1>8, <2>1
  <1>10. ASSUME NEW i \in 1 .. count
         PROVE  Matching(wanted)[i] = IF Walk[i] \in wanted
                                      THEN Append(Matching(wanted)[i - 1], Walk[i])
                                      ELSE Matching(wanted)[i - 1]
    <2>1. i \in 0 .. count /\ i # 0
      BY <1>0
    <2>2. body(Matching(wanted))[i] = IF Walk[i] \in wanted
                                      THEN Append(Matching(wanted)[i - 1], Walk[i])
                                      ELSE Matching(wanted)[i - 1]
      BY <2>1
    <2> HIDE DEF body
    <2> QED BY <1>8, <2>1, <2>2
  <1> DEFINE S == {i \in 0 .. count : Matching(wanted)[i] \in Seq(Events)}
  <1>11. 0 \in S
    BY <1>0, <1>9
  <1>12. ASSUME NEW n \in 0 .. count - 1, n \in S
         PROVE  n + 1 \in S
    <2>1. n + 1 \in 1 .. count /\ n + 1 \in 0 .. count /\ (n + 1) - 1 = n
      BY <1>0
    <2>2. Matching(wanted)[n] \in Seq(Events)
      BY <1>12
    <2>3. Matching(wanted)[n + 1] \in Seq(Events)
      BY <1>1, <1>10, <2>1, <2>2
    <2> QED BY <2>1, <2>3
  <1> HIDE DEF S
  <1>13. 0 .. count \subseteq S
    BY <1>0, <1>11, <1>12, BoundedInduction
  <1>14. \A i \in 0 .. count : Matching(wanted)[i] \in Seq(Events)
    BY <1>13 DEF S
  <1> QED
    BY <1>9, <1>10, <1>14

\* The page of a sequence m: what comes after the offset, up to the limit.
PageOf(query, page, m) ==
    LET O == Skips(query)
        L == Limit(query.limit)
    IN  /\ page.skipped = Smaller(O, Len(m))
        /\ page.results \in Seq(Events)
        /\ Len(page.results) = IF Len(m) <= O THEN 0 ELSE Smaller(L, Len(m) - O)
        /\ \A j \in 1 .. Len(page.results) : page.results[j] = m[O + j]

\* A visit turns the page of the events so far into the page with the one
\* visited: it passes by what the filters keep back, and of the rest counts
\* the first, adds the next and leaves out what comes after.
LEMMA VisitPages ==
  ASSUME NEW query \in Queries, NEW m \in Seq(Events), NEW page \in PageTypes,
         PageOf(query, page, m), NEW event
  PROVE  PageOf(query, Visit(query, page, event),
                IF event \in query.wanted THEN Append(m, event) ELSE m)
  <1> DEFINE O == Skips(query)
             L == Limit(query.limit)
             r == page.results
  <1>1. /\ O \in Nat /\ L \in Nat \ {0} /\ Len(m) \in Nat
        /\ r \in Seq(Events) /\ Len(r) \in Nat
        /\ page.skipped = Smaller(O, Len(m))
        /\ Len(r) = IF Len(m) <= O THEN 0 ELSE Smaller(L, Len(m) - O)
        /\ \A j \in 1 .. Len(r) : r[j] = m[O + j]
    BY QueryIs DEF PageOf, PageTypes
  <1>2. CASE event \notin query.wanted
    <2>1. Visit(query, page, event) = page
      BY <1>2 DEF Visit
    <2> QED BY <1>2, <2>1
  <1>3. CASE event \in query.wanted
    <2> DEFINE n == Append(m, event)
    <2>1. event \in Events /\ event # Empty
      BY <1>3, QueryIs, LimitsAssumption
    <2>n. /\ Len(n) = Len(m) + 1
          /\ \A j \in 1 .. Len(m) : n[j] = m[j]
          /\ n[Len(m) + 1] = event
      BY <2>1, AppendProperties
    <2> HIDE DEF n
    <2>2. CASE Len(m) < O
      <3>1. /\ page.skipped = Len(m) /\ Len(r) = 0
        BY <1>1, <2>2 DEF Smaller
      <3>2. query.offset = O /\ query.offset > 0
        BY <1>1, <2>2, QueryIs DEF Skips
      <3>3. Visit(query, page, event) = [page EXCEPT !.skipped = @ + 1]
        <4>1. ~ (Len(r) >= L) /\ page.skipped < query.offset
          BY <1>1, <2>2, <3>1, <3>2
        <4> QED BY <1>3, <2>1, <3>2, <4>1 DEF Visit
      <3>4. PICK q : q = Visit(query, page, event)
        OBVIOUS
      <3>5. q.skipped = Len(m) + 1 /\ q.results = r
        BY <3>1, <3>3, <3>4 DEF PageTypes
      <3>6. Smaller(O, Len(n)) = Len(m) + 1 /\ Len(n) <= O
        BY <1>1, <2>2, <2>n DEF Smaller
      <3>7. PageOf(query, q, n)
        BY <1>1, <3>1, <3>5, <3>6 DEF PageOf
      <3> QED BY <1>3, <3>4, <3>7 DEF n
    <2>3. CASE ~ (Len(m) < O) /\ Len(m) < O + L
      <3>1. page.skipped = O /\ Len(r) = Len(m) - O /\ ~ (Len(r) >= L)
        BY <1>1, <2>3 DEF Smaller
      <3>2. ~ (query.offset > 0 /\ page.skipped < query.offset)
        BY <3>1, QueryIs DEF Skips
      <3>3. Visit(query, page, event) = [page EXCEPT !.results = Append(@, event)]
        BY <1>3, <2>1, <3>1, <3>2 DEF Visit
      <3>4. PICK q : q = Visit(query, page, event)
        OBVIOUS
      <3>5. q.skipped = O /\ q.results = Append(r, event)
        BY <3>1, <3>3, <3>4 DEF PageTypes
      <3>6. /\ q.results \in Seq(Events) /\ Len(q.results) = Len(r) + 1
            /\ \A j \in 1 .. Len(r) : q.results[j] = r[j]
            /\ q.results[Len(r) + 1] = event
        BY <1>1, <2>1, <3>5, AppendProperties
      <3>7. Smaller(O, Len(n)) = O /\ ~ (Len(n) <= O)
        BY <1>1, <2>3, <2>n DEF Smaller
      <3>8. Smaller(L, Len(n) - O) = Len(r) + 1
        BY <1>1, <2>3, <2>n, <3>1 DEF Smaller
      <3>9. ASSUME NEW j \in 1 .. Len(q.results)
            PROVE  q.results[j] = n[O + j]
        <4>1. CASE j = Len(r) + 1
          <5>1. O + j = Len(m) + 1
            BY <1>1, <3>1, <4>1
          <5> QED BY <2>n, <3>6, <4>1, <5>1
        <4>2. CASE j # Len(r) + 1
          <5>1. j \in 1 .. Len(r) /\ O + j \in 1 .. Len(m)
            BY <1>1, <3>1, <3>6, <4>2
          <5>2. q.results[j] = m[O + j]
            BY <1>1, <3>6, <5>1
          <5> QED BY <2>n, <5>1, <5>2
        <4> QED BY <4>1, <4>2
      <3>10. PageOf(query, q, n)
        BY <3>5, <3>6, <3>7, <3>8, <3>9 DEF PageOf
      <3> QED BY <1>3, <3>4, <3>10 DEF n
    <2>4. CASE ~ (Len(m) < O + L)
      <3>1. page.skipped = O /\ Len(r) = L
        BY <1>1, <2>4 DEF Smaller
      <3>2. Visit(query, page, event) = page
        BY <1>1, <3>1 DEF Visit
      <3>3. /\ Smaller(O, Len(n)) = O /\ ~ (Len(n) <= O) /\ Smaller(L, Len(n) - O) = L
        BY <1>1, <2>4, <2>n DEF Smaller
      <3>4. ASSUME NEW j \in 1 .. Len(r)
            PROVE  r[j] = n[O + j]
        <4>1. O + j \in 1 .. Len(m)
          BY <1>1, <2>4, <3>1
        <4> QED BY <1>1, <2>n, <4>1
      <3>5. PageOf(query, page, n)
        BY <1>1, <3>1, <3>3, <3>4 DEF PageOf
      <3> QED BY <1>3, <3>2, <3>5 DEF n
    <2> QED
      BY <2>2, <2>3, <2>4
  <1> QED
    BY <1>2, <1>3

\* After each event of the walk the reader has the page of those let through.
LEMMA PagesOfMatching ==
  ASSUME RingTypeOK, NEW query \in Queries, NEW i \in 0 .. count
  PROVE  PageOf(query, Pages(query)[i], Matching(query.wanted)[i])
  <1>0. count \in Nat /\ query.wanted \in SUBSET Events
    BY QueryIs DEF RingTypeOK
  <1>t. \A j \in 0 .. count : Matching(query.wanted)[j] \in Seq(Events)
    BY <1>0, MatchingIs
  <1>r. \A j \in 1 .. count :
            Matching(query.wanted)[j] = IF Walk[j] \in query.wanted
                                        THEN Append(Matching(query.wanted)[j - 1], Walk[j])
                                        ELSE Matching(query.wanted)[j - 1]
    BY <1>0, MatchingIs
  <1> DEFINE M(k) == Matching(query.wanted)[k]
             P(k) == Pages(query)[k]
             S == {k \in 0 .. count : P(k) \in PageTypes /\ PageOf(query, P(k), M(k))}
  <1>1. 0 \in S
    <2>1. M(0) = <<>> /\ P(0) = FirstPage
      BY <1>0, MatchingIs, PagesAre
    <2>2. FirstPage \in PageTypes
      BY DEF FirstPage, PageTypes
    <2>3. PageOf(query, FirstPage, <<>>)
      BY QueryIs DEF PageOf, FirstPage, Smaller
    <2> QED BY <1>0, <2>1, <2>2, <2>3
  <1>2. ASSUME NEW k \in 0 .. count - 1, k \in S
        PROVE  k + 1 \in S
    <2>1. k \in 0 .. count /\ k + 1 \in 1 .. count /\ k + 1 \in 0 .. count /\ (k + 1) - 1 = k
      BY <1>0
    <2>2. P(k) \in PageTypes /\ PageOf(query, P(k), M(k))
      BY <1>2
    <2>3. P(k + 1) = Visit(query, P(k), Walk[k + 1])
      BY <2>1, PagesAre
    <2>4. M(k + 1) = IF Walk[k + 1] \in query.wanted THEN Append(M(k), Walk[k + 1]) ELSE M(k)
      BY <1>r, <2>1
    <2>5. M(k) \in Seq(Events)
      BY <1>t, <2>1
    <2> HIDE DEF M, P
    <2>6. P(k + 1) \in PageTypes
      BY <2>2, <2>3, VisitTypes
    <2>7. PageOf(query, P(k + 1), M(k + 1))
      BY <2>2, <2>3, <2>4, <2>5, VisitPages
    <2> QED BY <2>1, <2>6, <2>7
  <1> HIDE DEF S
  <1>3. 0 .. count \subseteq S
    BY <1>0, <1>1, <1>2, BoundedInduction
  <1> QED
    BY <1>3 DEF S

\* In a state whose types are right every query is answered with its page.
LEMMA QueryAnswersPage ==
  ASSUME RingTypeOK, NEW query \in Queries
  PROVE  LET matching == Matching(query.wanted)[count]
             first == IF query.offset > 0 THEN query.offset + 1 ELSE 1
             last  == first + Limit(query.limit) - 1
         IN  Query(query) =
               SubSeq(matching, first,
                      IF last < Len(matching) THEN last ELSE Len(matching))
  <1> DEFINE O == Skips(query)
             L == Limit(query.limit)
             m == Matching(query.wanted)[count]
             r == Query(query)
             last == IF O + L < Len(m) THEN O + L ELSE Len(m)
             s == SubSeq(m, O + 1, last)
  <1>0. count \in 0 .. count /\ query.wanted \in SUBSET Events
    BY QueryIs DEF RingTypeOK
  <1>1. m \in Seq(Events) /\ Len(m) \in Nat
    BY <1>0, MatchingIs, LenProperties
  <1>2. /\ r \in Seq(Events)
        /\ Len(r) = IF Len(m) <= O THEN 0 ELSE Smaller(L, Len(m) - O)
        /\ \A j \in 1 .. Len(r) : r[j] = m[O + j]
    BY <1>0, PagesOfMatching DEF PageOf, Query
  <1>3. O \in Nat /\ L \in Nat \ {0}
    BY QueryIs
  <1>4. (IF query.offset > 0 THEN query.offset + 1 ELSE 1) = O + 1
    BY QueryIs DEF Skips
  <1>5. (O + 1) + L - 1 = O + L
    BY <1>3
  <1> HIDE DEF O, L, m, r
  <1>6. last \in Int /\ O + 1 \in Int /\ last <= Len(m)
    BY <1>1, <1>3
  <1>7. \A i \in O + 1 .. last : m[i] \in Events
    <2>1. \A i \in O + 1 .. last : i \in 1 .. Len(m)
      BY <1>1, <1>3, <1>6
    <2> QED BY <1>1, <2>1, ElementOfSeq
  <1>8. /\ s \in Seq(Events)
        /\ Len(s) = IF O + 1 <= last THEN last - (O + 1) + 1 ELSE 0
        /\ \A i \in 1 .. last - (O + 1) + 1 : s[i] = m[(O + 1) + i - 1]
    <2> HIDE DEF last
    <2> QED BY <1>6, <1>7, SubSeqProperties
  <1>9. Len(s) = Len(r)
    BY <1>1, <1>2, <1>3, <1>8 DEF Smaller
  <1>10. ASSUME NEW j \in 1 .. Len(r)
         PROVE  r[j] = s[j]
    <2>1. Len(r) \in Nat /\ j \in Nat
      BY <1>2, LenProperties
    <2> HIDE DEF last, s
    <2>2. j \in 1 .. last - (O + 1) + 1 /\ (O + 1) + j - 1 = O + j
      BY <1>3, <1>6, <1>8, <1>9, <2>1
    <2> QED BY <1>2, <1>8, <2>2
  <1> HIDE DEF s
  <1>11. r = s
    BY <1>2, <1>8, <1>9, <1>10, SeqEqual
  <1> QED
    BY <1>4, <1>5, <1>11 DEF O, L, m, r, s

\* Whatever the filters let through and whatever limit and offset are asked,
\* Query answers with that page of the matching events, newest first, for every
\* maxSize and every pair of limits (EventRing QueriesPageTheLog).
THEOREM QueriesPageTheLogHolds == RingSpec => []QueriesPageTheLog
  <1>1. RingTypeOK => QueriesPageTheLog
    BY QueryAnswersPage DEF QueriesPageTheLog
  <1> QED
    BY <1>1, RingTypeCorrect, PTL
=============================================================================

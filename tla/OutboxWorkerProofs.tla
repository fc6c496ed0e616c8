------------------------- MODULE OutboxWorkerProofs -------------------------
(***************************************************************************)
(* Proofs about OutboxWorker for any sets of events, workers and slots,    *)
(* any batch size and retry limit, and any number of faults.               *)
(***************************************************************************)
EXTENDS OutboxWorker, TLAPS, WellFoundedInduction

-----------------------------------------------------------------------------
(* Type correctness.                                                       *)

\* Every actor has an owner among the workers.
LEMMA OwnerType == \A a \in Actor : Owner(a) \in Worker
BY ActorAssumption DEF Actor, Owner

\* The moves of a main goroutine and of a slot keep pc and hold well-typed.
LEMMA MainType ==
  ASSUME TypeOK, NEW w \in Worker, NEW at \in MainPc, NEW S \in SUBSET Event, Main(w, at, S)
  PROVE  /\ pc' \in [Actor -> MainPc \cup SlotPc]
         /\ \A v \in Worker : pc'[v] \in MainPc
         /\ \A s \in Slot : pc'[s] \in SlotPc
         /\ hold' \in [Actor -> SUBSET Event]
BY ActorAssumption DEF TypeOK, Main, Actor, SlotsOf, MainPc, SlotPc

LEMMA GoroutineType ==
  ASSUME TypeOK, NEW s \in Slot, NEW at \in SlotPc, NEW S \in SUBSET Event, Goroutine(s, at, S)
  PROVE  /\ pc' \in [Actor -> MainPc \cup SlotPc]
         /\ \A v \in Worker : pc'[v] \in MainPc
         /\ \A t \in Slot : pc'[t] \in SlotPc
         /\ hold' \in [Actor -> SUBSET Event]
BY ActorAssumption DEF TypeOK, Goroutine, Actor, MainPc, SlotPc

\* How a drain goes on or ends after a batch, a fallback or a round.
LEMMA DrainType ==
  ASSUME TypeOK, NEW w \in Worker, NEW f \in BOOLEAN, NEW m \in BOOLEAN,
         BatchError(w) \/ FallbackError(w) \/ RoundEnd(w, f, m)
  PROVE  /\ pc' \in [Actor -> MainPc \cup SlotPc]
         /\ \A v \in Worker : pc'[v] \in MainPc
         /\ \A s \in Slot : pc'[s] \in SlotPc
         /\ hold' \in [Actor -> SUBSET Event]
         /\ stalled' \in [Worker -> BOOLEAN]
         /\ tickDead' \in [Worker -> BOOLEAN]
<1>1. CASE BackToSelect(w, FALSE) \/ BackToSelect(w, TRUE)
  <2>1. Main(w, "wait", {}) BY <1>1 DEF BackToSelect
  <2>2. stalled' \in [Worker -> BOOLEAN] /\ tickDead' \in [Worker -> BOOLEAN]
    BY <1>1 DEF BackToSelect, TypeOK
  <2> QED BY <2>1, <2>2, MainType DEF MainPc
<1>2. CASE NewTick(w)
  <2>1. Main(w, "batch", {}) BY <1>2 DEF NewTick
  <2>2. stalled' \in [Worker -> BOOLEAN] /\ tickDead' \in [Worker -> BOOLEAN]
    BY <1>2 DEF NewTick, TypeOK
  <2> QED BY <2>1, <2>2, MainType DEF MainPc
<1>3. CASE Continue(w, "list", {}) \/ Continue(w, "batch", {})
  <2>1. Main(w, "list", {}) \/ Main(w, "batch", {}) BY <1>3 DEF Continue
  <2>2. stalled' \in [Worker -> BOOLEAN] /\ tickDead' \in [Worker -> BOOLEAN]
    BY <1>3 DEF Continue, TypeOK
  <2> QED BY <2>1, <2>2, MainType DEF MainPc
<1> QED BY <1>1, <1>2, <1>3 DEF BatchError, FallbackError, RoundEnd

\* pc and hold, the two variables every step of a goroutine moves.
CtlOK ==
  /\ pc \in [Actor -> MainPc \cup SlotPc]
  /\ \A w \in Worker : pc[w] \in MainPc
  /\ \A s \in Slot : pc[s] \in SlotPc
  /\ hold \in [Actor -> SUBSET Event]

\* Faults stay within their bound.
LEMMA FaultType ==
  ASSUME TypeOK, NoFault \/ \E kind \in AllFaults : Fault(kind)
  PROVE  faults' \in 0..MaxFaults
BY BoundAssumption DEF TypeOK, NoFault, Fault

\* The steps of Run and its environment keep the types.
LEMMA RunType ==
  ASSUME TypeOK, NEW w \in Worker,
         \/ Start(w) \/ Tick(w) \/ Notified(w) \/ Exit(w)
         \/ Stop(w) \/ Crash(w) \/ TickDeadline(w) \/ SubscriptionClosed(w)
  PROVE  TypeOK'
<1>1. CASE Start(w)
  <2>1. CtlOK' BY <1>1, MainType DEF Start, CtlOK, MainPc
  <2>2. faults' \in 0..MaxFaults BY <1>1, FaultType DEF Start, AllFaults
  <2> QED BY <1>1, <2>1, <2>2 DEF Start, TypeOK, CtlOK, db, cache, round
<1>2. CASE Tick(w)
  <2>1. CtlOK' BY <1>2, MainType DEF Tick, Continue, CtlOK, MainPc
  <2> QED BY <1>2, <2>1 DEF Tick, Continue, TypeOK, CtlOK, db, cache, round
<1>3. CASE Notified(w)
  <2>1. CtlOK'
    <3>1. CASE stalled[w] BY <1>3, <3>1 DEF Notified, CtlOK, TypeOK
    <3>2. CASE ~stalled[w] BY <1>3, <3>2, MainType DEF Notified, Continue, CtlOK, MainPc
    <3> QED BY <3>1, <3>2
  <2>2. UNCHANGED <<stalled, tickDead>> BY <1>3 DEF Notified, Continue
  <2> QED BY <1>3, <2>1, <2>2 DEF Notified, TypeOK, CtlOK, db, cache, round
<1>4. CASE Gone(w) /\ (UNCHANGED faults \/ Fault("crash"))
  <2>1. CtlOK' BY <1>4, ActorAssumption DEF Gone, CtlOK, TypeOK, Actor, SlotsOf, MainPc, SlotPc
  <2> QED BY <1>4, <2>1, BoundAssumption DEF Gone, ForgetRound, TypeOK, CtlOK, Fault, db, cache
<1>5. CASE Stop(w) BY <1>5, BoundAssumption DEF Stop, Fault, TypeOK, db, cache, round
<1>6. CASE TickDeadline(w) BY <1>6, BoundAssumption DEF TickDeadline, Fault, TypeOK, db, cache, round
<1>7. CASE SubscriptionClosed(w) BY <1>7, BoundAssumption DEF SubscriptionClosed, Fault, TypeOK, db, cache, round
<1> QED BY <1>1, <1>2, <1>3, <1>4, <1>5, <1>6, <1>7 DEF Exit, Crash, NoFault

\* Window and Claimable are sets of events.
LEMMA WindowType == Window(Claimable) \subseteq Claimable /\ Claimable \subseteq Event
BY DEF Window, Claimable

\* The steps of applyBatch and of the fallback's main goroutine keep the types.
LEMMA DrainStepType ==
  ASSUME TypeOK, NEW w \in Worker,
         \/ BeginBatch(w) \/ CommitBatch(w) \/ RollbackBatch(w) \/ EndBatch(w)
         \/ ListCandidates(w) \/ StartFan(w) \/ NoCandidates(w) \/ EndFan(w)
  PROVE  TypeOK'
<1> DEFINE Ctl == CtlOK' /\ stalled' \in [Worker -> BOOLEAN] /\ tickDead' \in [Worker -> BOOLEAN]
<1>a. ASSUME BatchError(w) \/ FallbackError(w) \/ RoundEnd(w, full[w], moved[w])
             \/ RoundEnd(w, FALSE, FALSE)
      PROVE  Ctl
  <2>1. full[w] \in BOOLEAN /\ moved[w] \in BOOLEAN BY DEF TypeOK
  <2> QED BY <1>a, <2>1, DrainType DEF CtlOK
<1>b. ASSUME NEW at \in MainPc, NEW S \in SUBSET Event, Continue(w, at, S) PROVE Ctl
  BY <1>b, MainType DEF Continue, CtlOK, TypeOK
<1>1. CASE BeginBatch(w)
  <2>1. Ctl BY <1>1, <1>a, <1>b, WindowType DEF BeginBatch, MainPc
  <2>2. faults' \in 0..MaxFaults BY <1>1, FaultType DEF BeginBatch, AllFaults
  <2> QED BY <1>1, <2>1, <2>2 DEF BeginBatch, TypeOK, CtlOK, db, cache, round
<1>2. CASE CommitBatch(w)
  <2>1. Ctl
    <3>1. hold[w] \in SUBSET Event BY DEF TypeOK, Actor
    <3> QED BY <1>2, <3>1, <1>a, <1>b DEF CommitBatch, MainPc
  <2>2. applied' \in [Event -> Nat] /\ retry' = retry
        /\ row' \in [Event -> {"absent", "pending", "processed", "deleted"}]
    BY <1>2 DEF CommitBatch, ApplyAndMark, TypeOK
  <2>3. full' \in [Worker -> BOOLEAN] /\ moved' \in [Worker -> BOOLEAN]
    BY <1>2 DEF CommitBatch, TypeOK
  <2>4. faults' \in 0..MaxFaults BY <1>2, FaultType DEF CommitBatch, AllFaults
  <2> QED BY <1>2, <2>1, <2>2, <2>3, <2>4 DEF CommitBatch, TypeOK, CtlOK, cache
<1>3. CASE RollbackBatch(w)
  <2>1. Ctl BY <1>3, <1>a DEF RollbackBatch
  <2>2. faults' \in 0..MaxFaults BY <1>3, FaultType DEF RollbackBatch, AllFaults
  <2> QED BY <1>3, <2>1, <2>2 DEF RollbackBatch, TypeOK, CtlOK, db, cache, round
<1>4. CASE EndBatch(w)
  <2>1. Ctl BY <1>4, <1>a DEF EndBatch
  <2> QED BY <1>4, <2>1 DEF EndBatch, ForgetRound, TypeOK, CtlOK, db, cache
<1>5. CASE ListCandidates(w)
  <2>1. Ctl BY <1>5, <1>a, <1>b, WindowType DEF ListCandidates, MainPc
  <2>2. faults' \in 0..MaxFaults BY <1>5, FaultType DEF ListCandidates, AllFaults
  <2> QED BY <1>5, <2>1, <2>2 DEF ListCandidates, TypeOK, CtlOK, db, cache, round
<1>6. CASE StartFan(w)
  <2>1. CtlOK' BY <1>6, ActorAssumption DEF StartFan, CtlOK, TypeOK, Actor, SlotsOf, MainPc, SlotPc
  <2> QED BY <1>6, <2>1 DEF StartFan, TypeOK, CtlOK, db, cache, run
<1>7. CASE NoCandidates(w)
  <2>1. Ctl BY <1>7, <1>a DEF NoCandidates
  <2>2. faults' \in 0..MaxFaults BY <1>7, FaultType DEF NoCandidates, AllFaults
  <2> QED BY <1>7, <2>1, <2>2 DEF NoCandidates, TypeOK, CtlOK, db, cache, round
<1>8. CASE EndFan(w)
  <2>1. Ctl BY <1>8, <1>a DEF EndFan
  <2> QED BY <1>8, <2>1 DEF EndFan, ForgetRound, TypeOK, CtlOK, db, cache
<1> QED BY <1>1, <1>2, <1>3, <1>4, <1>5, <1>6, <1>7, <1>8

\* The steps of a slot keep the types.
LEMMA SlotStepType ==
  ASSUME TypeOK, NEW s \in Slot, SlotStep(s)
  PROVE  TypeOK'
<1>o. Owner(s) \in Worker /\ SlotOwner[s] \in Worker /\ s \notin Worker
  BY ActorAssumption, OwnerType DEF Actor, Owner
<1>h. hold[s] \in SUBSET Event BY DEF TypeOK, Actor
<1>f. faults' \in 0..MaxFaults
  BY FaultType DEF SlotStep, Claim, CommitOne, FailApply, FailMark, AllFaults
<1>r. full' \in [Worker -> BOOLEAN] /\ moved' \in [Worker -> BOOLEAN]
      /\ failed' \in [Worker -> BOOLEAN]
  BY <1>o DEF SlotStep, Claim, CommitOne, FailApply, FailMark, SlotError, round, TypeOK
<1>1. CASE Claim(s)
  <2> DEFINE w == SlotOwner[s]
             e == FirstOf(hold[w])
  <2>1. PICK at \in SlotPc, S \in SUBSET Event :
          /\ pc' = [pc EXCEPT ![s] = at]
          /\ hold' = [hold EXCEPT ![w] = @ \ {e}, ![s] = S]
    BY <1>1 DEF Claim, SlotPc, Claimable
  <2>2. CtlOK' BY <2>1, <1>o, ActorAssumption DEF CtlOK, TypeOK, Actor
  <2> QED BY <1>1, <1>f, <1>r, <2>2 DEF Claim, CtlOK, TypeOK, db, cache, run
<1>2. CASE CommitOne(s)
  <2>1. CtlOK' BY <1>2, <1>h, GoroutineType DEF CommitOne, AfterCommit, CtlOK, SlotPc
  <2>2. applied' \in [Event -> Nat] /\ retry' = retry
        /\ row' \in [Event -> {"absent", "pending", "processed", "deleted"}]
    BY <1>2 DEF CommitOne, ApplyAndMark, TypeOK
  <2> QED BY <1>2, <1>f, <1>r, <2>1, <2>2 DEF CommitOne, CtlOK, TypeOK, cache, run
<1>3. CASE FailApply(s)
  <2>1. CtlOK' BY <1>3, <1>h, GoroutineType DEF FailApply, CtlOK, SlotPc
  <2> QED BY <1>3, <1>f, <1>r, <2>1 DEF FailApply, CtlOK, TypeOK, db, cache, run
<1>4. CASE FailMark(s)
  <2>1. CtlOK' BY <1>4, GoroutineType DEF FailMark, CtlOK, SlotPc
  <2> QED BY <1>4, <1>f, <1>r, <2>1 DEF FailMark, CtlOK, TypeOK, db, cache, run
<1> QED BY <1>1, <1>2, <1>3, <1>4 DEF SlotStep

\* The pipeline adds to counters.
LEMMA ZIncrByType ==
  ASSUME NEW z \in [Event -> Nat], NEW key, NEW S, NEW W
  PROVE  ZIncrBy(z, key, S, W) \in [Event -> Nat]
BY DEF ZIncrBy

\* Counting an event up keeps a counter well-typed.
LEMMA CountUpType ==
  ASSUME NEW f \in [Event -> Nat], NEW e
  PROVE  [f EXCEPT ![e] = @ + 1] \in [Event -> Nat]
<1> DEFINE g == [f EXCEPT ![e] = @ + 1]
<1>1. ASSUME NEW x \in Event PROVE g[x] \in Nat
  <2>1. CASE x = e BY <2>1
  <2>2. CASE x # e BY <2>2
  <2> QED BY <2>1, <2>2
<1> QED BY <1>1

\* The Redis and retry steps, shared by main goroutines and slots, keep the types.
LEMMA ActorStepType ==
  ASSUME TypeOK, NEW a \in Actor, ActorStep(a)
  PROVE  TypeOK'
<1>o. Owner(a) \in Worker BY OwnerType
<1>h. hold[a] \in SUBSET Event BY DEF TypeOK
<1>f. faults' \in 0..MaxFaults
  BY FaultType
  DEF ActorStep, RedisApply, RedisFail, RedisSkip, IncrementRetry, LogDeadLettered,
      RetryNotRecorded, NoFault, AllFaults
<1>1. ASSUME AfterRedis(a) PROVE CtlOK' /\ moved' \in [Worker -> BOOLEAN]
  <2>1. CASE a \in Worker
    BY <1>1, <2>1, <1>h, MainType, ActorAssumption DEF AfterRedis, CtlOK, MainPc, TypeOK
  <2>2. CASE a \in Slot
    <3>1. Goroutine(a, "idle", {}) BY <1>1, <2>2, ActorAssumption DEF AfterRedis
    <3>2. moved' \in [Worker -> BOOLEAN] BY <1>1, <2>2, <1>o, ActorAssumption DEF AfterRedis, TypeOK
    <3> QED BY <2>2, <3>1, <3>2, GoroutineType DEF CtlOK, SlotPc
  <2> QED BY <2>1, <2>2 DEF Actor
<1>2. ASSUME NEW e, AfterRetry(a, e) PROVE CtlOK'
  <2>1. CASE a \in Worker
    BY <1>2, <2>1, <1>h, MainType, ActorAssumption DEF AfterRetry, CtlOK, MainPc
  <2>2. CASE a \in Slot
    BY <1>2, <2>2, GoroutineType, ActorAssumption DEF AfterRetry, CtlOK, SlotPc
  <2> QED BY <2>1, <2>2 DEF Actor
<1>l. ASSUME NEW e, AfterIncrement(a, e) PROVE CtlOK'
  <2>1. CASE pc' = [pc EXCEPT ![a] = "log"] /\ UNCHANGED hold
    BY <2>1, ActorAssumption DEF TypeOK, CtlOK, Actor, MainPc, SlotPc
  <2> QED BY <1>l, <1>2, <2>1 DEF AfterIncrement
<1>3. ASSUME NEW W, NEW us, NEW gs, ApplyScoreDeltas(W, us, gs)
      PROVE  zUser' \in [Event -> Nat] /\ zGuild' \in [Event -> Nat]
  BY <1>3, ZIncrByType DEF ApplyScoreDeltas, TypeOK
<1>4. CASE RedisApply(a)
  <2>1. zUser' \in [Event -> Nat] /\ zGuild' \in [Event -> Nat] BY <1>4, <1>3 DEF RedisApply
  <2>2. CtlOK' /\ moved' \in [Worker -> BOOLEAN] BY <1>4, <1>1 DEF RedisApply
  <2> QED BY <1>4, <1>f, <2>1, <2>2 DEF RedisApply, CtlOK, TypeOK, db, run
<1>5. CASE RedisFail(a)
  <2>1. zUser' \in [Event -> Nat] /\ zGuild' \in [Event -> Nat] BY <1>5, <1>3 DEF RedisFail
  <2>2. CtlOK' /\ moved' \in [Worker -> BOOLEAN] BY <1>5, <1>1 DEF RedisFail, AfterFailedRedis
  <2> QED BY <1>5, <1>f, <2>1, <2>2 DEF RedisFail, CtlOK, TypeOK, db, run
<1>6. CASE RedisSkip(a)
  <2>1. CtlOK' /\ moved' \in [Worker -> BOOLEAN] BY <1>6, <1>1 DEF RedisSkip
  <2> QED BY <1>6, <1>f, <2>1 DEF RedisSkip, CtlOK, TypeOK, db, cache, run
<1>7. CASE IncrementRetry(a)
  <2>1. CtlOK' BY <1>7, <1>2, <1>l DEF IncrementRetry
  <2> DEFINE e == FirstOf(hold[a])
  <2>a. retry' = [retry EXCEPT ![e] = @ + 1] BY <1>7 DEF IncrementRetry
  <2> HIDE DEF e
  <2>2. retry' \in [Event -> Nat] BY <2>a, CountUpType DEF TypeOK
  <2> QED BY <1>7, <1>f, <2>1, <2>2 DEF IncrementRetry, CtlOK, TypeOK, cache, round, run
<1>8. CASE RetryNotRecorded(a)
  <2>1. CtlOK' BY <1>8, <1>2 DEF RetryNotRecorded
  <2> QED BY <1>8, <1>f, <2>1 DEF RetryNotRecorded, CtlOK, TypeOK, db, cache, round, run
<1>9. CASE LogDeadLettered(a)
  <2>1. CtlOK' BY <1>9, <1>2 DEF LogDeadLettered
  <2> DEFINE e == FirstOf(hold[a])
  <2>a. dead' = [dead EXCEPT ![e] = @ + 1] BY <1>9 DEF LogDeadLettered
  <2> HIDE DEF e
  <2>2. dead' \in [Event -> Nat] BY <2>a, CountUpType DEF TypeOK
  <2> QED BY <1>9, <1>f, <2>1, <2>2 DEF LogDeadLettered, CtlOK, TypeOK, db, cache, round, run
<1> QED BY <1>4, <1>5, <1>6, <1>7, <1>8, <1>9 DEF ActorStep

LEMMA TypeNext == TypeOK /\ [Next]_vars => TypeOK'
<1> SUFFICES ASSUME TypeOK, [Next]_vars PROVE TypeOK'
  OBVIOUS
<1>1. ASSUME NEW e \in Event, AddEvent(e) PROVE TypeOK'
  BY <1>1 DEF AddEvent, TypeOK, cache, round, run
<1>2. ASSUME NEW e \in Event, Notify(e) PROVE TypeOK'
  <2>1. notice' \in [Worker -> BOOLEAN] BY <1>2 DEF Notify, TypeOK
  <2> QED BY <1>2, <2>1 DEF Notify, TypeOK, db, cache, round
<1>3. ASSUME NEW S \in SUBSET Event, Purge(S) PROVE TypeOK'
  BY <1>3 DEF Purge, TypeOK, cache, round, run
<1>4. CASE UNCHANGED vars BY <1>4 DEF TypeOK, vars
<1> QED BY <1>1, <1>2, <1>3, <1>4, RunType, DrainStepType, SlotStepType, ActorStepType
        DEF Next, WorkerNext, MainStep

LEMMA TypeInit == Init => TypeOK
BY ActorAssumption, BoundAssumption DEF Init, TypeOK, Actor, MainPc, SlotPc

\* Type correctness of the worker.
THEOREM TypeCorrect == Spec => []TypeOK
BY TypeInit, TypeNext, PTL DEF Spec

-----------------------------------------------------------------------------
(* The inductive invariant.  Most steps only let go of rows and of work in *)
(* flight; the others take rows, commit, reflect or count a retry.         *)

\* IndInv without the types.
Core ==
  /\ LocksExclusive /\ LockedStaysClaimed
  /\ InFlightFresh /\ InFlightExclusive
  /\ ExactlyOnce /\ CacheNeverAhead

\* The tables and the rankings stay as they are.
Quiet == UNCHANGED <<row, retry, applied, zUser, zGuild>>

\* No actor takes a row or new work in flight.
Shrinks == \A a \in Actor : Locked(a)' \subseteq Locked(a) /\ InFlight(a)' \subseteq InFlight(a)

\* Letting go preserves the invariant.
LEMMA ShrinkStep ==
  ASSUME Core, Quiet, Shrinks
  PROVE  Core'
<1>1. LocksExclusive' BY DEF Core, Shrinks, LocksExclusive
<1>2. LockedStaysClaimed' BY DEF Core, Quiet, Shrinks, LockedStaysClaimed
<1>3. InFlightFresh' BY DEF Core, Quiet, Shrinks, InFlightFresh
<1>4. InFlightExclusive' BY DEF Core, Shrinks, InFlightExclusive
<1>5. ExactlyOnce' /\ CacheNeverAhead' BY DEF Core, Quiet, ExactlyOnce, CacheNeverAhead
<1> QED BY <1>1, <1>2, <1>3, <1>4, <1>5 DEF Core

LEMMA MainShrinks ==
  ASSUME TypeOK, NEW w \in Worker, NEW at \in MainPc \ {"batchTx", "listTx", "redis"},
         NEW S, Main(w, at, S)
  PROVE  Shrinks
BY ActorAssumption DEF TypeOK, Main, Shrinks, Locked, InFlight, Actor, SlotsOf, MainPc, TxPc

LEMMA GoroutineShrinks ==
  ASSUME TypeOK, NEW s \in Slot, NEW at \in SlotPc \ {"claimTx", "redis"}, NEW S,
         Goroutine(s, at, S)
  PROVE  Shrinks
BY ActorAssumption DEF TypeOK, Goroutine, Shrinks, Locked, InFlight, Actor, SlotPc, TxPc

LEMMA DrainShrinks ==
  ASSUME TypeOK, NEW w \in Worker, NEW f, NEW m,
         BatchError(w) \/ FallbackError(w) \/ RoundEnd(w, f, m)
  PROVE  Shrinks
<1>1. Main(w, "wait", {}) \/ Main(w, "batch", {}) \/ Main(w, "list", {})
  BY DEF BatchError, FallbackError, RoundEnd, BackToSelect, NewTick, Continue
<1> QED BY <1>1, MainShrinks DEF MainPc

\* Run's own steps and its environment's.
LEMMA RunCore ==
  ASSUME TypeOK, Core, NEW w \in Worker,
         \/ Start(w) \/ Tick(w) \/ Notified(w) \/ Exit(w)
         \/ Stop(w) \/ Crash(w) \/ TickDeadline(w) \/ SubscriptionClosed(w)
  PROVE  Core'
<1>q. Quiet
  BY DEF Start, Tick, Notified, Exit, Stop, Crash, Gone, TickDeadline, SubscriptionClosed,
         Quiet, db, cache
<1>s. ASSUME UNCHANGED <<pc, hold>> PROVE Shrinks BY <1>s DEF Shrinks, Locked, InFlight
<1>1. CASE Start(w) BY <1>1, <1>q, MainShrinks, ShrinkStep DEF Start, MainPc
<1>2. CASE Tick(w) BY <1>2, <1>q, MainShrinks, ShrinkStep DEF Tick, Continue, MainPc
<1>3. CASE Notified(w)
  BY <1>3, <1>q, <1>s, MainShrinks, ShrinkStep DEF Notified, Continue, MainPc
<1>4. CASE Gone(w)
  <2>1. Shrinks BY <1>4 DEF Gone, Shrinks, Locked, InFlight, TypeOK, TxPc, Actor, SlotsOf
  <2> QED BY <2>1, <1>q, ShrinkStep
<1>5. CASE Stop(w) \/ TickDeadline(w) \/ SubscriptionClosed(w)
  BY <1>5, <1>q, <1>s, ShrinkStep DEF Stop, TickDeadline, SubscriptionClosed
<1> QED BY <1>1, <1>2, <1>3, <1>4, <1>5 DEF Exit, Crash

\* Taking claimable rows, by one actor, while the others let go, preserves the invariant.
LEMMA AcquireStep ==
  ASSUME Core, Quiet, NEW b \in Actor, Locked(b)' \subseteq Claimable,
         \A a \in Actor \ {b} : Locked(a)' \subseteq Locked(a),
         \A a \in Actor : InFlight(a)' \subseteq InFlight(a)
  PROVE  Core'
<1>1. \A a \in Actor : Locked(a) \cap Claimable = {} BY DEF Claimable, LockedRows
<1>2. LocksExclusive' BY <1>1 DEF Core, LocksExclusive
<1>3. LockedStaysClaimed' BY DEF Core, Quiet, LockedStaysClaimed, Claimable
<1>4. InFlightFresh' BY DEF Core, Quiet, InFlightFresh
<1>5. InFlightExclusive' BY DEF Core, InFlightExclusive
<1>6. ExactlyOnce' /\ CacheNeverAhead' BY DEF Core, Quiet, ExactlyOnce, CacheNeverAhead
<1> QED BY <1>2, <1>3, <1>4, <1>5, <1>6 DEF Core

\* A main goroutine lists a window.
LEMMA ListCore ==
  ASSUME TypeOK, Core, Quiet, NEW w \in Worker, NEW at \in {"batchTx", "listTx"},
         Main(w, at, Window(Claimable))
  PROVE  Core'
<1>1. Locked(w)' \subseteq Claimable
  BY WindowType DEF Main, Locked, TxPc, TypeOK, Actor
<1>2. \A a \in Actor \ {w} : Locked(a)' \subseteq Locked(a)
  BY DEF Main, Locked, TxPc, TypeOK, SlotsOf
<1>3. \A a \in Actor : InFlight(a)' \subseteq InFlight(a)
  BY DEF Main, InFlight, TypeOK, SlotsOf
<1> QED BY <1>1, <1>2, <1>3, AcquireStep DEF Actor

\* One actor commits rows it holds; they are in flight at most in its own hands.
LEMMA CommitStep ==
  ASSUME TypeOK, Core, NEW b \in Actor, NEW S, S \subseteq Locked(b), S \subseteq Event,
         ApplyAndMark(S), UNCHANGED <<zUser, zGuild>>,
         Locked(b)' = {}, InFlight(b)' \subseteq S,
         \A a \in Actor \ {b} : Locked(a)' \subseteq Locked(a),
         \A a \in Actor \ {b} : InFlight(a)' \subseteq InFlight(a)
  PROVE  Core'
<1>1. \A e \in S : row[e] = "pending" /\ applied[e] = 0 /\ zUser[e] = 0 /\ zGuild[e] = 0
  BY DEF Core, LockedStaysClaimed, ExactlyOnce, CacheNeverAhead, TypeOK
<1>2. \A e \in S : row'[e] = "processed" /\ applied'[e] = 1
  BY <1>1 DEF ApplyAndMark
<1>3. \A e \in Event \ S : row'[e] = row[e] /\ applied'[e] = applied[e]
  BY DEF ApplyAndMark
<1>4. \A a \in Actor \ {b} : Locked(a) \cap S = {} /\ InFlight(a) \cap S = {}
  BY <1>1 DEF Core, LocksExclusive, InFlightFresh
<1>5. LocksExclusive' BY DEF Core, LocksExclusive
<1>6. LockedStaysClaimed'
  <2> SUFFICES ASSUME NEW a \in Actor, NEW e \in Locked(a)'
               PROVE  row'[e] = "pending" /\ retry'[e] < MaxRetry
    BY DEF LockedStaysClaimed
  <2>1. a # b /\ e \in Locked(a) /\ e \notin S BY <1>4
  <2>2. e \in Event BY <2>1 DEF Locked, TypeOK
  <2> QED BY <2>1, <2>2, <1>3, <1>4 DEF Core, LockedStaysClaimed, ApplyAndMark
<1>7. InFlightFresh'
  <2> SUFFICES ASSUME NEW a \in Actor, NEW e \in InFlight(a)'
               PROVE  applied'[e] = 1 /\ zUser'[e] = 0 /\ zGuild'[e] = 0
    BY DEF InFlightFresh
  <2>1. CASE a = b BY <2>1, <1>1, <1>2
  <2>2. CASE a # b
    <3>1. e \in InFlight(a) /\ e \in Event \ S BY <2>2, <1>4 DEF InFlight, TypeOK
    <3> QED BY <3>1, <1>3 DEF Core, InFlightFresh
  <2> QED BY <2>1, <2>2
<1>8. InFlightExclusive' BY <1>4 DEF Core, InFlightExclusive
<1>9. ExactlyOnce' BY <1>2, <1>3 DEF Core, ExactlyOnce
<1>10. CacheNeverAhead' BY <1>1, <1>2, <1>3 DEF Core, CacheNeverAhead, TypeOK
<1> QED BY <1>5, <1>6, <1>7, <1>8, <1>9, <1>10 DEF Core

\* The steps of applyBatch and of the fallback's main goroutine.
LEMMA DrainStepCore ==
  ASSUME TypeOK, Core, NEW w \in Worker,
         \/ BeginBatch(w) \/ CommitBatch(w) \/ RollbackBatch(w) \/ EndBatch(w)
         \/ ListCandidates(w) \/ StartFan(w) \/ NoCandidates(w) \/ EndFan(w)
  PROVE  Core'
<1>e. ASSUME Quiet, \/ BatchError(w) \/ FallbackError(w) \/ RoundEnd(w, full[w], moved[w])
                    \/ RoundEnd(w, FALSE, FALSE)
      PROVE  Core'
  BY <1>e, DrainShrinks, ShrinkStep
<1>1. CASE BeginBatch(w)
  <2>1. Quiet BY <1>1 DEF BeginBatch, Quiet, db, cache
  <2> QED BY <1>1, <1>e, <2>1, ListCore DEF BeginBatch, Continue
<1>2. CASE CommitBatch(w)
  <2> DEFINE S == hold[w] \cap Decodable
  <2>1. w \in Actor /\ Locked(w) = hold[w] /\ S \subseteq Locked(w) /\ S \subseteq Event
    BY <1>2 DEF CommitBatch, Locked, TxPc, Actor, Decodable
  <2>2. ApplyAndMark(S) /\ UNCHANGED <<zUser, zGuild>> BY <1>2 DEF CommitBatch, cache
  <2>3. Locked(w)' = {} /\ InFlight(w)' \subseteq S
    <3>1. CASE Continue(w, "redis", hold[w])
      BY <3>1 DEF Continue, Main, Locked, InFlight, TxPc, Actor, TypeOK
    <3>2. CASE BatchError(w)
      <4>1. Main(w, "wait", {}) \/ Main(w, "batch", {}) \/ Main(w, "list", {})
        BY <3>2 DEF BatchError, BackToSelect, NewTick, Continue
      <4> QED BY <4>1 DEF Main, Locked, InFlight, TxPc, Actor, TypeOK
    <3> QED BY <1>2, <3>1, <3>2 DEF CommitBatch
  <2>4. \A a \in Actor \ {w} : Locked(a)' \subseteq Locked(a) /\ InFlight(a)' \subseteq InFlight(a)
    <3>1. PICK at, T : Main(w, at, T)
      BY <1>2 DEF CommitBatch, BatchError, BackToSelect, NewTick, Continue
    <3> QED BY <3>1 DEF Main, Locked, InFlight, TxPc, TypeOK
  <2> HIDE DEF S
  <2> QED BY <2>1, <2>2, <2>3, <2>4, CommitStep
<1>3. CASE RollbackBatch(w) BY <1>3, <1>e DEF RollbackBatch, Quiet, db, cache
<1>4. CASE EndBatch(w) BY <1>4, <1>e DEF EndBatch, Quiet, db, cache
<1>5. CASE ListCandidates(w)
  <2>1. Quiet BY <1>5 DEF ListCandidates, Quiet, db, cache
  <2> QED BY <1>5, <1>e, <2>1, ListCore DEF ListCandidates, Continue
<1>6. CASE StartFan(w)
  <2>1. Shrinks BY <1>6 DEF StartFan, Shrinks, Locked, InFlight, TxPc, TypeOK, SlotsOf
  <2> QED BY <1>6, <2>1, ShrinkStep DEF StartFan, Quiet, db, cache
<1>7. CASE NoCandidates(w) BY <1>7, <1>e DEF NoCandidates, Quiet, db, cache
<1>8. CASE EndFan(w) BY <1>8, <1>e DEF EndFan, Quiet, db, cache
<1> QED BY <1>1, <1>2, <1>3, <1>4, <1>5, <1>6, <1>7, <1>8

\* The steps of a slot.
LEMMA SlotStepCore ==
  ASSUME TypeOK, Core, NEW s \in Slot, SlotStep(s)
  PROVE  Core'
<1>a. s \in Actor /\ s \notin Worker BY ActorAssumption DEF Actor
<1>1. CASE Claim(s)
  <2> DEFINE w == SlotOwner[s]
             e == FirstOf(hold[w])
  <2>1. Quiet BY <1>1 DEF Claim, Quiet, db, cache
  <2>2. PICK at, S :
          /\ pc' = [pc EXCEPT ![s] = at]
          /\ hold' = [hold EXCEPT ![w] = @ \ {e}, ![s] = S]
          /\ \/ at = "claimTx" /\ S \subseteq Claimable
             \/ at \in {"idle", "done"}
    BY <1>1 DEF Claim
  <2>3. pc[w] = "fan" /\ pc[s] = "idle" BY <1>1 DEF Claim
  <2> HIDE DEF e
  <2>4. Locked(s)' \subseteq Claimable
    BY <2>2, <1>a DEF Locked, TxPc, TypeOK
  <2>5. \A a \in Actor \ {s} : Locked(a)' \subseteq Locked(a)
    BY <2>2 DEF Locked, TxPc, TypeOK
  <2>6. \A a \in Actor : InFlight(a)' \subseteq InFlight(a)
    BY <2>2, <1>a DEF InFlight, TypeOK
  <2> QED BY <1>a, <2>1, <2>4, <2>5, <2>6, AcquireStep
<1>2. CASE CommitOne(s)
  <2> DEFINE S == hold[s]
  <2>1. S \subseteq Locked(s) /\ S \subseteq Event BY <1>2, <1>a DEF CommitOne, Locked, TxPc, TypeOK
  <2>2. ApplyAndMark(S) /\ UNCHANGED <<zUser, zGuild>> BY <1>2 DEF CommitOne, cache
  <2>3. Goroutine(s, "redis", S) \/ Goroutine(s, "done", {})
    BY <1>2 DEF CommitOne, AfterCommit
  <2>4. Locked(s)' = {} /\ InFlight(s)' \subseteq S
    BY <2>3, <1>a DEF Goroutine, Locked, InFlight, TxPc, TypeOK
  <2>5. \A a \in Actor \ {s} : Locked(a)' \subseteq Locked(a) /\ InFlight(a)' \subseteq InFlight(a)
    BY <2>3, <1>a DEF Goroutine, Locked, InFlight, TxPc, TypeOK
  <2> HIDE DEF S
  <2> QED BY <1>a, <2>1, <2>2, <2>4, <2>5, CommitStep
<1>3. CASE FailApply(s)
  BY <1>3, GoroutineShrinks, ShrinkStep DEF FailApply, Quiet, db, cache, SlotPc
<1>4. CASE FailMark(s)
  BY <1>4, GoroutineShrinks, ShrinkStep DEF FailMark, Quiet, db, cache, SlotPc
<1> QED BY <1>1, <1>2, <1>3, <1>4 DEF SlotStep

\* One actor's work in flight reaches the rankings and is in flight no more.
LEMMA ReflectStep ==
  ASSUME TypeOK, Core, NEW b \in Actor, NEW us, NEW gs,
         ApplyScoreDeltas(InFlight(b), us, gs),
         \A e \in InFlight(b) : GuildOf[e] \in gs => UserOf[e] \in us,
         UNCHANGED <<row, retry, applied>>,
         InFlight(b)' = {}, Shrinks
  PROVE  Core'
<1>1. \A e \in InFlight(b) : e \in Event /\ applied[e] = 1 /\ zUser[e] = 0 /\ zGuild[e] = 0
  BY DEF Core, InFlightFresh, InFlight, TypeOK
<1>2. \A e \in InFlight(b) :
        /\ zUser'[e] = IF UserOf[e] \in us THEN 1 ELSE 0
        /\ zGuild'[e] = IF GuildOf[e] \in gs THEN 1 ELSE 0
  BY <1>1 DEF ApplyScoreDeltas, ZIncrBy
<1>3. \A e \in Event \ InFlight(b) : zUser'[e] = zUser[e] /\ zGuild'[e] = zGuild[e]
  BY DEF ApplyScoreDeltas, ZIncrBy
<1>4. LocksExclusive' BY DEF Core, Shrinks, LocksExclusive
<1>5. LockedStaysClaimed' BY DEF Core, Shrinks, LockedStaysClaimed
<1>6. InFlightFresh'
  <2> SUFFICES ASSUME NEW a \in Actor, NEW e \in InFlight(a)'
               PROVE  applied'[e] = 1 /\ zUser'[e] = 0 /\ zGuild'[e] = 0
    BY DEF InFlightFresh
  <2>1. a # b /\ e \in InFlight(a) BY DEF Shrinks
  <2>2. e \in Event \ InFlight(b) BY <2>1 DEF Core, InFlightExclusive, InFlight, TypeOK
  <2> QED BY <2>1, <2>2, <1>3 DEF Core, InFlightFresh
<1>7. InFlightExclusive' BY DEF Core, Shrinks, InFlightExclusive
<1>8. ExactlyOnce' BY DEF Core, ExactlyOnce
<1>9. CacheNeverAhead'
  <2> SUFFICES ASSUME NEW e \in Event
               PROVE  zGuild'[e] <= zUser'[e] /\ zUser'[e] <= applied'[e] /\ applied'[e] <= 1
    BY DEF CacheNeverAhead
  <2>1. CASE e \in InFlight(b) BY <2>1, <1>1, <1>2
  <2>2. CASE e \notin InFlight(b) BY <2>2, <1>3 DEF Core, CacheNeverAhead
  <2> QED BY <2>1, <2>2
<1> QED BY <1>4, <1>5, <1>6, <1>7, <1>8, <1>9 DEF Core

LEMMA AfterRedisShrinks ==
  ASSUME TypeOK, NEW a \in Actor, pc[a] = "redis", AfterRedis(a)
  PROVE  Shrinks /\ InFlight(a)' = {}
<1>1. CASE a \in Worker
  <2>1. Main(a, "retry", hold[a] \cap Undecodable)
    BY <1>1, ActorAssumption DEF AfterRedis
  <2> QED BY <1>1, <2>1, MainShrinks DEF MainPc, Main, InFlight, TypeOK
<1>2. CASE a \in Slot
  <2>1. Goroutine(a, "idle", {}) BY <1>2, ActorAssumption DEF AfterRedis
  <2> QED BY <1>2, <2>1, GoroutineShrinks DEF SlotPc, Goroutine, InFlight, TypeOK
<1> QED BY <1>1, <1>2 DEF Actor

LEMMA AfterRetryShrinks ==
  ASSUME TypeOK, NEW a \in Actor, NEW e, AfterRetry(a, e)
  PROVE  Shrinks
<1>1. CASE a \in Worker BY <1>1, ActorAssumption, MainShrinks DEF AfterRetry, MainPc
<1>2. CASE a \in Slot BY <1>2, ActorAssumption, GoroutineShrinks DEF AfterRetry, SlotPc
<1> QED BY <1>1, <1>2 DEF Actor

LEMMA AfterIncrementShrinks ==
  ASSUME TypeOK, NEW a \in Actor, NEW e, AfterIncrement(a, e)
  PROVE  Shrinks
<1>1. CASE pc' = [pc EXCEPT ![a] = "log"] /\ UNCHANGED hold
  BY <1>1 DEF TypeOK, Shrinks, Locked, InFlight, TxPc
<1> QED BY <1>1, AfterRetryShrinks DEF AfterIncrement

\* The Redis and retry steps.
LEMMA ActorStepCore ==
  ASSUME TypeOK, Core, NEW a \in Actor, ActorStep(a)
  PROVE  Core'
<1> DEFINE W == hold[a] \cap Decodable
<1>1. CASE RedisApply(a)
  <2>1. InFlight(a) = W /\ UNCHANGED <<row, retry, applied>> /\ Shrinks /\ InFlight(a)' = {}
    BY <1>1, AfterRedisShrinks DEF RedisApply, InFlight, db
  <2>2. ApplyScoreDeltas(InFlight(a), Users(W), Guilds(W)) BY <1>1, <2>1 DEF RedisApply
  <2>3. \A e \in InFlight(a) : GuildOf[e] \in Guilds(W) => UserOf[e] \in Users(W)
    BY <2>1 DEF Users
  <2> QED BY <2>1, <2>2, <2>3, ReflectStep
<1>2. CASE RedisFail(a)
  <2>1. InFlight(a) = W /\ UNCHANGED <<row, retry, applied>> /\ Shrinks /\ InFlight(a)' = {}
    BY <1>2, AfterRedisShrinks DEF RedisFail, AfterFailedRedis, InFlight, db
  <2>2. PICK us, gs : ApplyScoreDeltas(W, us, gs) /\ (gs = {} \/ us = Users(W))
    BY <1>2 DEF RedisFail
  <2>3. \A e \in InFlight(a) : GuildOf[e] \in gs => UserOf[e] \in us
    BY <2>1, <2>2 DEF Users
  <2>4. ApplyScoreDeltas(InFlight(a), us, gs) BY <2>1, <2>2
  <2> QED BY <2>1, <2>3, <2>4, ReflectStep
<1>3. CASE RedisSkip(a)
  BY <1>3, AfterRedisShrinks, ShrinkStep DEF RedisSkip, Quiet, db, cache
<1>4. CASE RetryNotRecorded(a)
  BY <1>4, AfterRetryShrinks, ShrinkStep DEF RetryNotRecorded, Quiet, db, cache
<1>5. CASE IncrementRetry(a)
  <2> DEFINE e == FirstOf(hold[a])
  <2>1. Shrinks BY <1>5, AfterRetryShrinks, AfterIncrementShrinks DEF IncrementRetry
  <2>2. UNCHANGED <<row, applied, zUser, zGuild>> BY <1>5 DEF IncrementRetry, cache
  <2>3. e \notin LockedRows /\ retry' = [retry EXCEPT ![e] = @ + 1] BY <1>5 DEF IncrementRetry
  <2> HIDE DEF e
  <2>4. LockedStaysClaimed'
    BY <2>1, <2>2, <2>3 DEF Core, LockedStaysClaimed, Shrinks, LockedRows, TypeOK, Locked
  <2> QED BY <2>1, <2>2, <2>4
          DEF Core, Shrinks, LocksExclusive, InFlightFresh, InFlightExclusive, ExactlyOnce,
              CacheNeverAhead
<1>6. CASE LogDeadLettered(a)
  BY <1>6, AfterRetryShrinks, ShrinkStep DEF LogDeadLettered, Quiet, db, cache
<1> QED BY <1>1, <1>2, <1>3, <1>4, <1>5, <1>6 DEF ActorStep

LEMMA CoreNext == TypeOK /\ Core /\ [Next]_vars => Core'
<1> SUFFICES ASSUME TypeOK, Core, [Next]_vars PROVE Core'
  OBVIOUS
<1>u. ASSUME UNCHANGED <<pc, hold>> PROVE UNCHANGED <<pc, hold>> /\ Shrinks
  BY <1>u DEF Shrinks, Locked, InFlight
<1>1. ASSUME NEW e \in Event, AddEvent(e) PROVE Core'
  <2>1. \A a \in Actor : Locked(a)' = Locked(a) /\ InFlight(a)' = InFlight(a)
    BY <1>1 DEF AddEvent, Locked, InFlight
  <2>2. UNCHANGED <<retry, applied, zUser, zGuild>> BY <1>1 DEF AddEvent, cache
  <2>3. \A f \in Event : row[f] # "absent" => row'[f] = row[f] BY <1>1 DEF AddEvent, TypeOK
  <2>4. LockedStaysClaimed' BY <2>1, <2>2, <2>3 DEF Core, LockedStaysClaimed, Locked, TypeOK
  <2>5. ExactlyOnce' BY <1>1, <2>2 DEF AddEvent, Core, ExactlyOnce, TypeOK
  <2> QED BY <2>1, <2>2, <2>4, <2>5
          DEF Core, LocksExclusive, InFlightFresh, InFlightExclusive, CacheNeverAhead
<1>2. ASSUME NEW e \in Event, Notify(e) PROVE Core'
  BY <1>2, <1>u, ShrinkStep DEF Notify, Quiet, db, cache
<1>3. ASSUME NEW S \in SUBSET Event, Purge(S) PROVE Core'
  <2>1. \A a \in Actor : Locked(a)' = Locked(a) /\ InFlight(a)' = InFlight(a)
    BY <1>3 DEF Purge, Locked, InFlight
  <2>2. UNCHANGED <<retry, applied, zUser, zGuild>> BY <1>3 DEF Purge, cache
  <2>3. \A f \in Event : row[f] = "pending" => row'[f] = row[f] BY <1>3 DEF Purge, TypeOK
  <2>4. LockedStaysClaimed' BY <2>1, <2>2, <2>3 DEF Core, LockedStaysClaimed, Locked, TypeOK
  <2>5. ExactlyOnce' BY <1>3, <2>2 DEF Purge, Core, ExactlyOnce, TypeOK
  <2> QED BY <2>1, <2>2, <2>4, <2>5
          DEF Core, LocksExclusive, InFlightFresh, InFlightExclusive, CacheNeverAhead
<1>4. CASE UNCHANGED vars BY <1>4, <1>u, ShrinkStep DEF vars, Quiet
<1> QED BY <1>1, <1>2, <1>3, <1>4, RunCore, DrainStepCore, SlotStepCore, ActorStepCore
        DEF Next, WorkerNext, MainStep

LEMMA CoreInit == Init => Core
BY DEF Init, Core, LocksExclusive, LockedStaysClaimed, InFlightFresh, InFlightExclusive,
       ExactlyOnce, CacheNeverAhead, Locked, InFlight, TxPc

\* The inductive invariant holds in every reachable state.
THEOREM Inductive == Spec => []IndInv
<1>1. Init => IndInv BY TypeInit, CoreInit DEF IndInv, Core
<1>2. IndInv /\ [Next]_vars => IndInv' BY TypeNext, CoreNext DEF IndInv, Core
<1> QED BY <1>1, <1>2, PTL DEF Spec

\* Every event's MySQL effects are committed exactly once, with its processed mark.
THEOREM ExactlyOnceHolds == Spec => []ExactlyOnce
BY Inductive, PTL DEF IndInv

\* The Redis rankings never count an event twice or before its commit.
THEOREM CacheNeverAheadHolds == Spec => []CacheNeverAhead
BY Inductive, PTL DEF IndInv

-----------------------------------------------------------------------------
(* The slots of a worker.                                                  *)

\* Slots are alive only while their worker is in processBatch.
SlotsLive == \A s \in Slot : pc[s] # "done" => pc[SlotOwner[s]] = "fan"

\* A main goroutine moves on, or its process is gone, and takes its slots along.
TakesSlots(w, at) ==
  pc' = [a \in Actor |-> IF a = w THEN at ELSE IF a \in SlotsOf(w) THEN "done" ELSE pc[a]]

LEMMA TakesSlotsLive ==
  ASSUME SlotsLive, NEW w \in Worker, NEW at, TakesSlots(w, at)
  PROVE  SlotsLive'
BY ActorAssumption DEF SlotsLive, TakesSlots, SlotsOf, Actor

LEMMA DrainTakesSlots ==
  ASSUME NEW w \in Worker, NEW f, NEW m,
         BatchError(w) \/ FallbackError(w) \/ RoundEnd(w, f, m)
  PROVE  \E at \in {"wait", "batch", "list"} : TakesSlots(w, at) /\ Main(w, at, {})
BY DEF BatchError, FallbackError, RoundEnd, BackToSelect, NewTick, Continue, Main, TakesSlots

LEMMA SlotsLiveNext == TypeOK /\ SlotsLive /\ [Next]_vars => SlotsLive'
<1> SUFFICES ASSUME TypeOK, SlotsLive, [Next]_vars PROVE SlotsLive'
  OBVIOUS
<1>q. ASSUME UNCHANGED pc PROVE SlotsLive' BY <1>q DEF SlotsLive
<1>t. ASSUME NEW w \in Worker, NEW at, TakesSlots(w, at) PROVE SlotsLive' BY <1>t, TakesSlotsLive
<1>d. ASSUME NEW w \in Worker, NEW f, NEW m,
             BatchError(w) \/ FallbackError(w) \/ RoundEnd(w, f, m)
      PROVE  SlotsLive'
  BY <1>d, <1>t, DrainTakesSlots
<1>s. ASSUME NEW s \in Slot, NEW at, pc' = [pc EXCEPT ![s] = at], pc[s] # "done"
      PROVE  SlotsLive'
  BY <1>s, ActorAssumption DEF SlotsLive, TypeOK, Actor
<1>1. ASSUME NEW e \in Event, AddEvent(e) \/ Notify(e) PROVE SlotsLive'
  BY <1>1, <1>q DEF AddEvent, Notify
<1>2. ASSUME NEW S \in SUBSET Event, Purge(S) PROVE SlotsLive' BY <1>2, <1>q DEF Purge
<1>3. ASSUME NEW w \in Worker,
             \/ Start(w) \/ Tick(w) \/ Notified(w) \/ Exit(w)
             \/ Stop(w) \/ Crash(w) \/ TickDeadline(w) \/ SubscriptionClosed(w)
      PROVE  SlotsLive'
  <2>1. UNCHANGED pc \/ TakesSlots(w, "batch") \/ TakesSlots(w, "down")
    BY <1>3 DEF Start, Tick, Notified, Exit, Stop, Crash, TickDeadline, SubscriptionClosed,
                Continue, Main, Gone, TakesSlots
  <2> QED BY <2>1, <1>q, <1>t
<1>4. ASSUME NEW w \in Worker, BeginBatch(w) \/ CommitBatch(w) \/ RollbackBatch(w) \/ EndBatch(w)
      PROVE  SlotsLive'
  BY <1>4, <1>d, <1>t
  DEF BeginBatch, CommitBatch, RollbackBatch, EndBatch, Continue, Main, TakesSlots
<1>5. ASSUME NEW w \in Worker, ListCandidates(w) \/ NoCandidates(w) \/ EndFan(w) PROVE SlotsLive'
  BY <1>5, <1>d, <1>t DEF ListCandidates, NoCandidates, EndFan, Continue, Main, TakesSlots
<1>6. ASSUME NEW w \in Worker, StartFan(w) PROVE SlotsLive'
  BY <1>6, ActorAssumption DEF StartFan, SlotsLive, SlotsOf, Actor
<1>7. ASSUME NEW s \in Slot, SlotStep(s) PROVE SlotsLive'
  <2>1. pc[s] # "done" /\ \E at : pc' = [pc EXCEPT ![s] = at]
    BY <1>7 DEF SlotStep, Claim, CommitOne, FailApply, FailMark, AfterCommit, Goroutine
  <2> QED BY <2>1, <1>s
<1>8. ASSUME NEW a \in Actor, ActorStep(a) PROVE SlotsLive'
  <2>1. pc[a] \in {"redis", "retry", "log"}
    BY <1>8 DEF ActorStep, RedisApply, RedisFail, RedisSkip, IncrementRetry, LogDeadLettered,
                RetryNotRecorded
  <2>2. \/ AfterRedis(a) \/ \E e : AfterRetry(a, e)
        \/ pc' = [pc EXCEPT ![a] = "log"]
    BY <1>8 DEF ActorStep, RedisApply, RedisFail, RedisSkip, IncrementRetry, LogDeadLettered,
                AfterIncrement, RetryNotRecorded, AfterFailedRedis
  <2>5. CASE pc' = [pc EXCEPT ![a] = "log"]
    BY <2>1, <2>5, ActorAssumption DEF SlotsLive, TypeOK, Actor
  <2>3. CASE a \in Worker
    BY <2>2, <2>3, <2>5, <1>t, ActorAssumption DEF AfterRedis, AfterRetry, Main, TakesSlots
  <2>4. CASE a \in Slot
    BY <2>1, <2>2, <2>4, <2>5, <1>s, ActorAssumption DEF AfterRedis, AfterRetry, Goroutine
  <2> QED BY <2>3, <2>4 DEF Actor
<1>9. CASE UNCHANGED vars BY <1>9, <1>q DEF vars
<1> QED BY <1>1, <1>2, <1>3, <1>4, <1>5, <1>6, <1>7, <1>8, <1>9
        DEF Next, WorkerNext, MainStep

LEMMA SlotsDone ==
  ASSUME SlotsLive, NEW w \in Worker, pc[w] # "fan"
  PROVE  \A s \in SlotsOf(w) : pc[s] = "done"
BY DEF SlotsLive, SlotsOf

-----------------------------------------------------------------------------
(* Dead letters.                                                           *)

\* Actor a has reached the limit with its increment of e and is about to log it.
Logs(a, e) == pc[a] = "log" /\ FirstOf(hold[a]) = e

\* At most one actor has ever been told that its increment reached the limit, and it either
\* is about to log the line or has done so.
DeadInv ==
  \A e \in Event :
    /\ dead[e] <= 1
    /\ dead[e] = 1 \/ (\E a \in Actor : Logs(a, e)) => retry[e] >= MaxRetry
    /\ dead[e] = 1 => \A a \in Actor : ~Logs(a, e)
    /\ \A a, b \in Actor : Logs(a, e) /\ Logs(b, e) => a = b

\* Actor a comes to the log line, or leaves it, in none of the other steps.
KeepsLog(a) ==
  /\ pc'[a] = "log" => pc[a] = "log"
  /\ pc[a] = "log" => pc'[a] = "log" /\ hold'[a] = hold[a]

LEMMA KeepsLogs ==
  ASSUME NEW a \in Actor, KeepsLog(a), NEW e
  PROVE  Logs(a, e)' <=> Logs(a, e)
BY DEF KeepsLog, Logs

LEMMA MainKeepsLogs ==
  ASSUME TypeOK, SlotsLive, NEW w \in Worker, pc[w] # "fan", NEW at, NEW S, Main(w, at, S)
  PROVE  \A a \in Actor \ {w} : KeepsLog(a)
BY SlotsDone DEF Main, KeepsLog, TypeOK

LEMMA GoroutineKeepsLogs ==
  ASSUME TypeOK, NEW s \in Slot, NEW at, NEW S, Goroutine(s, at, S)
  PROVE  \A a \in Actor \ {s} : KeepsLog(a)
BY DEF Goroutine, KeepsLog, TypeOK

LEMMA AfterRetryKeepsLogs ==
  ASSUME TypeOK, SlotsLive, NEW a \in Actor, pc[a] # "fan", NEW e, AfterRetry(a, e)
  PROVE  (\A b \in Actor \ {a} : KeepsLog(b)) /\ pc'[a] # "log"
<1>1. CASE a \in Worker
  <2>1. Main(a, "retry", hold[a] \ {e}) BY <1>1, ActorAssumption DEF AfterRetry
  <2> QED BY <1>1, <2>1, MainKeepsLogs DEF Main
<1>2. CASE a \in Slot
  <2>1. Goroutine(a, "idle", {}) BY <1>2, ActorAssumption DEF AfterRetry
  <2> QED BY <1>2, <2>1, GoroutineKeepsLogs DEF Goroutine, TypeOK
<1> QED BY <1>1, <1>2 DEF Actor

LEMMA AfterRedisKeepsLogs ==
  ASSUME TypeOK, SlotsLive, NEW a \in Actor, pc[a] = "redis", AfterRedis(a)
  PROVE  \A b \in Actor : KeepsLog(b)
<1>1. CASE a \in Worker
  <2>1. Main(a, "retry", hold[a] \cap Undecodable) BY <1>1, ActorAssumption DEF AfterRedis
  <2>2. KeepsLog(a) BY <2>1 DEF Main, KeepsLog
  <2> QED BY <1>1, <2>1, <2>2, MainKeepsLogs
<1>2. CASE a \in Slot
  <2>1. Goroutine(a, "idle", {}) BY <1>2, ActorAssumption DEF AfterRedis
  <2>2. KeepsLog(a) BY <2>1 DEF Goroutine, KeepsLog, TypeOK
  <2> QED BY <1>2, <2>1, <2>2, GoroutineKeepsLogs
<1> QED BY <1>1, <1>2 DEF Actor

\* A main goroutine that is neither at the log line nor in processBatch, and comes to neither.
LEMMA MainPasses ==
  ASSUME TypeOK, SlotsLive, NEW w \in Worker, pc[w] \notin {"fan", "log"},
         NEW at, at # "log", NEW S, Main(w, at, S)
  PROVE  \A a \in Actor : KeepsLog(a)
<1>1. KeepsLog(w) BY DEF Main, KeepsLog, Actor
<1> QED BY <1>1, MainKeepsLogs

\* Steps that leave retry_count, the log and everybody who is about to log alone.
Aside == UNCHANGED <<retry, dead>> /\ \A a \in Actor : KeepsLog(a)

LEMMA RunAside ==
  ASSUME TypeOK, SlotsLive, NEW w \in Worker,
         \/ Start(w) \/ Tick(w) \/ Notified(w) \/ Exit(w)
         \/ Stop(w) \/ TickDeadline(w) \/ SubscriptionClosed(w)
  PROVE  Aside
<1>u. ASSUME UNCHANGED <<pc, hold>> PROVE \A a \in Actor : KeepsLog(a) BY <1>u DEF KeepsLog
<1>1. CASE Start(w) \/ Tick(w)
  <2>1. Main(w, "batch", {}) /\ pc[w] \in {"down", "wait"} BY <1>1 DEF Start, Tick, Continue
  <2>2. \A a \in Actor : KeepsLog(a) BY <2>1, MainPasses
  <2> QED BY <1>1, <2>2 DEF Start, Tick, Aside, db
<1>2. CASE Notified(w)
  <2>1. UNCHANGED <<pc, hold>> \/ (Main(w, "batch", {}) /\ pc[w] = "wait")
    BY <1>2 DEF Notified, Continue
  <2>2. \A a \in Actor : KeepsLog(a) BY <2>1, <1>u, MainPasses
  <2> QED BY <1>2, <2>2 DEF Notified, Aside, db
<1>3. CASE Exit(w)
  <2>1. pc[w] = "wait" /\ \A s \in SlotsOf(w) : pc[s] = "done" BY <1>3, SlotsDone DEF Exit
  <2>2. \A a \in Actor : KeepsLog(a) BY <1>3, <2>1 DEF Exit, Gone, KeepsLog, TypeOK
  <2> QED BY <1>3, <2>2 DEF Exit, Gone, Aside, db
<1>4. CASE Stop(w) \/ TickDeadline(w) \/ SubscriptionClosed(w)
  BY <1>4, <1>u DEF Stop, TickDeadline, SubscriptionClosed, Aside, db
<1> QED BY <1>1, <1>2, <1>3, <1>4

LEMMA DrainStepAside ==
  ASSUME TypeOK, SlotsLive, NEW w \in Worker,
         \/ BeginBatch(w) \/ CommitBatch(w) \/ RollbackBatch(w) \/ EndBatch(w)
         \/ ListCandidates(w) \/ StartFan(w) \/ NoCandidates(w) \/ EndFan(w)
  PROVE  Aside
<1>r. UNCHANGED <<retry, dead>>
  BY DEF BeginBatch, CommitBatch, RollbackBatch, EndBatch, ListCandidates, StartFan, NoCandidates,
         EndFan, ApplyAndMark, db
<1>1. CASE StartFan(w)
  <2>1. pc[w] = "listTx" /\ \A s \in SlotsOf(w) : pc[s] = "done" BY <1>1, SlotsDone DEF StartFan
  <2> QED BY <1>1, <1>r, <2>1 DEF StartFan, Aside, KeepsLog, TypeOK
<1>2. CASE EndFan(w)
  <2>1. pc[w] = "fan" /\ \A s \in SlotsOf(w) : pc[s] \in {"idle", "done"} BY <1>2 DEF EndFan
  <2>2. PICK at \in {"wait", "batch", "list"} : Main(w, at, {})
    BY <1>2, DrainTakesSlots DEF EndFan
  <2> QED BY <1>r, <2>1, <2>2 DEF Main, Aside, KeepsLog, TypeOK
<1>3. CASE BeginBatch(w) \/ CommitBatch(w) \/ RollbackBatch(w) \/ EndBatch(w)
           \/ ListCandidates(w) \/ NoCandidates(w)
  <2>1. pc[w] \notin {"fan", "log"}
    BY <1>3 DEF BeginBatch, CommitBatch, RollbackBatch, EndBatch, ListCandidates, NoCandidates
  <2>2. \E at, S : at # "log" /\ Main(w, at, S)
    BY <1>3, DrainTakesSlots
    DEF BeginBatch, CommitBatch, RollbackBatch, EndBatch, ListCandidates, NoCandidates, Continue
  <2>3. \A a \in Actor : KeepsLog(a) BY <2>1, <2>2, MainPasses
  <2> QED BY <1>r, <2>3 DEF Aside
<1> QED BY <1>1, <1>2, <1>3

LEMMA SlotStepAside ==
  ASSUME TypeOK, NEW s \in Slot, SlotStep(s)
  PROVE  Aside
<1>r. UNCHANGED <<retry, dead>>
  BY DEF SlotStep, Claim, CommitOne, FailApply, FailMark, ApplyAndMark, db
<1>1. CASE Claim(s)
  <2> DEFINE w == SlotOwner[s]
  <2>1. pc[w] = "fan" /\ pc[s] = "idle" /\ w \in Worker BY <1>1, ActorAssumption DEF Claim
  <2>2. PICK at, S, T : /\ pc' = [pc EXCEPT ![s] = at] /\ at # "log"
                        /\ hold' = [hold EXCEPT ![w] = T, ![s] = S]
    BY <1>1 DEF Claim
  <2> QED BY <1>r, <2>1, <2>2 DEF Aside, KeepsLog, TypeOK, Actor
<1>2. CASE CommitOne(s) \/ FailApply(s) \/ FailMark(s)
  <2>1. PICK at, S : at # "log" /\ Goroutine(s, at, S) /\ pc[s] = "claimTx"
    BY <1>2 DEF CommitOne, FailApply, FailMark, AfterCommit
  <2> QED BY <1>r, <2>1 DEF Goroutine, Aside, KeepsLog, TypeOK, Actor
<1> QED BY <1>1, <1>2 DEF SlotStep

\* Only IncrementRetry touches retry_count, only LogDeadLettered the log, and only a crash
\* keeps an actor that is about to log from doing so.
LEMMA LogFrame ==
  ASSUME TypeOK, SlotsLive, [Next]_vars
  PROVE  \/ Aside
         \/ \E a \in Actor : IncrementRetry(a) \/ LogDeadLettered(a)
         \/ \E w \in Worker : Crash(w)
<1>u. ASSUME UNCHANGED <<pc, hold, retry, dead>> PROVE Aside BY <1>u DEF KeepsLog, Aside
<1>1. ASSUME NEW e \in Event, AddEvent(e) \/ Notify(e) PROVE Aside
  BY <1>1, <1>u DEF AddEvent, Notify, db
<1>2. ASSUME NEW S \in SUBSET Event, Purge(S) PROVE Aside BY <1>2, <1>u DEF Purge
<1>3. ASSUME NEW a \in Actor, RedisApply(a) \/ RedisFail(a) \/ RedisSkip(a) PROVE Aside
  <2>1. pc[a] = "redis" /\ AfterRedis(a) /\ UNCHANGED <<retry, dead>>
    BY <1>3 DEF RedisApply, RedisFail, RedisSkip, AfterFailedRedis, db
  <2> QED BY <2>1, AfterRedisKeepsLogs DEF Aside
<1>4. ASSUME NEW a \in Actor, RetryNotRecorded(a) PROVE Aside
  <2>1. pc[a] = "retry" /\ UNCHANGED <<retry, dead>> /\ \E e : AfterRetry(a, e)
    BY <1>4 DEF RetryNotRecorded, db
  <2>2. (\A b \in Actor \ {a} : KeepsLog(b)) /\ pc'[a] # "log" BY <2>1, AfterRetryKeepsLogs
  <2> QED BY <2>1, <2>2 DEF Aside, KeepsLog
<1>5. CASE UNCHANGED vars BY <1>5, <1>u DEF vars
<1> QED BY <1>1, <1>2, <1>3, <1>4, <1>5, RunAside, DrainStepAside, SlotStepAside
        DEF Next, WorkerNext, MainStep, ActorStep

\* What an increment does to those who are about to log, and what the log line does.
LEMMA IncrementLogs ==
  ASSUME TypeOK, SlotsLive, NEW a \in Actor, IncrementRetry(a)
  PROVE  LET f == FirstOf(hold[a])
         IN /\ retry' = [retry EXCEPT ![f] = @ + 1] /\ UNCHANGED dead
            /\ \A b \in Actor \ {a} : KeepsLog(b)
            /\ pc[a] # "log"
            /\ \/ ReachesLimit(retry[f] + 1) /\ pc'[a] = "log" /\ hold'[a] = hold[a]
               \/ pc'[a] # "log" /\ (~ReachesLimit(retry[f] + 1) \/ Fault("ambiguous"))
<1> DEFINE f == FirstOf(hold[a])
<1>1. retry' = [retry EXCEPT ![f] = @ + 1] /\ UNCHANGED dead /\ pc[a] = "retry"
  BY DEF IncrementRetry
<1>2. CASE ReachesLimit(retry[f] + 1) /\ pc' = [pc EXCEPT ![a] = "log"] /\ UNCHANGED hold
  <2>1. \A b \in Actor \ {a} : KeepsLog(b) BY <1>2 DEF KeepsLog, TypeOK
  <2>2. pc'[a] = "log" BY <1>2 DEF TypeOK
  <2> QED BY <1>1, <1>2, <2>1, <2>2
<1>3. CASE AfterRetry(a, f) /\ (~ReachesLimit(retry[f] + 1) \/ Fault("ambiguous"))
  BY <1>1, <1>3, AfterRetryKeepsLogs
<1> QED BY <1>2, <1>3 DEF IncrementRetry, AfterIncrement

LEMMA LoggedLogs ==
  ASSUME TypeOK, SlotsLive, NEW a \in Actor, LogDeadLettered(a)
  PROVE  LET f == FirstOf(hold[a])
         IN /\ dead' = [dead EXCEPT ![f] = @ + 1] /\ UNCHANGED retry
            /\ \A b \in Actor \ {a} : KeepsLog(b)
            /\ Logs(a, f) /\ pc'[a] # "log"
BY AfterRetryKeepsLogs DEF LogDeadLettered, Logs, db

LEMMA CrashLogs ==
  ASSUME TypeOK, NEW w \in Worker, Crash(w)
  PROVE  /\ UNCHANGED <<retry, dead>> /\ pc[w] # "down" /\ pc'[w] = "down"
         /\ Fault("crash")
         /\ \A a \in Actor : pc'[a] = "log" => pc[a] = "log" /\ hold'[a] = hold[a]
BY DEF Crash, Gone, db, TypeOK, Actor

LEMMA DeadNext == TypeOK /\ SlotsLive /\ DeadInv /\ [Next]_vars => DeadInv'
<1> SUFFICES ASSUME TypeOK, SlotsLive, DeadInv, [Next]_vars, NEW e \in Event
             PROVE  /\ dead'[e] <= 1
                    /\ dead'[e] = 1 \/ (\E a \in Actor : Logs(a, e)') => retry'[e] >= MaxRetry
                    /\ dead'[e] = 1 => \A a \in Actor : ~Logs(a, e)'
                    /\ \A a, b \in Actor : Logs(a, e)' /\ Logs(b, e)' => a = b
  BY DEF DeadInv
<1>t. dead[e] \in Nat /\ retry[e] \in Nat /\ MaxRetry \in Nat \ {0} BY BoundAssumption DEF TypeOK
<1>1. CASE Aside BY <1>1, KeepsLogs DEF Aside, DeadInv
<1>2. ASSUME NEW w \in Worker, Crash(w)
      PROVE  UNCHANGED <<retry, dead>> /\ \A a \in Actor : Logs(a, e)' => Logs(a, e)
  BY <1>2, CrashLogs DEF Logs
<1>3. ASSUME NEW a \in Actor, IncrementRetry(a)
      PROVE  /\ dead'[e] <= 1
             /\ dead'[e] = 1 \/ (\E b \in Actor : Logs(b, e)') => retry'[e] >= MaxRetry
             /\ dead'[e] = 1 => \A b \in Actor : ~Logs(b, e)'
             /\ \A b, c \in Actor : Logs(b, e)' /\ Logs(c, e)' => b = c
  <2> DEFINE f == FirstOf(hold[a])
  <2>1. /\ retry' = [retry EXCEPT ![f] = @ + 1] /\ UNCHANGED dead
        /\ \A b \in Actor \ {a} : KeepsLog(b)
        /\ pc[a] # "log"
        /\ pc'[a] = "log" => ReachesLimit(retry[f] + 1) /\ hold'[a] = hold[a]
    BY <1>3, IncrementLogs
  <2>2. \A b \in Actor \ {a} : Logs(b, e)' <=> Logs(b, e) BY <2>1, KeepsLogs
  <2>3. Logs(a, e)' => f = e BY <2>1 DEF Logs
  <2>4. Logs(a, e)' => ReachesLimit(retry[f] + 1) BY <2>1 DEF Logs
  <2> HIDE DEF f
  <2>5. CASE Logs(a, e)'
    <3>1. retry[e] + 1 = MaxRetry /\ retry'[e] = MaxRetry
      BY <2>1, <2>3, <2>4, <2>5 DEF ReachesLimit, TypeOK
    <3>2. dead[e] # 1 /\ \A b \in Actor : ~Logs(b, e) BY <1>t, <3>1 DEF DeadInv
    <3> QED BY <1>t, <2>1, <2>2, <3>1, <3>2 DEF DeadInv
  <2>6. CASE ~Logs(a, e)'
    <3>1. retry'[e] >= retry[e] BY <1>t, <2>1 DEF TypeOK
    <3>2. \A b \in Actor : Logs(b, e)' => Logs(b, e) BY <2>2, <2>6
    <3> QED BY <1>t, <2>1, <3>1, <3>2 DEF DeadInv, TypeOK
  <2> QED BY <2>5, <2>6
<1>4. ASSUME NEW a \in Actor, LogDeadLettered(a)
      PROVE  /\ dead'[e] <= 1
             /\ dead'[e] = 1 \/ (\E b \in Actor : Logs(b, e)') => retry'[e] >= MaxRetry
             /\ dead'[e] = 1 => \A b \in Actor : ~Logs(b, e)'
             /\ \A b, c \in Actor : Logs(b, e)' /\ Logs(c, e)' => b = c
  <2> DEFINE f == FirstOf(hold[a])
  <2>1. /\ dead' = [dead EXCEPT ![f] = @ + 1] /\ UNCHANGED retry
        /\ \A b \in Actor \ {a} : KeepsLog(b)
        /\ Logs(a, f) /\ pc'[a] # "log"
    BY <1>4, LoggedLogs
  <2>2. \A b \in Actor \ {a} : Logs(b, e)' <=> Logs(b, e) BY <2>1, KeepsLogs
  <2>3. ~Logs(a, e)' BY <2>1 DEF Logs
  <2> HIDE DEF f
  <2>4. CASE f = e
    <3>1. dead'[e] = dead[e] + 1 /\ Logs(a, e) BY <2>1, <2>4 DEF TypeOK
    <3>2. dead[e] = 0 /\ retry[e] >= MaxRetry BY <1>t, <3>1 DEF DeadInv
    <3>3. \A b \in Actor \ {a} : ~Logs(b, e) BY <3>1 DEF DeadInv
    <3> QED BY <1>t, <2>1, <2>2, <2>3, <3>1, <3>2, <3>3
  <2>5. CASE f # e
    <3>1. dead'[e] = dead[e] BY <2>1, <2>5 DEF TypeOK
    <3> QED BY <1>t, <2>1, <2>2, <2>3, <3>1 DEF DeadInv
  <2> QED BY <2>4, <2>5
<1>5. CASE \E w \in Worker : Crash(w)
  <2>1. UNCHANGED <<retry, dead>> /\ \A a \in Actor : Logs(a, e)' => Logs(a, e) BY <1>2, <1>5
  <2> QED BY <2>1 DEF DeadInv
<1> QED BY <1>1, <1>3, <1>4, <1>5, LogFrame

LEMMA DeadInit == Init => SlotsLive /\ DeadInv
<1> SUFFICES ASSUME Init PROVE SlotsLive /\ DeadInv OBVIOUS
<1>1. SlotsLive BY ActorAssumption DEF Init, SlotsLive, Actor
<1>2. \A a \in Actor : pc[a] # "log" BY DEF Init
<1>3. DeadInv BY <1>2, BoundAssumption DEF Init, DeadInv, Logs
<1> QED BY <1>1, <1>3

\* The dead-letter line is never logged twice, however many workers race on an event, and
\* never before the limit is reached.
THEOREM DeadLetterLoggedOnceHolds == Spec => []DeadLetterLoggedOnce
<1>1. TypeOK /\ DeadInv => DeadLetterLoggedOnce
  <2> SUFFICES ASSUME TypeOK, DeadInv, NEW e \in Event
               PROVE  dead[e] <= IF retry[e] >= MaxRetry THEN 1 ELSE 0
    BY DEF DeadLetterLoggedOnce
  <2>1. dead[e] \in Nat BY DEF TypeOK
  <2> QED BY <2>1 DEF DeadInv
<1> QED BY <1>1, DeadInit, DeadNext, SlotsLiveNext, TypeCorrect, PTL DEF Spec

\* Without a process that dies or a COMMIT with an unknown outcome, whoever takes an event to
\* the limit logs it, whatever else fails, races or is cancelled meanwhile.
THEOREM DeadLetterNeverSilentHolds == Spec => DeadLetterNeverSilent
<1> DEFINE Excused ==
      /\ faults' > faults
      /\ "ambiguous" \in FaultKinds \/ \E w \in Worker : pc[w] # "down" /\ pc'[w] = "down"
<1>1. TypeOK /\ SlotsLive /\ DeadInv /\ [Next]_vars =>
        \A e \in Event : Silent(e)' => Silent(e) \/ Excused
  <2> SUFFICES ASSUME TypeOK, SlotsLive, DeadInv, [Next]_vars, NEW e \in Event,
                      Silent(e)', ~Silent(e)
               PROVE  Excused
    OBVIOUS
  <2>t. /\ dead[e] \in Nat /\ retry[e] \in Nat /\ MaxRetry \in Nat \ {0}
        /\ faults \in Nat
    BY BoundAssumption DEF TypeOK
  <2>s. /\ retry'[e] >= MaxRetry /\ dead'[e] = 0 /\ \A a \in Actor : ~Logs(a, e)'
    BY DEF Silent, Logs
  <2>n. retry[e] >= MaxRetry /\ dead[e] = 0 => \E a \in Actor : Logs(a, e)
    BY DEF Silent, Logs
  <2>1. CASE Aside BY <2>1, <2>s, <2>n, KeepsLogs DEF Aside
  <2>2. ASSUME NEW w \in Worker, Crash(w) PROVE Excused
    BY <2>2, <2>t, CrashLogs DEF Fault
  <2>3. ASSUME NEW a \in Actor, LogDeadLettered(a) PROVE FALSE
    <3> DEFINE f == FirstOf(hold[a])
    <3>1. /\ dead' = [dead EXCEPT ![f] = @ + 1] /\ UNCHANGED retry
          /\ \A b \in Actor \ {a} : KeepsLog(b)
          /\ Logs(a, f)
      BY <2>3, LoggedLogs
    <3>2. \A b \in Actor \ {a} : Logs(b, e)' <=> Logs(b, e) BY <3>1, KeepsLogs
    <3> HIDE DEF f
    <3>3. f # e BY <2>t, <2>s, <3>1 DEF TypeOK
    <3>4. dead[e] = 0 /\ retry[e] >= MaxRetry BY <2>s, <3>1, <3>3 DEF TypeOK
    <3>5. ~Logs(a, e) BY <3>1, <3>3 DEF Logs
    <3> QED BY <2>s, <2>n, <3>2, <3>4, <3>5
  <2>4. ASSUME NEW a \in Actor, IncrementRetry(a) PROVE Excused
    <3> DEFINE f == FirstOf(hold[a])
    <3>1. /\ retry' = [retry EXCEPT ![f] = @ + 1] /\ UNCHANGED dead
          /\ \A b \in Actor \ {a} : KeepsLog(b)
          /\ pc[a] # "log"
          /\ \/ ReachesLimit(retry[f] + 1) /\ pc'[a] = "log" /\ hold'[a] = hold[a]
             \/ ~ReachesLimit(retry[f] + 1) \/ Fault("ambiguous")
      BY <2>4, IncrementLogs
    <3>2. \A b \in Actor \ {a} : Logs(b, e)' <=> Logs(b, e) BY <3>1, KeepsLogs
    <3>3. pc'[a] = "log" /\ hold'[a] = hold[a] /\ f = e => Logs(a, e)' BY DEF Logs
    <3>4. ~Logs(a, e) BY <3>1 DEF Logs
    <3> HIDE DEF f
    <3>5. retry[e] < MaxRetry BY <2>s, <2>n, <2>t, <3>1, <3>2, <3>4
    <3>6. f = e /\ retry[e] + 1 = MaxRetry BY <2>s, <2>t, <3>1, <3>5 DEF TypeOK
    <3>7. Fault("ambiguous") BY <2>s, <3>1, <3>3, <3>6 DEF ReachesLimit
    <3> QED BY <2>t, <3>7 DEF Fault
  <2> QED BY <2>1, <2>2, <2>3, <2>4, LogFrame
<1>2. TypeOK /\ SlotsLive /\ DeadInv /\ [Next]_vars =>
        [\A e \in Event : Silent(e)' =>
           \/ Silent(e)
           \/ /\ faults' > faults
              /\ "ambiguous" \in FaultKinds \/ \E w \in Worker : pc[w] # "down" /\ pc'[w] = "down"]_vars
  BY <1>1
<1> QED BY <1>2, DeadInit, DeadNext, SlotsLiveNext, TypeCorrect, PTL DEF Spec, DeadLetterNeverSilent

\* Only the two commits add to applied, and only for rows their transaction holds.
LEMMA AppliedFrame ==
  ASSUME TypeOK, [Next]_vars
  PROVE  \/ applied' = applied
         \/ \E a \in Actor : \E S \in SUBSET Locked(a) : ApplyAndMark(S)
<1>1. ASSUME NEW w \in Worker, CommitBatch(w)
      PROVE  \E a \in Actor : \E S \in SUBSET Locked(a) : ApplyAndMark(S)
  <2>1. w \in Actor /\ hold[w] \cap Decodable \in SUBSET Locked(w)
    BY <1>1 DEF CommitBatch, Locked, TxPc, Actor
  <2> QED BY <1>1, <2>1 DEF CommitBatch
<1>2. ASSUME NEW s \in Slot, CommitOne(s)
      PROVE  \E a \in Actor : \E S \in SUBSET Locked(a) : ApplyAndMark(S)
  <2>1. s \in Actor /\ hold[s] \in SUBSET Locked(s) BY <1>2 DEF CommitOne, Locked, TxPc, Actor
  <2> QED BY <1>2, <2>1 DEF CommitOne
<1>3. \/ applied' = applied
      \/ \E w \in Worker : CommitBatch(w)
      \/ \E s \in Slot : CommitOne(s)
  BY DEF Next, WorkerNext, MainStep, SlotStep, ActorStep, AddEvent, Notify, Purge, Start, Tick, Notified,
         Exit, Stop, Crash, Gone, TickDeadline, SubscriptionClosed, BeginBatch, RollbackBatch,
         EndBatch, ListCandidates, StartFan, NoCandidates, EndFan, Claim, FailApply, FailMark,
         RedisApply, RedisFail, RedisSkip, IncrementRetry, LogDeadLettered, RetryNotRecorded,
         vars, db
<1> QED BY <1>1, <1>2, <1>3

\* A dead-lettered event is never applied.
THEOREM DeadLetterIsFinalHolds == Spec => DeadLetterIsFinal
<1> DEFINE Step == \A e \in Event : applied'[e] > applied[e] => retry[e] < MaxRetry
<1>1. IndInv /\ [Next]_vars => [Step]_vars
  <2> SUFFICES ASSUME IndInv, [Next]_vars, NEW e \in Event, applied'[e] > applied[e]
               PROVE  retry[e] < MaxRetry
    OBVIOUS
  <2>1. applied[e] \in Nat BY DEF IndInv, TypeOK
  <2>2. PICK a \in Actor : \E S \in SUBSET Locked(a) : ApplyAndMark(S)
    BY <2>1, AppliedFrame DEF IndInv
  <2>3. PICK S \in SUBSET Locked(a) : ApplyAndMark(S) BY <2>2
  <2>4. e \in S BY <2>1, <2>3 DEF ApplyAndMark
  <2> QED BY <2>3, <2>4 DEF IndInv, LockedStaysClaimed
<1> QED BY <1>1, Inductive, PTL DEF Spec, DeadLetterIsFinal

-----------------------------------------------------------------------------
(* Cancellation costs no retry.                                            *)

Healthy == Decodable \ Rejected

\* A slot claims one event at a time.
OneEach == \A s \in Slot : pc[s] \in {"claimTx", "retry"} => \A e, f \in hold[s] : e = f

\* What is on its way to recordRetry is poison, or sits in a slot whose context is done: and
\* that context stays done until the process or the round that owns the slot is over.
OnlyPoisonRetried ==
  /\ \A w \in Worker : pc[w] \in {"retry", "log"} => hold[w] \subseteq Undecodable
  /\ \A s \in Slot : pc[s] = "retry" /\ hold[s] \cap Healthy # {} => CtxDone(s)

CancelInv == "tx" \notin FaultKinds => OneEach /\ OnlyPoisonRetried /\ CancelCostsNoRetry

\* The loops in id order take a member of the list, the smallest.
LEMMA FirstOfIn ==
  ASSUME NEW S \in SUBSET Event, S # {}
  PROVE  FirstOf(S) \in S /\ \A f \in S : FirstOf(S) <= f
<1>1. S \subseteq Nat BY EventAssumption
<1>2. PICK e \in S : \A f \in S : ~(<<f, e>> \in OpToRel(<, Nat))
  BY <1>1, NatLessThanWellFounded, WFMin, Zenon
<1>3. \A f \in S : e <= f
  <2> SUFFICES ASSUME NEW f \in S PROVE e <= f OBVIOUS
  <2>1. e \in Nat /\ f \in Nat BY <1>1
  <2>2. ~(f < e) BY <1>2, <2>1 DEF OpToRel
  <2> QED BY <2>1, <2>2
<1> QED BY <1>3 DEF FirstOf

\* Slot s keeps its place and a done context, or is not about to record a retry.
SlotCalm(s) ==
  \/ pc'[s] \notin {"claimTx", "retry"}
  \/ pc'[s] = pc[s] /\ hold'[s] = hold[s] /\ (CtxDone(s) => CtxDone(s)')

\* Worker w does not take events to recordRetry.
MainCalm(w) ==
  pc'[w] \in {"retry", "log"} => pc[w] \in {"retry", "log"} /\ hold'[w] \subseteq hold[w]

Calm == (\A s \in Slot : SlotCalm(s)) /\ \A w \in Worker : MainCalm(w)

LEMMA CalmStep ==
  ASSUME CancelInv, Calm, UNCHANGED retry
  PROVE  CancelInv'
<1> SUFFICES ASSUME "tx" \notin FaultKinds
             PROVE  OneEach' /\ OnlyPoisonRetried' /\ CancelCostsNoRetry'
  BY DEF CancelInv
<1>1. OneEach' BY DEF CancelInv, Calm, SlotCalm, OneEach
<1>2. OnlyPoisonRetried'
  BY DEF CancelInv, Calm, SlotCalm, MainCalm, OnlyPoisonRetried
<1>3. CancelCostsNoRetry' BY DEF CancelInv, CancelCostsNoRetry
<1> QED BY <1>1, <1>2, <1>3

\* A slot's context is its worker's business: it is as it was when that worker's is.
LEMMA CtxKept ==
  ASSUME NEW s \in Slot,
         LET v == SlotOwner[s]
         IN  /\ stopping[v] => stopping'[v]
             /\ tickDead[v] => tickDead'[v]
             /\ failed[v] => failed'[v]
  PROVE  CtxDone(s) => CtxDone(s)'
BY ActorAssumption DEF CtxDone, Owner

\* Nothing changes in the contexts of the other workers.
OtherCtx(w) ==
  \A v \in Worker \ {w} :
    stopping'[v] = stopping[v] /\ tickDead'[v] = tickDead[v] /\ failed'[v] = failed[v]

LEMMA MainMoves ==
  ASSUME TypeOK, NEW w \in Worker, NEW at, NEW S, Main(w, at, S), OtherCtx(w)
  PROVE  (\A s \in Slot : SlotCalm(s)) /\ \A v \in Worker \ {w} : MainCalm(v)
<1>1. ASSUME NEW s \in Slot PROVE SlotCalm(s)
  <2>1. CASE SlotOwner[s] = w
    BY <2>1, ActorAssumption DEF Main, SlotCalm, SlotsOf, Actor
  <2>2. CASE SlotOwner[s] # w
    <3>1. SlotOwner[s] \in Worker \ {w} /\ s # w BY <2>2, ActorAssumption
    <3>2. pc'[s] = pc[s] /\ hold'[s] = hold[s]
      BY <2>2, <3>1, ActorAssumption DEF Main, SlotsOf, Actor, TypeOK
    <3> QED BY <3>1, <3>2, CtxKept DEF OtherCtx, SlotCalm
  <2> QED BY <2>1, <2>2
<1>2. ASSUME NEW v \in Worker \ {w} PROVE MainCalm(v)
  BY ActorAssumption DEF Main, MainCalm, SlotsOf, Actor, TypeOK
<1> QED BY <1>1, <1>2

LEMMA MainCalmly ==
  ASSUME TypeOK, NEW w \in Worker, NEW at, at \notin {"retry", "log"}, NEW S, Main(w, at, S),
         OtherCtx(w)
  PROVE  Calm
<1>1. pc'[w] = at BY DEF Main, Actor
<1> QED BY <1>1, MainMoves DEF Calm, MainCalm

LEMMA DrainCalmly ==
  ASSUME TypeOK, NEW w \in Worker, NEW f, NEW m,
         BatchError(w) \/ FallbackError(w) \/ RoundEnd(w, f, m),
         UNCHANGED stopping, UNCHANGED failed \/ ForgetRound(w)
  PROVE  Calm
<1>1. PICK at \in {"wait", "batch", "list"} : Main(w, at, {})
  BY DEF BatchError, FallbackError, RoundEnd, BackToSelect, NewTick, Continue
<1>2. \A v \in Worker \ {w} : tickDead'[v] = tickDead[v]
  BY DEF BatchError, FallbackError, RoundEnd, BackToSelect, NewTick, Continue, TypeOK
<1>3. \A v \in Worker \ {w} : failed'[v] = failed[v] BY DEF ForgetRound, TypeOK
<1> QED BY <1>1, <1>2, <1>3, MainCalmly DEF OtherCtx

LEMMA RunCalm ==
  ASSUME TypeOK, NEW w \in Worker,
         \/ Start(w) \/ Tick(w) \/ Notified(w) \/ Exit(w)
         \/ Stop(w) \/ Crash(w) \/ TickDeadline(w) \/ SubscriptionClosed(w)
  PROVE  Calm
<1>s. ASSUME UNCHANGED <<pc, hold>>,
             \A v \in Worker : /\ stopping[v] => stopping'[v]
                               /\ tickDead[v] => tickDead'[v]
                               /\ failed[v] => failed'[v]
      PROVE  Calm
  BY <1>s, CtxKept, ActorAssumption DEF Calm, SlotCalm, MainCalm
<1>1. CASE Start(w)
  <2>1. OtherCtx(w) BY <1>1 DEF Start, OtherCtx, TypeOK, round
  <2> QED BY <1>1, <2>1, MainCalmly DEF Start
<1>2. CASE Tick(w)
  <2>1. OtherCtx(w) BY <1>2 DEF Tick, Continue, OtherCtx, round
  <2> QED BY <1>2, <2>1, MainCalmly DEF Tick, Continue
<1>3. CASE Notified(w)
  <2>1. CASE stalled[w] BY <1>3, <2>1, <1>s DEF Notified, round
  <2>2. CASE ~stalled[w]
    <3>1. OtherCtx(w) BY <1>3, <2>2 DEF Notified, Continue, OtherCtx, round
    <3> QED BY <1>3, <2>2, <3>1, MainCalmly DEF Notified, Continue
  <2> QED BY <2>1, <2>2
<1>4. CASE Gone(w)
  <2>1. \A v \in Worker \ {w} : MainCalm(v)
    BY <1>4, ActorAssumption DEF Gone, MainCalm, SlotsOf, Actor, TypeOK
  <2>2. MainCalm(w) BY <1>4 DEF Gone, MainCalm, Actor
  <2>3. OtherCtx(w) BY <1>4 DEF Gone, ForgetRound, OtherCtx, TypeOK
  <2>4. ASSUME NEW s \in Slot PROVE SlotCalm(s)
    <3>1. CASE SlotOwner[s] = w
      BY <1>4, <3>1, ActorAssumption DEF Gone, SlotCalm, SlotsOf, Actor
    <3>2. CASE SlotOwner[s] # w
      <4>1. SlotOwner[s] \in Worker \ {w} /\ s # w BY <3>2, ActorAssumption
      <4>2. pc'[s] = pc[s] /\ hold'[s] = hold[s]
        BY <1>4, <3>2, <4>1 DEF Gone, SlotsOf, Actor
      <4> QED BY <2>3, <4>1, <4>2, CtxKept DEF OtherCtx, SlotCalm
    <3> QED BY <3>1, <3>2
  <2> QED BY <2>1, <2>2, <2>4 DEF Calm
<1>5. CASE Stop(w) BY <1>5, <1>s DEF Stop, round, TypeOK
<1>6. CASE TickDeadline(w) BY <1>6, <1>s DEF TickDeadline, round, TypeOK
<1>7. CASE SubscriptionClosed(w) BY <1>7, <1>s DEF SubscriptionClosed, round
<1> QED BY <1>1, <1>2, <1>3, <1>4, <1>5, <1>6, <1>7 DEF Exit, Crash

LEMMA DrainStepCalm ==
  ASSUME TypeOK, NEW w \in Worker,
         \/ BeginBatch(w) \/ CommitBatch(w) \/ RollbackBatch(w) \/ EndBatch(w)
         \/ ListCandidates(w) \/ StartFan(w) \/ NoCandidates(w) \/ EndFan(w)
  PROVE  Calm
<1>c. ASSUME NEW at, at \notin {"retry", "log"}, NEW S, Continue(w, at, S),
             UNCHANGED <<stopping, failed>>
      PROVE  Calm
  <2>1. OtherCtx(w) BY <1>c DEF Continue, OtherCtx
  <2> QED BY <1>c, <2>1, MainCalmly DEF Continue
<1>1. CASE BeginBatch(w) BY <1>1, <1>c, DrainCalmly DEF BeginBatch, round
<1>2. CASE CommitBatch(w) BY <1>2, <1>c, DrainCalmly DEF CommitBatch
<1>3. CASE RollbackBatch(w) BY <1>3, DrainCalmly DEF RollbackBatch, round
<1>4. CASE EndBatch(w) BY <1>4, DrainCalmly DEF EndBatch
<1>5. CASE ListCandidates(w) BY <1>5, <1>c, DrainCalmly DEF ListCandidates, round
<1>6. CASE StartFan(w)
  <2>1. ASSUME NEW s \in Slot PROVE SlotCalm(s)
    <3>1. CASE SlotOwner[s] = w
      BY <1>6, <3>1, ActorAssumption DEF StartFan, SlotCalm, SlotsOf, Actor
    <3>2. CASE SlotOwner[s] # w
      <4>1. SlotOwner[s] \in Worker \ {w} /\ s # w BY <3>2, ActorAssumption
      <4>2. pc'[s] = pc[s] /\ hold'[s] = hold[s]
        BY <1>6, <3>2, <4>1 DEF StartFan, SlotsOf, Actor
      <4>3. OtherCtx(w) BY <1>6 DEF StartFan, OtherCtx, run, TypeOK
      <4> QED BY <4>1, <4>2, <4>3, CtxKept DEF OtherCtx, SlotCalm
    <3> QED BY <3>1, <3>2
  <2>2. \A v \in Worker : MainCalm(v)
    BY <1>6, ActorAssumption DEF StartFan, MainCalm, SlotsOf, Actor
  <2> QED BY <2>1, <2>2 DEF Calm
<1>7. CASE NoCandidates(w) BY <1>7, DrainCalmly DEF NoCandidates, round
<1>8. CASE EndFan(w) BY <1>8, DrainCalmly DEF EndFan
<1> QED BY <1>1, <1>2, <1>3, <1>4, <1>5, <1>6, <1>7, <1>8

\* A slot moves alone.
LEMMA SlotMoves ==
  ASSUME TypeOK, NEW s \in Slot, NEW at, NEW S, Goroutine(s, at, S),
         UNCHANGED <<stopping, tickDead>>, UNCHANGED failed \/ SlotError(s)
  PROVE  (\A t \in Slot \ {s} : SlotCalm(t)) /\ \A w \in Worker : MainCalm(w)
<1>1. \A v \in Worker : failed[v] => failed'[v]
  BY OwnerType DEF SlotError, TypeOK, Actor
<1>2. ASSUME NEW t \in Slot \ {s} PROVE SlotCalm(t)
  BY <1>1, CtxKept, ActorAssumption DEF Goroutine, SlotCalm, TypeOK, Actor
<1>3. ASSUME NEW w \in Worker PROVE MainCalm(w)
  BY ActorAssumption DEF Goroutine, MainCalm, TypeOK, Actor
<1> QED BY <1>2, <1>3

LEMMA SlotCalmly ==
  ASSUME TypeOK, NEW s \in Slot, NEW at, at \notin {"claimTx", "retry"}, NEW S,
         Goroutine(s, at, S), UNCHANGED <<stopping, tickDead>>, UNCHANGED failed \/ SlotError(s)
  PROVE  Calm
<1>1. SlotCalm(s) BY DEF Goroutine, SlotCalm, TypeOK, Actor
<1> QED BY <1>1, SlotMoves DEF Calm

LEMMA SlotStepCancel ==
  ASSUME TypeOK, CancelInv, NEW s \in Slot, SlotStep(s)
  PROVE  CancelInv'
<1>r. UNCHANGED retry
  BY DEF SlotStep, Claim, CommitOne, FailApply, FailMark, ApplyAndMark, db
<1>1. CASE Claim(s)
  <2> DEFINE w == SlotOwner[s]
             e == FirstOf(hold[w])
  <2>1. PICK at, S :
          /\ pc' = [pc EXCEPT ![s] = at]
          /\ hold' = [hold EXCEPT ![w] = @ \ {e}, ![s] = S]
          /\ at \in {"claimTx", "idle", "done"} /\ S \in {{}, {e}}
    BY <1>1 DEF Claim
  <2>2. pc[w] = "fan" /\ UNCHANGED <<stopping, tickDead>> BY <1>1 DEF Claim, run
  <2>3. w \in Worker /\ s \notin Worker /\ w # s BY ActorAssumption
  <2>4. \A v \in Worker : failed[v] => failed'[v]
    BY <1>1, <2>3 DEF Claim, SlotError, round, TypeOK, Owner
  <2> HIDE DEF e
  <2>5. ASSUME NEW t \in Slot \ {s} PROVE SlotCalm(t)
    <3>1. pc'[t] = pc[t] /\ hold'[t] = hold[t] BY <2>1, <2>3, ActorAssumption DEF TypeOK, Actor
    <3> QED BY <3>1, <2>2, <2>4, CtxKept, ActorAssumption DEF SlotCalm
  <2>6. \A v \in Worker : pc'[v] = pc[v] /\ (pc[v] # "fan" => hold'[v] = hold[v])
    BY <2>1, <2>2, <2>3 DEF TypeOK, Actor
  <2>7. pc'[s] \in {"claimTx", "idle", "done"} /\ hold'[s] \in {{}, {e}}
    BY <2>1, <2>3 DEF TypeOK, Actor
  <2> SUFFICES ASSUME "tx" \notin FaultKinds
               PROVE  OneEach' /\ OnlyPoisonRetried' /\ CancelCostsNoRetry'
    BY DEF CancelInv
  <2>8. OneEach' BY <2>5, <2>7 DEF CancelInv, SlotCalm, OneEach
  <2>9. OnlyPoisonRetried'
    BY <2>5, <2>6, <2>7 DEF CancelInv, SlotCalm, OnlyPoisonRetried
  <2> QED BY <1>r, <2>8, <2>9 DEF CancelInv, CancelCostsNoRetry
<1>2. CASE CommitOne(s)
  <2>1. PICK at, S : at \in {"redis", "done"} /\ Goroutine(s, at, S)
    BY <1>2 DEF CommitOne, AfterCommit
  <2>2. UNCHANGED <<stopping, tickDead>> /\ (UNCHANGED failed \/ SlotError(s))
    BY <1>2 DEF CommitOne, run, round
  <2> QED BY <1>r, <2>1, <2>2, SlotCalmly, CalmStep
<1>3. CASE FailApply(s)
  <2>1. Goroutine(s, "retry", hold[s]) /\ UNCHANGED <<stopping, tickDead, failed>>
    BY <1>3 DEF FailApply, run, round
  <2>2. (\A t \in Slot \ {s} : SlotCalm(t)) /\ \A w \in Worker : MainCalm(w)
    BY <2>1, SlotMoves
  <2>3. pc[s] = "claimTx" /\ hold'[s] = hold[s]
    BY <1>3, <2>1 DEF FailApply, Goroutine, TypeOK, Actor
  <2> SUFFICES ASSUME "tx" \notin FaultKinds
               PROVE  OneEach' /\ OnlyPoisonRetried' /\ CancelCostsNoRetry'
    BY DEF CancelInv
  <2>4. OneEach'
    <3> SUFFICES ASSUME NEW t \in Slot, pc'[t] \in {"claimTx", "retry"}
                 PROVE  \A e, f \in hold'[t] : e = f
      BY DEF OneEach
    <3>1. pc[t] \in {"claimTx", "retry"} /\ hold'[t] = hold[t] BY <2>2, <2>3 DEF SlotCalm
    <3> QED BY <3>1 DEF CancelInv, OneEach
  <2>5. hold[s] \cap Healthy # {} => CtxDone(s)
    <3>1. \A e, f \in hold[s] : e = f BY <2>3 DEF CancelInv, OneEach
    <3>2. CtxDone(s) \/ ~(hold[s] \subseteq Decodable \ Rejected) BY <1>3 DEF FailApply, Fault
    <3> QED BY <3>1, <3>2 DEF Healthy
  <2>6. CtxDone(s) => CtxDone(s)' BY <2>1, CtxKept
  <2>7. OnlyPoisonRetried'
    BY <2>2, <2>3, <2>5, <2>6 DEF CancelInv, SlotCalm, MainCalm, OnlyPoisonRetried
  <2> QED BY <1>r, <2>4, <2>7 DEF CancelInv, CancelCostsNoRetry
<1>4. CASE FailMark(s)
  BY <1>r, <1>4, SlotCalmly, CalmStep DEF FailMark, run
<1> QED BY <1>1, <1>2, <1>3, <1>4 DEF SlotStep

\* An actor that can record a retry holds only poison.
LEMMA RecordsPoison ==
  ASSUME TypeOK, CancelInv, "tx" \notin FaultKinds, NEW a \in Actor, IncrementRetry(a)
  PROVE  FirstOf(hold[a]) \notin Healthy
<1>1. FirstOf(hold[a]) \in hold[a] /\ pc[a] = "retry" /\ ~CtxDone(a)
  BY FirstOfIn DEF IncrementRetry, TypeOK
<1>2. CASE a \in Worker BY <1>1, <1>2 DEF CancelInv, OnlyPoisonRetried, Healthy, Decodable
<1>3. CASE a \in Slot BY <1>1, <1>3 DEF CancelInv, OnlyPoisonRetried
<1> QED BY <1>2, <1>3 DEF Actor

LEMMA ActorStepCancel ==
  ASSUME TypeOK, CancelInv, NEW a \in Actor, ActorStep(a)
  PROVE  CancelInv'
<1>c. UNCHANGED <<stopping, tickDead, failed>>
  BY DEF ActorStep, RedisApply, RedisFail, RedisSkip, IncrementRetry, LogDeadLettered,
         RetryNotRecorded, run, round
<1>1. ASSUME NEW S, Main(a, "retry", S), a \in Worker, "tx" \notin FaultKinds, S \subseteq Undecodable
      PROVE  OneEach' /\ OnlyPoisonRetried'
  <2>1. (\A s \in Slot : SlotCalm(s)) /\ \A v \in Worker \ {a} : MainCalm(v)
    BY <1>1, <1>c, MainMoves DEF OtherCtx
  <2>2. hold'[a] = S BY <1>1 DEF Main, TypeOK, Actor
  <2>3. OneEach' BY <1>1, <2>1 DEF CancelInv, SlotCalm, OneEach
  <2>4. OnlyPoisonRetried'
    BY <1>1, <2>1, <2>2 DEF CancelInv, SlotCalm, MainCalm, OnlyPoisonRetried
  <2> QED BY <2>3, <2>4
<1>2. ASSUME Goroutine(a, "idle", {}), a \in Slot, "tx" \notin FaultKinds
      PROVE  OneEach' /\ OnlyPoisonRetried'
  <2>1. Calm BY <1>2, <1>c, SlotCalmly
  <2> QED BY <1>2, <2>1 DEF CancelInv, Calm, SlotCalm, MainCalm, OneEach, OnlyPoisonRetried
<1> SUFFICES ASSUME "tx" \notin FaultKinds
             PROVE  OneEach' /\ OnlyPoisonRetried' /\ CancelCostsNoRetry'
  BY DEF CancelInv
<1>3. ASSUME AfterRedis(a) PROVE OneEach' /\ OnlyPoisonRetried'
  <2>1. CASE a \in Worker
    BY <2>1, <1>1, <1>3, ActorAssumption DEF AfterRedis
  <2>2. CASE a \in Slot
    BY <2>2, <1>2, <1>3, ActorAssumption DEF AfterRedis
  <2> QED BY <2>1, <2>2 DEF Actor
<1>4. ASSUME NEW e, pc[a] \in {"retry", "log"}, AfterRetry(a, e) PROVE OneEach' /\ OnlyPoisonRetried'
  <2>1. CASE a \in Worker
    <3>1. hold[a] \subseteq Undecodable BY <1>4, <2>1 DEF CancelInv, OnlyPoisonRetried
    <3> QED BY <2>1, <1>1, <1>4, <3>1, ActorAssumption DEF AfterRetry
  <2>2. CASE a \in Slot
    BY <2>2, <1>2, <1>4, ActorAssumption DEF AfterRetry
  <2> QED BY <2>1, <2>2 DEF Actor
<1>5. CASE IncrementRetry(a)
  <2>a. ASSUME pc' = [pc EXCEPT ![a] = "log"], UNCHANGED hold, pc[a] = "retry"
        PROVE  OneEach' /\ OnlyPoisonRetried'
    <3>1. Calm
      BY <1>c, <2>a, CtxKept, ActorAssumption DEF Calm, SlotCalm, MainCalm, TypeOK, Actor
    <3> QED BY <3>1 DEF CancelInv, Calm, SlotCalm, MainCalm, OneEach, OnlyPoisonRetried
  <2>1. OneEach' /\ OnlyPoisonRetried' BY <1>5, <1>4, <2>a DEF IncrementRetry, AfterIncrement
  <2>2. retry' = [retry EXCEPT ![FirstOf(hold[a])] = @ + 1] BY <1>5 DEF IncrementRetry
  <2>3. \A e \in Decodable \ Rejected : retry'[e] = retry[e]
    BY <2>2, <1>5, RecordsPoison DEF Healthy, TypeOK
  <2> QED BY <2>1, <2>3 DEF CancelInv, CancelCostsNoRetry
<1>6. CASE RedisApply(a) \/ RedisFail(a) \/ RedisSkip(a)
  <2>1. OneEach' /\ OnlyPoisonRetried'
    BY <1>6, <1>3 DEF RedisApply, RedisFail, RedisSkip, AfterFailedRedis
  <2>2. UNCHANGED retry BY <1>6 DEF RedisApply, RedisFail, RedisSkip, db
  <2> QED BY <2>1, <2>2 DEF CancelInv, CancelCostsNoRetry
<1>7. CASE RetryNotRecorded(a)
  <2>1. OneEach' /\ OnlyPoisonRetried' BY <1>7, <1>4 DEF RetryNotRecorded
  <2>2. UNCHANGED retry BY <1>7 DEF RetryNotRecorded, db
  <2> QED BY <2>1, <2>2 DEF CancelInv, CancelCostsNoRetry
<1>8. CASE LogDeadLettered(a)
  <2>1. OneEach' /\ OnlyPoisonRetried' BY <1>8, <1>4 DEF LogDeadLettered
  <2>2. UNCHANGED retry BY <1>8 DEF LogDeadLettered, db
  <2> QED BY <2>1, <2>2 DEF CancelInv, CancelCostsNoRetry
<1> QED BY <1>5, <1>6, <1>7, <1>8 DEF ActorStep

LEMMA CancelNext == TypeOK /\ CancelInv /\ [Next]_vars => CancelInv'
<1> SUFFICES ASSUME TypeOK, CancelInv, [Next]_vars PROVE CancelInv'
  OBVIOUS
<1>q. ASSUME UNCHANGED <<pc, hold, stopping, tickDead, failed, retry>> PROVE CancelInv'
  <2>1. Calm BY <1>q, CtxKept, ActorAssumption DEF Calm, SlotCalm, MainCalm
  <2> QED BY <1>q, <2>1, CalmStep
<1>1. ASSUME NEW e \in Event, AddEvent(e) \/ Notify(e) PROVE CancelInv'
  BY <1>1, <1>q DEF AddEvent, Notify, db, round, run
<1>2. ASSUME NEW S \in SUBSET Event, Purge(S) PROVE CancelInv'
  BY <1>2, <1>q DEF Purge, round, run
<1>3. ASSUME NEW w \in Worker,
             \/ Start(w) \/ Tick(w) \/ Notified(w) \/ Exit(w)
             \/ Stop(w) \/ Crash(w) \/ TickDeadline(w) \/ SubscriptionClosed(w)
      PROVE  CancelInv'
  <2>1. UNCHANGED retry
    BY <1>3 DEF Start, Tick, Notified, Exit, Stop, Crash, Gone, TickDeadline, SubscriptionClosed, db
  <2> QED BY <1>3, <2>1, RunCalm, CalmStep
<1>4. ASSUME NEW w \in Worker,
             \/ BeginBatch(w) \/ CommitBatch(w) \/ RollbackBatch(w) \/ EndBatch(w)
             \/ ListCandidates(w) \/ StartFan(w) \/ NoCandidates(w) \/ EndFan(w)
      PROVE  CancelInv'
  <2>1. UNCHANGED retry
    BY <1>4 DEF BeginBatch, CommitBatch, RollbackBatch, EndBatch, ListCandidates, StartFan,
                NoCandidates, EndFan, ApplyAndMark, db
  <2> QED BY <1>4, <2>1, DrainStepCalm, CalmStep
<1>5. CASE UNCHANGED vars BY <1>5, <1>q DEF vars
<1> QED BY <1>1, <1>2, <1>3, <1>4, <1>5, SlotStepCancel, ActorStepCancel
        DEF Next, WorkerNext, MainStep

\* Deadlines, SIGTERM, crashes and lost pipelines never use up a healthy event's retries.
THEOREM CancelCostsNoRetryHolds == Spec => []CancelCostsNoRetry
<1>1. Init => CancelInv
  BY ActorAssumption
  DEF Init, CancelInv, OneEach, OnlyPoisonRetried, CancelCostsNoRetry, Decodable, Actor
<1>2. CancelInv => CancelCostsNoRetry BY DEF CancelInv, CancelCostsNoRetry
<1> QED BY <1>1, <1>2, CancelNext, TypeCorrect, PTL DEF Spec

-----------------------------------------------------------------------------
(* Without a fault the rankings are exact.                                 *)

\* Until the first fault no context is done, ...
NoneCancelled == \A w \in Worker : ~stopping[w] /\ ~tickDead[w] /\ ~failed[w]

\* ... and a committed event that is in no actor's hands any more is in both rankings.
Reflected ==
  \A e \in Event :
    (\A a \in Actor : e \notin InFlight(a)) => zUser[e] = applied[e] /\ zGuild[e] = applied[e]

CacheInv == SlotsLive /\ (faults = 0 => NoneCancelled /\ Reflected)

\* A step after which there still was no fault met none.
LEMMA StillNoFault ==
  ASSUME TypeOK, faults' = 0, NEW kind, Fault(kind)
  PROVE  FALSE
BY BoundAssumption DEF TypeOK, Fault

LEMMA NoCtxDone ==
  ASSUME NoneCancelled, NEW a \in Actor
  PROVE  ~CtxDone(a)
BY OwnerType DEF NoneCancelled, CtxDone

\* Whatever is in flight stays in flight.
Keeps == \A a \in Actor : InFlight(a) \subseteq InFlight(a)'

LEMMA KeepStep ==
  ASSUME Reflected, Keeps, UNCHANGED <<applied, zUser, zGuild>>
  PROVE  Reflected'
BY DEF Reflected, Keeps

\* A main goroutine that is not at the pipeline, and whose slots are not, loses nothing.
LEMMA MainKeeps ==
  ASSUME TypeOK, NEW w \in Worker, NEW at, NEW S, Main(w, at, S), pc[w] # "redis",
         \A s \in SlotsOf(w) : pc[s] # "redis"
  PROVE  Keeps
BY ActorAssumption DEF TypeOK, Main, Keeps, InFlight, Actor

LEMMA SlotKeeps ==
  ASSUME TypeOK, NEW s \in Slot, NEW at, NEW S, Goroutine(s, at, S), pc[s] # "redis"
  PROVE  Keeps
BY ActorAssumption DEF TypeOK, Goroutine, Keeps, InFlight, Actor

\* The new tick, the next round and the return to select leave contexts that are not done.
LEMMA DrainKeeps ==
  ASSUME TypeOK, NoneCancelled, NEW w \in Worker, NEW f, NEW m, pc[w] # "redis",
         \A s \in SlotsOf(w) : pc[s] # "redis",
         BatchError(w) \/ FallbackError(w) \/ RoundEnd(w, f, m),
         UNCHANGED stopping, UNCHANGED failed \/ ForgetRound(w)
  PROVE  Keeps /\ NoneCancelled'
<1>1. Keeps BY MainKeeps, DrainTakesSlots
<1>2. tickDead' = tickDead \/ tickDead' = [tickDead EXCEPT ![w] = FALSE]
  BY DEF BatchError, FallbackError, RoundEnd, BackToSelect, NewTick, Continue
<1>3. failed' = failed \/ failed' = [failed EXCEPT ![w] = FALSE]
  BY DEF ForgetRound
<1> QED BY <1>1, <1>2, <1>3 DEF NoneCancelled, TypeOK

\* What is left to show of a step.
Exact == NoneCancelled' /\ Reflected'

LEMMA RunExact ==
  ASSUME TypeOK, SlotsLive, NoneCancelled, Reflected, faults' = 0, NEW w \in Worker,
         \/ Start(w) \/ Tick(w) \/ Notified(w) \/ Exit(w)
         \/ Stop(w) \/ Crash(w) \/ TickDeadline(w) \/ SubscriptionClosed(w)
  PROVE  Exact
<1>m. ASSUME pc[w] \in {"down", "wait"}, Main(w, "batch", {}) PROVE Keeps
  BY <1>m, MainKeeps, SlotsDone
<1>1. CASE Start(w)
  <2>1. NoneCancelled' BY <1>1 DEF Start, NoneCancelled, TypeOK, round
  <2>2. Keeps BY <1>1, <1>m DEF Start
  <2> QED BY <1>1, <2>1, <2>2, KeepStep DEF Start, Exact, db, cache
<1>2. CASE Tick(w)
  <2>1. NoneCancelled' BY <1>2 DEF Tick, Continue, NoneCancelled, round
  <2>2. Keeps BY <1>2, <1>m DEF Tick, Continue
  <2> QED BY <1>2, <2>1, <2>2, KeepStep DEF Tick, Exact, db, cache
<1>3. CASE Notified(w)
  <2>1. NoneCancelled' BY <1>3 DEF Notified, Continue, NoneCancelled, round
  <2>2. Keeps
    <3>1. CASE stalled[w] BY <1>3, <3>1 DEF Notified, Keeps, InFlight
    <3>2. CASE ~stalled[w] BY <1>3, <3>2, <1>m DEF Notified, Continue
    <3> QED BY <3>1, <3>2
  <2> QED BY <1>3, <2>1, <2>2, KeepStep DEF Notified, Exact, db, cache
<1>4. CASE Exit(w) BY <1>4 DEF Exit, NoneCancelled
<1> QED BY <1>1, <1>2, <1>3, <1>4, StillNoFault
        DEF Stop, Crash, TickDeadline, SubscriptionClosed

\* A commit puts what it applies in flight.
LEMMA CommitExact ==
  ASSUME Reflected, NEW b \in Actor, NEW S, ApplyAndMark(S), UNCHANGED <<zUser, zGuild>>,
         InFlight(b) = {}, InFlight(b)' = S,
         \A a \in Actor \ {b} : InFlight(a) \subseteq InFlight(a)'
  PROVE  Reflected'
<1> SUFFICES ASSUME NEW e \in Event, \A a \in Actor : e \notin InFlight(a)'
             PROVE  zUser'[e] = applied'[e] /\ zGuild'[e] = applied'[e]
  BY DEF Reflected
<1>1. e \notin S /\ \A a \in Actor : e \notin InFlight(a) OBVIOUS
<1> QED BY <1>1 DEF Reflected, ApplyAndMark

LEMMA DrainStepExact ==
  ASSUME TypeOK, SlotsLive, NoneCancelled, Reflected, faults' = 0, NEW w \in Worker,
         \/ BeginBatch(w) \/ CommitBatch(w) \/ RollbackBatch(w) \/ EndBatch(w)
         \/ ListCandidates(w) \/ StartFan(w) \/ NoCandidates(w) \/ EndFan(w)
  PROVE  Exact
<1>w. w \in Actor /\ ~CtxDone(w) BY NoCtxDone DEF Actor
<1>q. ASSUME Keeps, NoneCancelled', UNCHANGED <<applied, zUser, zGuild>> PROVE Exact
  BY <1>q, KeepStep DEF Exact
<1>c. ASSUME NEW at, NEW S, Continue(w, at, S), pc[w] \in {"batch", "list"},
             UNCHANGED <<stopping, failed>>
      PROVE  Keeps /\ NoneCancelled'
  BY <1>c, MainKeeps, SlotsDone DEF Continue, NoneCancelled
<1>d. ASSUME NEW f, NEW m, pc[w] # "redis", \A s \in SlotsOf(w) : pc[s] # "redis",
             BatchError(w) \/ FallbackError(w) \/ RoundEnd(w, f, m),
             UNCHANGED stopping, UNCHANGED failed \/ ForgetRound(w)
      PROVE  Keeps /\ NoneCancelled'
  BY <1>d, DrainKeeps
<1>1. CASE BeginBatch(w)
  BY <1>1, <1>w, <1>q, <1>c, StillNoFault DEF BeginBatch, db, cache, round
<1>2. CASE CommitBatch(w)
  <2> DEFINE S == hold[w] \cap Decodable
  <2>1. ApplyAndMark(S) /\ UNCHANGED <<zUser, zGuild>> /\ Continue(w, "redis", hold[w])
        /\ pc[w] = "batchTx" /\ UNCHANGED <<stopping, failed>>
    BY <1>2, StillNoFault DEF CommitBatch, cache
  <2>2. InFlight(w) = {} /\ InFlight(w)' = S
    BY <1>w, <2>1 DEF Continue, Main, InFlight, TypeOK
  <2>3. \A a \in Actor \ {w} : InFlight(a) \subseteq InFlight(a)'
    BY <2>1, SlotsDone DEF Continue, Main, InFlight, TypeOK
  <2>4. NoneCancelled' BY <2>1 DEF Continue, NoneCancelled
  <2> HIDE DEF S
  <2> QED BY <1>w, <2>1, <2>2, <2>3, <2>4, CommitExact DEF Exact
<1>3. CASE RollbackBatch(w)
  BY <1>3, <1>q, <1>d, SlotsDone DEF RollbackBatch, db, cache, round
<1>4. CASE EndBatch(w)
  BY <1>4, <1>q, <1>d, SlotsDone DEF EndBatch, db, cache
<1>5. CASE ListCandidates(w)
  BY <1>5, <1>w, <1>q, <1>c, StillNoFault DEF ListCandidates, db, cache, round
<1>6. CASE StartFan(w)
  <2>1. Keeps BY <1>6, SlotsDone DEF StartFan, Keeps, InFlight, TypeOK
  <2>2. NoneCancelled' BY <1>6 DEF StartFan, NoneCancelled, run, TypeOK
  <2> QED BY <1>6, <2>1, <2>2, <1>q DEF StartFan, db, cache
<1>7. CASE NoCandidates(w)
  BY <1>7, <1>q, <1>d, SlotsDone DEF NoCandidates, db, cache, round
<1>8. CASE EndFan(w)
  <2>1. pc[w] # "redis" /\ \A s \in SlotsOf(w) : pc[s] # "redis" BY <1>8 DEF EndFan
  <2> QED BY <1>8, <2>1, <1>q, <1>d DEF EndFan, db, cache
<1> QED BY <1>1, <1>2, <1>3, <1>4, <1>5, <1>6, <1>7, <1>8

LEMMA SlotStepExact ==
  ASSUME TypeOK, NoneCancelled, Reflected, faults' = 0, NEW s \in Slot, SlotStep(s)
  PROVE  Exact
<1>a. s \in Actor /\ ~CtxDone(s) BY NoCtxDone DEF Actor
<1>1. CASE Claim(s)
  <2> DEFINE w == SlotOwner[s]
             e == FirstOf(hold[w])
  <2>1. PICK at, S :
          /\ pc' = [pc EXCEPT ![s] = at]
          /\ hold' = [hold EXCEPT ![w] = @ \ {e}, ![s] = S]
    BY <1>1 DEF Claim
  <2>2. pc[w] = "fan" /\ pc[s] = "idle" BY <1>1 DEF Claim
  <2>3. UNCHANGED <<failed, stopping, tickDead, applied, zUser, zGuild>>
    BY <1>1, <1>a, StillNoFault DEF Claim, round, run, db, cache
  <2> HIDE DEF e
  <2>4. Keeps BY <2>1, <2>2, <1>a DEF Keeps, InFlight, TypeOK
  <2>5. NoneCancelled' BY <2>3 DEF NoneCancelled
  <2> QED BY <2>3, <2>4, <2>5, KeepStep DEF Exact
<1>2. CASE CommitOne(s)
  <2> DEFINE S == hold[s]
  <2>1. ApplyAndMark(S) /\ UNCHANGED <<zUser, zGuild>> /\ Goroutine(s, "redis", S)
        /\ pc[s] = "claimTx" /\ S \subseteq Decodable /\ UNCHANGED <<stopping, tickDead, failed>>
    BY <1>2, StillNoFault DEF CommitOne, AfterCommit, cache, run, round
  <2>2. InFlight(s) = {} /\ InFlight(s)' = S
    BY <1>a, <2>1 DEF Goroutine, InFlight, TypeOK
  <2>3. \A a \in Actor \ {s} : InFlight(a) \subseteq InFlight(a)'
    BY <2>1 DEF Goroutine, InFlight, TypeOK
  <2>4. NoneCancelled' BY <2>1 DEF NoneCancelled
  <2> HIDE DEF S
  <2> QED BY <1>a, <2>1, <2>2, <2>3, <2>4, CommitExact DEF Exact
<1>3. CASE FailApply(s)
  <2>1. Keeps BY <1>3, SlotKeeps DEF FailApply
  <2>2. NoneCancelled' BY <1>3 DEF FailApply, NoneCancelled, round, run
  <2> QED BY <1>3, <2>1, <2>2, KeepStep DEF FailApply, Exact, db, cache
<1>4. CASE FailMark(s) BY <1>4, <1>a, StillNoFault DEF FailMark
<1> QED BY <1>1, <1>2, <1>3, <1>4 DEF SlotStep

LEMMA ActorStepExact ==
  ASSUME TypeOK, Core, SlotsLive, NoneCancelled, Reflected, faults' = 0,
         NEW a \in Actor, ActorStep(a)
  PROVE  Exact
<1>c. ~CtxDone(a) BY NoCtxDone
<1>n. NoneCancelled'
  BY DEF ActorStep, RedisApply, RedisFail, RedisSkip, IncrementRetry, LogDeadLettered,
         RetryNotRecorded, NoneCancelled, run, round
\* The other actors keep what they have in flight: a main goroutine here has no slots alive.
<1>o. ASSUME pc[a] # "fan", AfterRedis(a) \/ \E e : AfterRetry(a, e)
      PROVE  \A b \in Actor \ {a} : InFlight(b) \subseteq InFlight(b)'
  <2>1. CASE a \in Worker
    <3>1. PICK S : Main(a, "retry", S) BY <1>o, <2>1, ActorAssumption DEF AfterRedis, AfterRetry
    <3>2. \A s \in SlotsOf(a) : pc[s] = "done" BY <1>o, <2>1, SlotsDone
    <3> QED BY <3>1, <3>2 DEF Main, InFlight, TypeOK
  <2>2. CASE a \in Slot
    <3>1. Goroutine(a, "idle", {}) BY <1>o, <2>2, ActorAssumption DEF AfterRedis, AfterRetry
    <3> QED BY <3>1 DEF Goroutine, InFlight, TypeOK
  <2> QED BY <2>1, <2>2 DEF Actor
<1>1. CASE RedisApply(a)
  <2> DEFINE W == hold[a] \cap Decodable
  <2>1. InFlight(a) = W /\ UNCHANGED applied /\ ApplyScoreDeltas(W, Users(W), Guilds(W))
    BY <1>1 DEF RedisApply, InFlight, db
  <2>2. \A b \in Actor \ {a} : InFlight(b) \subseteq InFlight(b)'
    BY <1>1, <1>o DEF RedisApply
  <2>3. \A e \in W : e \in Event /\ applied[e] = 1 /\ zUser[e] = 0 /\ zGuild[e] = 0
    BY <2>1 DEF Core, InFlightFresh, Decodable
  <2> HIDE DEF W
  <2>4. ASSUME NEW e \in Event, \A b \in Actor : e \notin InFlight(b)'
        PROVE  zUser'[e] = applied'[e] /\ zGuild'[e] = applied'[e]
    <3>1. CASE e \in W
      BY <2>1, <2>3, <3>1 DEF ApplyScoreDeltas, ZIncrBy, Users, Guilds
    <3>2. CASE e \notin W
      <4>1. zUser[e] = applied[e] /\ zGuild[e] = applied[e]
        BY <2>1, <2>2, <2>4, <3>2 DEF Reflected
      <4> QED BY <4>1, <2>1, <3>2 DEF ApplyScoreDeltas, ZIncrBy
    <3> QED BY <3>1, <3>2
  <2> QED BY <1>n, <2>4 DEF Exact, Reflected
<1>2. CASE RedisFail(a) BY <1>2, StillNoFault DEF RedisFail
<1>3. ASSUME InFlight(a) = {}, pc[a] # "fan", AfterRedis(a) \/ \E e : AfterRetry(a, e),
             UNCHANGED <<applied, zUser, zGuild>>
      PROVE  Exact
  <2>1. Keeps BY <1>3, <1>o DEF Keeps
  <2> QED BY <1>n, <1>3, <2>1, KeepStep DEF Exact
<1>4. CASE RedisSkip(a) BY <1>4, <1>c, <1>3 DEF RedisSkip, InFlight, db, cache
<1>5. CASE IncrementRetry(a)
  <2>1. UNCHANGED <<applied, zUser, zGuild>> BY <1>5 DEF IncrementRetry, cache
  <2>2. ASSUME pc' = [pc EXCEPT ![a] = "log"], UNCHANGED hold PROVE Exact
    <3>1. Keeps BY <1>5, <2>2 DEF IncrementRetry, Keeps, InFlight, TypeOK
    <3> QED BY <1>n, <2>1, <3>1, KeepStep DEF Exact
  <2> QED BY <1>5, <1>3, <2>1, <2>2 DEF IncrementRetry, AfterIncrement, InFlight
<1>7. CASE LogDeadLettered(a) BY <1>7, <1>3 DEF LogDeadLettered, InFlight, db, cache
<1>6. CASE RetryNotRecorded(a) BY <1>6, <1>3 DEF RetryNotRecorded, InFlight, db, cache
<1> QED BY <1>1, <1>2, <1>4, <1>5, <1>6, <1>7 DEF ActorStep

LEMMA CacheInvNext == IndInv /\ CacheInv /\ [Next]_vars => CacheInv'
<1> SUFFICES ASSUME IndInv, CacheInv, [Next]_vars, faults' = 0 PROVE Exact
  BY SlotsLiveNext DEF CacheInv, Exact, IndInv
<1>0. faults = 0
  <2>1. faults \in Nat /\ (faults' = faults \/ faults' = faults + 1)
    <3>1. faults \in Nat BY BoundAssumption DEF IndInv, TypeOK
    <3>2. faults' = faults \/ \E kind \in AllFaults : Fault(kind)
      BY DEF Next, WorkerNext, MainStep, SlotStep, ActorStep, AddEvent, Notify, Purge, Start, Tick,
             Notified, Exit, Stop, Crash, TickDeadline, SubscriptionClosed, BeginBatch,
             CommitBatch, RollbackBatch, EndBatch, ListCandidates, StartFan, NoCandidates, EndFan,
             Claim, CommitOne, FailApply, FailMark, RedisApply, RedisFail, RedisSkip,
             IncrementRetry, LogDeadLettered, RetryNotRecorded, NoFault, vars, AllFaults
    <3> QED BY <3>1, <3>2 DEF Fault
  <2> QED BY <2>1
<1>h. TypeOK /\ Core /\ SlotsLive /\ NoneCancelled /\ Reflected
  BY <1>0 DEF CacheInv, IndInv, Core
<1>q. ASSUME UNCHANGED <<pc, hold, stopping, tickDead, failed, applied, zUser, zGuild>>
      PROVE  Exact
  <2>1. Keeps BY <1>q DEF Keeps, InFlight
  <2> QED BY <1>q, <1>h, <2>1, KeepStep DEF Exact, NoneCancelled
<1>1. ASSUME NEW e \in Event, AddEvent(e) \/ Notify(e) PROVE Exact
  BY <1>1, <1>q DEF AddEvent, Notify, db, cache, round, run
<1>2. ASSUME NEW S \in SUBSET Event, Purge(S) PROVE Exact
  BY <1>2, <1>q DEF Purge, cache, round, run
<1>3. CASE UNCHANGED vars BY <1>3, <1>q DEF vars
<1> QED BY <1>1, <1>2, <1>3, <1>h, RunExact, DrainStepExact, SlotStepExact, ActorStepExact
        DEF Next, WorkerNext, MainStep

\* As long as there was no fault, both rankings hold what MySQL holds whenever every worker
\* is back in its select.
THEOREM CacheExactWithoutFaultHolds == Spec => []CacheExactWithoutFault
<1>1. Init => CacheInv
  BY ActorAssumption DEF Init, CacheInv, SlotsLive, NoneCancelled, Reflected, Actor
<1>2. IndInv /\ CacheInv => CacheExactWithoutFault
  <2> SUFFICES ASSUME IndInv, CacheInv, faults = 0,
                      \A w \in Worker : pc[w] \in {"wait", "down"}, NEW e \in Event
               PROVE  zUser[e] = applied[e] /\ zGuild[e] = applied[e]
    BY DEF CacheExactWithoutFault, CacheCaughtUp
  <2>1. \A s \in Slot : pc[s] = "done" BY ActorAssumption DEF CacheInv, SlotsLive
  <2>2. \A a \in Actor : InFlight(a) = {} BY <2>1 DEF InFlight, Actor
  <2> QED BY <2>2 DEF CacheInv, Reflected
<1> QED BY <1>1, <1>2, CacheInvNext, Inductive, PTL DEF Spec

-----------------------------------------------------------------------------
(* The worker implements the ledger.                                       *)

Submitted == {e \in Event : row[e] # "absent"}

\* A commit of locked rows settles them.
LEMMA CommitSettles ==
  ASSUME IndInv, NEW a \in Actor, NEW S, S \subseteq Locked(a), S \subseteq Event,
         ApplyAndMark(S), UNCHANGED <<zUser, zGuild>>
  PROVE  Ledger!Settle(S)
<1>1. \A e \in S : row[e] = "pending" /\ applied[e] = 0
  BY DEF IndInv, LockedStaysClaimed, ExactlyOnce
<1>2. Submitted' = Submitted BY <1>1 DEF Submitted, ApplyAndMark
<1>3. applied' = Ledger!Plus(applied, S) BY DEF ApplyAndMark, Ledger!Plus
<1> QED BY <1>1, <1>2, <1>3 DEF Ledger!Settle, Submitted

\* A pipeline, or a prefix of one, reflects work in flight.
LEMMA PipelineReflects ==
  ASSUME IndInv, NEW a \in Actor, NEW W, W = InFlight(a), NEW us, NEW gs,
         ApplyScoreDeltas(W, us, gs), gs = {} \/ us = Users(W),
         UNCHANGED <<row, applied>>
  PROVE  Ledger!Next
<1> DEFINE U == {e \in W : UserOf[e] \in us}
           G == {e \in W : GuildOf[e] \in gs}
<1>1. W \in SUBSET Event /\ \A e \in W : applied[e] = 1 /\ zUser[e] = 0 /\ zGuild[e] = 0
  BY DEF IndInv, InFlightFresh, InFlight, TypeOK
<1>2. G \in SUBSET U /\ U \in SUBSET W BY DEF Users
<1>3. zUser' = Ledger!Plus(zUser, U) /\ zGuild' = Ledger!Plus(zGuild, G)
  BY DEF ApplyScoreDeltas, ZIncrBy, Ledger!Plus
<1>4. Ledger!Reflect(W, U, G)
  BY <1>1, <1>2, <1>3 DEF Ledger!Reflect
<1> HIDE DEF U, G
<1> QED BY <1>1, <1>2, <1>4 DEF Ledger!Next

LEMMA LedgerStep == IndInv /\ [Next]_vars => [Ledger!Next]_Ledger!lvars
<1> SUFFICES ASSUME IndInv, [Next]_vars PROVE [Ledger!Next]_Ledger!lvars
  OBVIOUS
<1> USE DEF Ledger!lvars
<1>q. ASSUME UNCHANGED <<row, applied, zUser, zGuild>> PROVE UNCHANGED Ledger!lvars
  BY <1>q
<1>1. ASSUME NEW e \in Event, AddEvent(e) PROVE Ledger!Next
  <2>1. e \in Event \ Submitted /\ Submitted' = Submitted \cup {e}
    BY <1>1 DEF AddEvent, Submitted, IndInv, TypeOK
  <2>2. UNCHANGED <<applied, zUser, zGuild>> BY <1>1 DEF AddEvent, cache
  <2>3. Ledger!Submit(e) BY <2>1, <2>2 DEF Ledger!Submit, Submitted
  <2> QED BY <2>3 DEF Ledger!Next
<1>2. ASSUME NEW e \in Event, Notify(e) PROVE UNCHANGED Ledger!lvars
  BY <1>2 DEF Notify, db, cache
<1>3. ASSUME NEW S \in SUBSET Event, Purge(S) PROVE UNCHANGED Ledger!lvars
  <2>1. Submitted' = Submitted BY <1>3 DEF Purge, Submitted
  <2> QED BY <1>3, <2>1 DEF Purge, cache, Submitted
<1>4. ASSUME NEW w \in Worker,
             \/ Start(w) \/ Tick(w) \/ Notified(w) \/ Exit(w)
             \/ Stop(w) \/ Crash(w) \/ TickDeadline(w) \/ SubscriptionClosed(w)
      PROVE  UNCHANGED Ledger!lvars
  <2>1. UNCHANGED <<row, applied, zUser, zGuild>>
    BY <1>4
    DEF Start, Tick, Notified, Exit, Stop, Crash, Gone, TickDeadline, SubscriptionClosed, db, cache
  <2> QED BY <2>1, <1>q
<1>5. ASSUME NEW w \in Worker,
             \/ BeginBatch(w) \/ RollbackBatch(w) \/ EndBatch(w)
             \/ ListCandidates(w) \/ StartFan(w) \/ NoCandidates(w) \/ EndFan(w)
      PROVE  UNCHANGED Ledger!lvars
  <2>1. UNCHANGED <<row, applied, zUser, zGuild>>
    BY <1>5
    DEF BeginBatch, RollbackBatch, EndBatch, ListCandidates, StartFan, NoCandidates, EndFan, db, cache
  <2> QED BY <2>1, <1>q
<1>6. ASSUME NEW w \in Worker, CommitBatch(w) PROVE Ledger!Next
  <2> DEFINE S == hold[w] \cap Decodable
  <2>1. w \in Actor /\ S \subseteq Locked(w) /\ S \subseteq Event
    BY <1>6 DEF CommitBatch, Locked, TxPc, Actor, Decodable
  <2>2. ApplyAndMark(S) /\ UNCHANGED <<zUser, zGuild>> BY <1>6 DEF CommitBatch, cache
  <2> HIDE DEF S
  <2>3. Ledger!Settle(S) BY <2>1, <2>2, CommitSettles
  <2> QED BY <2>1, <2>3 DEF Ledger!Next
<1>7. ASSUME NEW s \in Slot, CommitOne(s) PROVE Ledger!Next
  <2>1. s \in Actor /\ hold[s] \subseteq Locked(s) /\ hold[s] \subseteq Event
    BY <1>7 DEF CommitOne, Locked, TxPc, Actor, IndInv, TypeOK
  <2>2. ApplyAndMark(hold[s]) /\ UNCHANGED <<zUser, zGuild>> BY <1>7 DEF CommitOne, cache
  <2>3. Ledger!Settle(hold[s]) BY <2>1, <2>2, CommitSettles
  <2> QED BY <2>1, <2>3 DEF Ledger!Next
<1>8. ASSUME NEW s \in Slot, Claim(s) \/ FailApply(s) \/ FailMark(s)
      PROVE  UNCHANGED Ledger!lvars
  <2>1. UNCHANGED <<row, applied, zUser, zGuild>>
    BY <1>8 DEF Claim, FailApply, FailMark, db, cache
  <2> QED BY <2>1, <1>q
<1>9. ASSUME NEW a \in Actor, RedisApply(a) \/ RedisFail(a) PROVE Ledger!Next
  <2> DEFINE W == hold[a] \cap Decodable
  <2>1. W = InFlight(a) /\ UNCHANGED <<row, applied>>
    BY <1>9 DEF RedisApply, RedisFail, InFlight, db
  <2>2. \E us, gs : ApplyScoreDeltas(W, us, gs) /\ (gs = {} \/ us = Users(W))
    BY <1>9 DEF RedisApply, RedisFail
  <2> HIDE DEF W
  <2> QED BY <2>1, <2>2, PipelineReflects
<1>10. ASSUME NEW a \in Actor,
              RedisSkip(a) \/ IncrementRetry(a) \/ LogDeadLettered(a) \/ RetryNotRecorded(a)
       PROVE  UNCHANGED Ledger!lvars
  <2>1. UNCHANGED <<row, applied, zUser, zGuild>>
    BY <1>10 DEF RedisSkip, IncrementRetry, LogDeadLettered, RetryNotRecorded, db, cache
  <2> QED BY <2>1, <1>q
<1>11. CASE UNCHANGED vars BY <1>11, <1>q DEF vars
<1> QED BY <1>1, <1>2, <1>3, <1>4, <1>5, <1>6, <1>7, <1>8, <1>9, <1>10, <1>11
        DEF Next, WorkerNext, MainStep, SlotStep, ActorStep

\* The detailed specification implements the abstract ledger.
THEOREM Refinement == Spec => ImplementsLedger
<1>1. Init => Ledger!Init BY DEF Init, Ledger!Init
<1> QED BY <1>1, LedgerStep, Inductive, PTL DEF Spec, ImplementsLedger, Ledger!Spec
=============================================================================

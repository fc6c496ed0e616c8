--------------------------- MODULE OutboxGcProofs ---------------------------
(***************************************************************************)
(* Proofs about OutboxGc for any environments the batch is started in, any *)
(* chunk size and any number of workers and events.  The GC is one of the  *)
(* purges of OutboxWorker, so what is proved of the workers holds beside   *)
(* it; what it deletes rests on what configs.Load accepts.                 *)
(***************************************************************************)
EXTENDS OutboxGc, OutboxWorkerProofs, FiniteSetTheorems

-----------------------------------------------------------------------------
(* Configuration.                                                          *)

\* What a default has to be for the checks to bound a setting.
DefaultPasses(s, least) ==
  s \in Setting /\ s \notin Unchecked /\ Least(s) = least
  /\ Default[s] \in Int /\ Default[s] >= least

LEMMA Defaults ==
  /\ DefaultPasses("OUTBOX_BATCH_SIZE", 1) /\ DefaultPasses("OUTBOX_MAX_RETRY", 1)
  /\ DefaultPasses("OUTBOX_CONCURRENCY", 1) /\ DefaultPasses("OUTBOX_RETENTION", 1000)
<1>1. DefaultPasses("OUTBOX_BATCH_SIZE", 1)
  BY SMT DEF DefaultPasses, Setting, Default, Unchecked, Least, NonNegative
<1>2. DefaultPasses("OUTBOX_MAX_RETRY", 1)
  BY SMT DEF DefaultPasses, Setting, Default, Unchecked, Least, NonNegative
<1>3. DefaultPasses("OUTBOX_CONCURRENCY", 1)
  BY SMT DEF DefaultPasses, Setting, Default, Unchecked, Least, NonNegative
<1>4. DefaultPasses("OUTBOX_RETENTION", 1000)
  BY SMT DEF DefaultPasses, Setting, Default, Unchecked, Least, NonNegative, MinOutboxRetention
<1> QED BY <1>1, <1>2, <1>3, <1>4

LEMMA ValueIsNumber ==
  ASSUME NEW env \in Environment, NEW s \in Setting PROVE env[s].value \in Int
BY DEF Environment

\* Every number Load returns is a default or passed its check.
LEMMA LoadedField ==
  ASSUME NEW env \in Environment, NEW cfg \in Load(env), NEW s, NEW least, DefaultPasses(s, least)
  PROVE  cfg[s] \in Int /\ cfg[s] >= least
<1>1. s \in Setting BY DEF DefaultPasses
<1>2. cfg[s] = Field(env, s) /\ Accepted(env, s) BY <1>1 DEF Load
<1>3. CASE env[s].text = "" BY <1>2, <1>3 DEF Field, DefaultPasses
<1>4. CASE env[s].text # ""
  <2>1. cfg[s] = env[s].value BY <1>2, <1>4 DEF Field
  <2>2. env[s].value >= least BY <1>2, <1>4 DEF Accepted, DefaultPasses
  <2> QED BY <2>1, <2>2, <1>1, ValueIsNumber
<1> QED BY <1>3, <1>4

\* DeleteProcessedBefore gets whole seconds.
LEMMA WholeSeconds ==
  ASSUME NEW cfg, cfg.OUTBOX_RETENTION \in Int, cfg.OUTBOX_RETENTION >= 1000
  PROVE  RetentionSeconds(cfg) \in Nat /\ RetentionSeconds(cfg) >= 1
BY SMT DEF RetentionSeconds

\* Whatever the environment says, a process that starts has a worker that makes progress
\* (a batch, a goroutine and an attempt at least, BoundAssumption of OutboxWorker), goroutines
\* that all get a connection, and a retention of a whole second or more.
THEOREM LoadedIsSafe ==
  ASSUME NEW env \in Environment, NEW cfg \in Load(env)
  PROVE  /\ cfg.OUTBOX_BATCH_SIZE >= 1 /\ cfg.OUTBOX_MAX_RETRY >= 1
         /\ 1 <= cfg.OUTBOX_CONCURRENCY /\ cfg.OUTBOX_CONCURRENCY <= cfg.DB_MAX_OPEN_CONNS
         /\ RetentionSeconds(cfg) \in Nat /\ RetentionSeconds(cfg) >= 1
<1>1. cfg["OUTBOX_BATCH_SIZE"] >= 1 BY Defaults, LoadedField
<1>2. cfg["OUTBOX_MAX_RETRY"] >= 1 BY Defaults, LoadedField
<1>3. cfg["OUTBOX_CONCURRENCY"] \in Int /\ cfg["OUTBOX_CONCURRENCY"] >= 1 BY Defaults, LoadedField
<1>4. cfg["OUTBOX_RETENTION"] \in Int /\ cfg["OUTBOX_RETENTION"] >= 1000
  BY Defaults, LoadedField
<1>5. cfg.OUTBOX_CONCURRENCY <= cfg.DB_MAX_OPEN_CONNS BY DEF Load, PoolSuffices
<1>6. RetentionSeconds(cfg) \in Nat /\ RetentionSeconds(cfg) >= 1
  BY <1>4, WholeSeconds
<1>7. 1 <= cfg.OUTBOX_CONCURRENCY BY <1>3
<1> QED BY <1>1, <1>2, <1>5, <1>6, <1>7

-----------------------------------------------------------------------------
(* The GC is one of the purges of OutboxWorker.                            *)

LEMMA DeleteIsPurge ==
  ASSUME NEW S \in SUBSET Event, Delete(S) PROVE [Next]_vars
BY DEF Delete, Next

LEMMA ExpirableIsProcessed ==
  ASSUME NEW seconds
  PROVE  Expirable(seconds) \subseteq Event /\ \A e \in Expirable(seconds) : row[e] = "processed"
BY DEF Expirable

LEMMA GcStepIsStep == [GcNext]_gcVars => [Next]_vars
<1> SUFFICES ASSUME [GcNext]_gcVars PROVE [Next]_vars OBVIOUS
<1>1. CASE StartGc \/ Age BY <1>1 DEF StartGc, Age
<1>2. CASE DeleteChunk
  <2>1. PICK D \in SUBSET Expirable(retention) : \E S \in SUBSET D : Delete(S)
    BY <1>2 DEF DeleteChunk
  <2> QED BY <2>1, DeleteIsPurge, ExpirableIsProcessed
<1>3. CASE GcFails
  <2>1. PICK S \in SUBSET Expirable(retention) : Delete(S) BY <1>3 DEF GcFails
  <2> QED BY <2>1, DeleteIsPurge, ExpirableIsProcessed
<1>4. CASE Beside BY <1>4 DEF Beside, Next
<1>5. CASE UNCHANGED gcVars BY <1>5 DEF gcVars
<1> QED BY <1>1, <1>2, <1>3, <1>4, <1>5 DEF GcNext

\* Beside the GC the workers keep every promise they keep beside any purge.
THEOREM GcImplementsWorker == GcSpec => Spec
<1>1. GcInit => Init BY DEF GcInit
<1> QED BY <1>1, GcStepIsStep, PTL DEF GcSpec, Spec

\* No event is applied twice while the GC deletes rows under the workers.
THEOREM ExactlyOnceBesideGc == GcSpec => []ExactlyOnce
BY GcImplementsWorker, ExactlyOnceHolds, PTL

\* Nor does anything else the workers promise suffer from rows that disappear: the rankings
\* are exact as long as nothing failed, dead letters are logged once, never in silence, and stay
\* dead, a SIGTERM costs no attempt, and all of it is the ledger of EventLedger.
THEOREM PromisesKeptBesideGc ==
  GcSpec => /\ []CacheExactWithoutFault /\ []CacheNeverAhead
            /\ []DeadLetterLoggedOnce /\ DeadLetterNeverSilent /\ DeadLetterIsFinal
            /\ []CancelCostsNoRetry /\ ImplementsLedger
BY GcImplementsWorker, CacheExactWithoutFaultHolds, CacheNeverAheadHolds, DeadLetterLoggedOnceHolds,
   DeadLetterNeverSilentHolds, DeadLetterIsFinalHolds, CancelCostsNoRetryHolds, Refinement, PTL

-----------------------------------------------------------------------------
(* What the GC deletes.                                                    *)

\* The retention of a running GC is the one Load has checked.
RetentionLoaded == gc = "run" => retention \in Nat /\ retention >= 1

LEMMA RetentionLoadedNext == RetentionLoaded /\ [GcNext]_gcVars => RetentionLoaded'
<1> SUFFICES ASSUME RetentionLoaded, [GcNext]_gcVars PROVE RetentionLoaded' OBVIOUS
<1>1. CASE StartGc
  <2>1. PICK env \in Env : \E cfg \in Load(env) : retention' = RetentionSeconds(cfg)
    BY <1>1 DEF StartGc
  <2>2. env \in Environment BY GcAssumption
  <2> QED BY <2>1, <2>2, LoadedIsSafe DEF RetentionLoaded
<1>2. CASE DeleteChunk BY <1>2 DEF DeleteChunk, Exits, RetentionLoaded
<1>3. CASE GcFails BY <1>3 DEF GcFails, Exits, RetentionLoaded
<1>4. CASE Age \/ Beside \/ UNCHANGED gcVars BY <1>4 DEF Age, Beside, gcVars, RetentionLoaded
<1> QED BY <1>1, <1>2, <1>3, <1>4 DEF GcNext

\* Only insertions and commits of effects change rows beside the GC.
LEMMA RowFrame ==
  ASSUME WorkerNext
  PROVE  \/ row' = row
         \/ \E e \in Event : AddEvent(e)
         \/ \E S \in SUBSET Event : ApplyAndMark(S)
<1>1. ASSUME NEW w \in Worker, CommitBatch(w) PROVE \E S \in SUBSET Event : ApplyAndMark(S)
  BY <1>1 DEF CommitBatch, Decodable
<1>2. ASSUME NEW s \in Slot, CommitOne(s) PROVE \E S \in SUBSET Event : ApplyAndMark(S)
  <2>1. hold[s] \in SUBSET Event BY <1>2 DEF CommitOne, Decodable
  <2> QED BY <1>2, <2>1 DEF CommitOne
<1>3. \/ row' = row
      \/ \E e \in Event : AddEvent(e)
      \/ \E w \in Worker : CommitBatch(w)
      \/ \E s \in Slot : CommitOne(s)
  BY DEF WorkerNext, MainStep, SlotStep, ActorStep, Notify, Start, Tick, Notified,
         Exit, Stop, Crash, Gone, TickDeadline, SubscriptionClosed, BeginBatch, RollbackBatch,
         EndBatch, ListCandidates, StartFan, NoCandidates, EndFan, Claim, FailApply, FailMark,
         RedisApply, RedisFail, RedisSkip, IncrementRetry, LogDeadLettered, RetryNotRecorded, db
<1> QED BY <1>1, <1>2, <1>3

LEMMA WorkersDeleteNothing ==
  ASSUME TypeOK, WorkerNext, NEW e \in Event, row[e] # "deleted" PROVE row'[e] # "deleted"
BY RowFrame DEF TypeOK, AddEvent, ApplyAndMark

\* What goes in a chunk had expired.
LEMMA DeletesGiven ==
  ASSUME NEW S \in SUBSET Event, Delete(S), NEW e \in Event, row[e] # "deleted", row'[e] = "deleted"
  PROVE  e \in S
BY DEF Delete, Purge, vars

\* A row survives the second in which it was marked processed, in every environment.
THEOREM RetentionKeptHolds == GcSpec => RetentionKept
<1> DEFINE Kept == \A e \in Event : row[e] # "deleted" /\ row'[e] = "deleted" => e \notin young
<1>1. TypeOK /\ RetentionLoaded /\ [GcNext]_gcVars => [Kept]_gcVars
  <2> SUFFICES ASSUME TypeOK, RetentionLoaded, GcNext, NEW e \in Event,
                      row[e] # "deleted", row'[e] = "deleted"
               PROVE  e \notin young
    OBVIOUS
  <2>1. CASE StartGc \/ Age BY <2>1 DEF StartGc, Age, vars
  <2>2. CASE DeleteChunk
    <3>1. PICK D \in SUBSET Expirable(retention) : \E S \in SUBSET D : Delete(S)
      BY <2>2 DEF DeleteChunk
    <3>2. e \in Expirable(retention) BY <3>1, DeletesGiven, ExpirableIsProcessed
    <3> QED BY <2>2, <3>2 DEF DeleteChunk, RetentionLoaded, Expirable
  <2>3. CASE GcFails
    <3>1. PICK S \in SUBSET Expirable(retention) : Delete(S) BY <2>3 DEF GcFails
    <3>2. e \in Expirable(retention) BY <3>1, DeletesGiven, ExpirableIsProcessed
    <3> QED BY <2>3, <3>2 DEF GcFails, RetentionLoaded, Expirable
  <2>4. CASE Beside BY <2>4, WorkersDeleteNothing DEF Beside
  <2> QED BY <2>1, <2>2, <2>3, <2>4 DEF GcNext
<1>2. GcInit => RetentionLoaded BY DEF GcInit, RetentionLoaded
<1> QED
  BY <1>1, <1>2, RetentionLoadedNext, GcImplementsWorker, TypeCorrect, PTL DEF GcSpec, RetentionKept

\* A chunk that is not full takes all the rows the statement matches.
LEMMA LastChunkTakesAll ==
  ASSUME NEW D \in SUBSET Event, NEW S \in SUBSET D,
         Cardinality(S) = IF Cardinality(D) < ChunkSize THEN Cardinality(D) ELSE ChunkSize,
         LastChunk(Cardinality(S))
  PROVE  S = D
<1>1. IsFiniteSet(D) BY EventAssumption, FS_Subset
<1>2. Cardinality(D) \in Nat BY <1>1, FS_CardinalityType
<1>3. ChunkSize \in Nat BY GcAssumption
<1>4. Cardinality(S) = Cardinality(D) BY <1>2, <1>3 DEF LastChunk
<1> QED BY <1>1, <1>4, FS_Subset

\* However many chunks it takes and whatever is marked processed meanwhile, the GC ends with
\* success only once the rows it owed are deleted.
THEOREM GcSweepsHolds == GcSpec => []GcSweeps
<1>1. GcInit => GcSweeps BY DEF GcInit, GcSweeps
<1>2. GcSweeps /\ [GcNext]_gcVars => GcSweeps'
  <2> SUFFICES ASSUME GcSweeps, [GcNext]_gcVars PROVE GcSweeps' OBVIOUS
  <2>1. CASE StartGc BY <2>1 DEF StartGc, GcSweeps
  <2>2. CASE DeleteChunk
    <3>0. PICK D \in SUBSET Expirable(retention) : \E S \in SUBSET D :
            /\ owed \subseteq D
            /\ Cardinality(S) = IF Cardinality(D) < ChunkSize THEN Cardinality(D) ELSE ChunkSize
            /\ owed' = owed \ S
            /\ IF LastChunk(Cardinality(S)) THEN Exits ELSE UNCHANGED <<gc, retention>>
      BY <2>2 DEF DeleteChunk
    <3>1. PICK S \in SUBSET D :
            /\ owed \subseteq D
            /\ Cardinality(S) = IF Cardinality(D) < ChunkSize THEN Cardinality(D) ELSE ChunkSize
            /\ owed' = owed \ S
            /\ IF LastChunk(Cardinality(S)) THEN Exits ELSE UNCHANGED <<gc, retention>>
      BY <3>0
    <3>2. CASE LastChunk(Cardinality(S))
      <4>1. S = D BY <3>1, <3>2, LastChunkTakesAll, ExpirableIsProcessed
      <4> QED BY <3>1, <4>1 DEF GcSweeps
    <3>3. CASE ~LastChunk(Cardinality(S)) BY <2>2, <3>1, <3>3 DEF GcSweeps, DeleteChunk
    <3> QED BY <3>2, <3>3
  <2>3. CASE GcFails BY <2>3 DEF GcFails, GcSweeps
  <2>4. CASE Age \/ Beside \/ UNCHANGED gcVars BY <2>4 DEF Age, Beside, gcVars, GcSweeps
  <2> QED BY <2>1, <2>2, <2>3, <2>4 DEF GcNext
<1> QED BY <1>1, <1>2, PTL DEF GcSpec
=============================================================================

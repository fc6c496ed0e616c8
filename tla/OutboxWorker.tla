---------------------------- MODULE OutboxWorker ----------------------------
(***************************************************************************)
(* The outbox worker (internal/driver/worker/outbox/worker.go) over the    *)
(* outbox_events table (outbox_repository.go, outbox.sql) and the Redis    *)
(* ranking cache (ranking_store.go).                                       *)
(*                                                                         *)
(* Actors are the goroutines: a worker process is the actor that runs      *)
(* Worker.Run, and each of its slots is one of the goroutines processBatch *)
(* starts.  A database transaction is the steps between the statement that *)
(* takes its row locks and its COMMIT or ROLLBACK, so transactions of      *)
(* different actors interleave.                                            *)
(*                                                                         *)
(* A score is abstracted to the bag of events it sums: applied[e] is how   *)
(* often the points of event e are in guild_scores (and in the histories,  *)
(* written by the same transaction), zUser[e] and zGuild[e] how often they *)
(* are in the two Redis sorted sets.                                       *)
(***************************************************************************)
EXTENDS Integers, FiniteSets

CONSTANTS
  Event,        \* outbox_events.id of the events that may be inserted
  Worker,       \* worker processes (also their main goroutine)
  Slot,         \* goroutines of processBatch, over all the workers
  SlotOwner,    \* the worker a slot belongs to
  UserOf,       \* payload.UserID of an event
  GuildOf,      \* payload.GuildID of an event
  Undecodable,  \* events of unknown type or with a broken payload
  Rejected,     \* decodable events whose MySQL statements always fail
  BatchSize,    \* Config.BatchSize
  MaxRetry,     \* Config.MaxRetry, clamped to >= 1 by New
  FaultKinds,   \* the faults this instance may meet
  MaxFaults     \* bound on their number

AllFaults == {"tx", "ambiguous", "redis", "deadline", "stop", "crash", "subscribe"}

ASSUME EventAssumption == Event \subseteq Nat /\ IsFiniteSet(Event)
ASSUME ActorAssumption ==
  /\ Worker \cap Slot = {}
  /\ SlotOwner \in [Slot -> Worker]
ASSUME PoisonAssumption ==
  Undecodable \subseteq Event /\ Rejected \subseteq Event \ Undecodable
ASSUME BoundAssumption ==
  BatchSize \in Nat \ {0} /\ MaxRetry \in Nat \ {0} /\ MaxFaults \in Nat
ASSUME FaultAssumption == FaultKinds \subseteq AllFaults

VARIABLES
  row,        \* row of the event: absent, pending, processed or deleted (by the GC)
  retry,      \* outbox_events.retry_count
  applied,    \* times the event is in guild_scores / guild_score_histories
  zUser,      \* times the event is in the Redis user ranking
  zGuild,     \* times the event is in the Redis guild ranking
  dead,       \* "outbox event dead-lettered" log lines for the event
  pc,         \* where an actor is
  hold,       \* the events an actor has in hand
  full,       \* listed == batchSize in the worker's current round
  moved,      \* applied > 0 in the worker's current round
  failed,     \* firstErr # nil in the worker's processBatch: batchCtx is cancelled
  stalled,    \* Run's stalled
  tickDead,   \* the worker's tickCtx has passed its deadline
  stopping,   \* the worker's ctx is cancelled (SIGTERM)
  subscribed, \* notifyCh # nil
  notice,     \* the buffer of notifyCh holds a signal
  toNotify,   \* committed requests that have not published their notification yet
  faults      \* faults met so far

db    == <<row, retry, applied>>
cache == <<zUser, zGuild>>
round == <<full, moved, failed>>
run   == <<stalled, tickDead, stopping, subscribed, notice>>
vars  == <<row, retry, applied, zUser, zGuild, dead, pc, hold, full, moved, failed,
           stalled, tickDead, stopping, subscribed, notice, toNotify, faults>>

Actor     == Worker \cup Slot
Owner(a)  == IF a \in Worker THEN a ELSE SlotOwner[a]
Decodable == Event \ Undecodable

MainPc == {"down", "wait", "batch", "batchTx", "list", "listTx", "fan", "redis", "retry", "log"}
SlotPc == {"idle", "claimTx", "redis", "retry", "log", "done"}
TxPc   == {"batchTx", "listTx", "claimTx"}

\* One type invariant; it also says which events an actor can hold where.
TypeOK ==
  /\ row \in [Event -> {"absent", "pending", "processed", "deleted"}]
  /\ retry \in [Event -> Nat]
  /\ applied \in [Event -> Nat]
  /\ zUser \in [Event -> Nat] /\ zGuild \in [Event -> Nat]
  /\ dead \in [Event -> Nat]
  /\ pc \in [Actor -> MainPc \cup SlotPc]
  /\ \A w \in Worker : pc[w] \in MainPc
  /\ \A s \in Slot : pc[s] \in SlotPc
  /\ hold \in [Actor -> SUBSET Event]
  /\ full \in [Worker -> BOOLEAN] /\ moved \in [Worker -> BOOLEAN]
  /\ failed \in [Worker -> BOOLEAN] /\ stalled \in [Worker -> BOOLEAN]
  /\ tickDead \in [Worker -> BOOLEAN] /\ stopping \in [Worker -> BOOLEAN]
  /\ subscribed \in [Worker -> BOOLEAN] /\ notice \in [Worker -> BOOLEAN]
  /\ toNotify \subseteq Event
  /\ faults \in 0..MaxFaults

Init ==
  /\ row = [e \in Event |-> "absent"]
  /\ retry = [e \in Event |-> 0]
  /\ applied = [e \in Event |-> 0]
  /\ zUser = [e \in Event |-> 0] /\ zGuild = [e \in Event |-> 0]
  /\ dead = [e \in Event |-> 0]
  /\ pc = [a \in Actor |-> IF a \in Worker THEN "down" ELSE "done"]
  /\ hold = [a \in Actor |-> {}]
  /\ full = [w \in Worker |-> FALSE] /\ moved = [w \in Worker |-> FALSE]
  /\ failed = [w \in Worker |-> FALSE] /\ stalled = [w \in Worker |-> FALSE]
  /\ tickDead = [w \in Worker |-> FALSE] /\ stopping = [w \in Worker |-> FALSE]
  /\ subscribed = [w \in Worker |-> FALSE] /\ notice = [w \in Worker |-> FALSE]
  /\ toNotify = {}
  /\ faults = 0

-----------------------------------------------------------------------------
(* Faults, contexts and row locks.                                         *)

Fault(kind) ==
  /\ kind \in FaultKinds
  /\ faults < MaxFaults
  /\ faults' = faults + 1

NoFault == UNCHANGED faults

\* The context an actor works under is done: ctx, tickCtx or, in a slot, batchCtx.
\* database/sql then refuses BEGIN, statements and COMMIT, and go-redis the pipeline.
CtxDone(a) ==
  \/ stopping[Owner(a)]
  \/ tickDead[Owner(a)]
  \/ a \in Slot /\ failed[Owner(a)]

\* Rows locked FOR UPDATE by the open transaction of an actor.
Locked(a) == IF pc[a] \in TxPc THEN hold[a] ELSE {}

LockedRows == UNION {Locked(a) : a \in Actor}

\* Mutants: the claim ignores the row locks, processed_at or retry_count.
ClaimableIgnoringLocks == {e \in Event : row[e] = "pending" /\ retry[e] < MaxRetry}
ClaimableIgnoringProcessed ==
  {e \in Event : row[e] \in {"pending", "processed"} /\ retry[e] < MaxRetry /\ e \notin LockedRows}
ClaimableIgnoringRetry == {e \in Event : row[e] = "pending" /\ e \notin LockedRows}

\* WHERE processed_at IS NULL AND retry_count < max_retry FOR UPDATE SKIP LOCKED
Claimable ==
  {e \in Event : row[e] = "pending" /\ retry[e] < MaxRetry /\ e \notin LockedRows}

\* ORDER BY id LIMIT batchSize
Window(S) == {e \in S : Cardinality({f \in S : f < e}) < BatchSize}

\* The event a loop over a list in id order takes next.
FirstOf(S) == CHOOSE e \in S : \A f \in S : e <= f

-----------------------------------------------------------------------------
(* Control flow of a worker's main goroutine.                              *)

SlotsOf(w) == {s \in Slot : SlotOwner[s] = w}

\* The main goroutine moves on; its slots only outlive the move while it is in "fan".
Main(w, at, S) ==
  /\ pc' = [a \in Actor |-> IF a = w THEN at ELSE IF a \in SlotsOf(w) THEN "done" ELSE pc[a]]
  /\ hold' = [hold EXCEPT ![w] = S]

Goroutine(s, at, S) ==
  /\ pc' = [pc EXCEPT ![s] = at]
  /\ hold' = [hold EXCEPT ![s] = S]

Continue(w, at, S) == Main(w, at, S) /\ UNCHANGED <<stalled, tickDead>>

\* drainNow returned: Run is back in its select, and the tick's context is gone.
BackToSelect(w, isStalled) ==
  /\ Main(w, "wait", {})
  /\ stalled' = [stalled EXCEPT ![w] = isStalled]
  /\ tickDead' = [tickDead EXCEPT ![w] = FALSE]

\* runOnce returned drained=false without an error: drainNow starts a new tick.
NewTick(w) ==
  /\ Main(w, "batch", {})
  /\ tickDead' = [tickDead EXCEPT ![w] = FALSE]
  /\ UNCHANGED stalled

\* Mutant: drainNow does not look at ctx and starts over after a cancelled batch.
BatchErrorIgnoringCtx(w) ==
  \/ (stopping[w] \/ tickDead[w]) /\ NewTick(w)
  \/ ~stopping[w] /\ ~tickDead[w] /\ Continue(w, "list", {})

\* listed, applied and firstErr are locals of the round that is over.
ForgetRound(w) ==
  /\ full' = [full EXCEPT ![w] = FALSE]
  /\ moved' = [moved EXCEPT ![w] = FALSE]
  /\ failed' = [failed EXCEPT ![w] = FALSE]

\* runOnce after applyBatch failed.
BatchError(w) ==
  \/ stopping[w] /\ BackToSelect(w, FALSE)
  \/ ~stopping[w] /\ tickDead[w] /\ NewTick(w)
  \/ ~stopping[w] /\ ~tickDead[w] /\ Continue(w, "list", {})

\* runOnce after applyPerEvent failed: absorbTickDeadline.
FallbackError(w) ==
  \/ ~stopping[w] /\ tickDead[w] /\ NewTick(w)
  \/ (stopping[w] \/ ~tickDead[w]) /\ BackToSelect(w, FALSE)

\* runOnce after a round that returned listed and applied.
RoundEnd(w, isFull, anyApplied) ==
  \/ ~isFull /\ BackToSelect(w, FALSE)
  \/ isFull /\ ~anyApplied /\ BackToSelect(w, TRUE)
  \/ /\ isFull /\ anyApplied
     /\ \/ stopping[w] /\ BackToSelect(w, FALSE)
        \/ ~stopping[w] /\ tickDead[w] /\ NewTick(w)
        \/ ~stopping[w] /\ ~tickDead[w] /\ Continue(w, "batch", {})

-----------------------------------------------------------------------------
(* The request path, the GC and Worker.Run.                                *)

\* AddUserPoints commits its transaction, which inserts the event.
AddEvent(e) ==
  /\ row[e] = "absent"
  /\ row' = [row EXCEPT ![e] = "pending"]
  /\ toNotify' = toNotify \cup {e}
  /\ UNCHANGED <<retry, applied, cache, dead, pc, hold, round, run, faults>>

\* AddUserPoints publishes after the commit.  Pub/Sub delivers to the workers that are
\* subscribed, or loses the message; a full buffer drops it.
Notify(e) ==
  /\ e \in toNotify
  /\ toNotify' = toNotify \ {e}
  /\ \E ws \in SUBSET {w \in Worker : subscribed[w]} :
       notice' = [w \in Worker |-> notice[w] \/ w \in ws]
  /\ UNCHANGED <<db, cache, dead, pc, hold, round, stalled, tickDead, stopping, subscribed, faults>>

\* One chunk of the outbox GC batch deletes processed rows.
Purge(S) ==
  /\ S # {} /\ \A e \in S : row[e] = "processed"
  /\ row' = [e \in Event |-> IF e \in S THEN "deleted" ELSE row[e]]
  /\ UNCHANGED <<retry, applied, cache, dead, pc, hold, round, run, toNotify, faults>>

\* The process starts: Run subscribes (or polls only) and drains at once.
Start(w) ==
  /\ pc[w] = "down"
  /\ Main(w, "batch", {})
  /\ \/ subscribed' = [subscribed EXCEPT ![w] = TRUE] /\ NoFault
     \/ subscribed' = [subscribed EXCEPT ![w] = FALSE] /\ Fault("subscribe")
  /\ notice' = [notice EXCEPT ![w] = FALSE]
  /\ stalled' = [stalled EXCEPT ![w] = FALSE]
  /\ tickDead' = [tickDead EXCEPT ![w] = FALSE]
  /\ stopping' = [stopping EXCEPT ![w] = FALSE]
  /\ UNCHANGED <<db, cache, dead, round, toNotify>>

\* Mutant: a stalled worker ignores the ticker as well.
TickUnlessStalled(w) ==
  /\ pc[w] = "wait" /\ ~stalled[w]
  /\ Continue(w, "batch", {})
  /\ UNCHANGED <<db, cache, dead, round, stopping, subscribed, notice, toNotify, faults>>

\* case <-ticker.C
Tick(w) ==
  /\ pc[w] = "wait"
  /\ Continue(w, "batch", {})
  /\ UNCHANGED <<db, cache, dead, round, stopping, subscribed, notice, toNotify, faults>>

\* case <-notifyCh: dropped while stalled.
Notified(w) ==
  /\ pc[w] = "wait"
  /\ notice[w]
  /\ notice' = [notice EXCEPT ![w] = FALSE]
  /\ IF stalled[w] THEN UNCHANGED <<pc, hold, stalled, tickDead>> ELSE Continue(w, "batch", {})
  /\ UNCHANGED <<db, cache, dead, round, stopping, subscribed, toNotify, faults>>

\* case <-notifyCh with ok = FALSE: polling only from here on.
SubscriptionClosed(w) ==
  /\ pc[w] = "wait"
  /\ subscribed[w] /\ ~notice[w]
  /\ Fault("subscribe")
  /\ subscribed' = [subscribed EXCEPT ![w] = FALSE]
  /\ UNCHANGED <<db, cache, dead, pc, hold, round, stalled, tickDead, stopping, notice, toNotify>>

\* SIGTERM cancels ctx.
Stop(w) ==
  /\ pc[w] # "down" /\ ~stopping[w]
  /\ Fault("stop")
  /\ stopping' = [stopping EXCEPT ![w] = TRUE]
  /\ UNCHANGED <<db, cache, dead, pc, hold, round, stalled, tickDead, subscribed, notice, toNotify>>

\* The process is gone, and with it its subscription; MySQL rolls its transactions back.
Gone(w) ==
  /\ pc' = [a \in Actor |-> IF a = w THEN "down" ELSE IF a \in SlotsOf(w) THEN "done" ELSE pc[a]]
  /\ hold' = [a \in Actor |-> IF a = w \/ a \in SlotsOf(w) THEN {} ELSE hold[a]]
  /\ ForgetRound(w)
  /\ stalled' = [stalled EXCEPT ![w] = FALSE]
  /\ tickDead' = [tickDead EXCEPT ![w] = FALSE]
  /\ stopping' = [stopping EXCEPT ![w] = FALSE]
  /\ subscribed' = [subscribed EXCEPT ![w] = FALSE]
  /\ notice' = [notice EXCEPT ![w] = FALSE]
  /\ UNCHANGED <<db, cache, dead, toNotify>>

\* case <-ctx.Done()
Exit(w) == pc[w] = "wait" /\ stopping[w] /\ Gone(w) /\ NoFault

\* The process is killed anywhere.
Crash(w) == pc[w] # "down" /\ Fault("crash") /\ Gone(w)

\* tickCtx passes its deadline while runOnce is at work.
TickDeadline(w) ==
  /\ pc[w] \notin {"down", "wait"} /\ ~tickDead[w]
  /\ Fault("deadline")
  /\ tickDead' = [tickDead EXCEPT ![w] = TRUE]
  /\ UNCHANGED <<db, cache, dead, pc, hold, round, stalled, stopping, subscribed, notice, toNotify>>
-----------------------------------------------------------------------------
(* applyBatch: one transaction for the whole window.                       *)

\* BEGIN and ListPending.
BeginBatch(w) ==
  /\ pc[w] = "batch"
  /\ \/ ~CtxDone(w) /\ Continue(w, "batchTx", Window(Claimable)) /\ NoFault
     \/ CtxDone(w) /\ BatchError(w) /\ NoFault
     \/ ~CtxDone(w) /\ BatchError(w) /\ Fault("tx")
  /\ UNCHANGED <<db, cache, dead, round, stopping, subscribed, notice, toNotify>>

\* Mutant: the transaction leaves out MarkProcessed(ByIDs).
ApplyWithoutMark(S) ==
  /\ applied' = [e \in Event |-> IF e \in S THEN applied[e] + 1 ELSE applied[e]]
  /\ UNCHANGED <<row, retry>>

\* The transaction's writes become visible: scores, histories and processed_at.
ApplyAndMark(S) ==
  /\ applied' = [e \in Event |-> IF e \in S THEN applied[e] + 1 ELSE applied[e]]
  /\ row' = [e \in Event |-> IF e \in S THEN "processed" ELSE row[e]]
  /\ UNCHANGED retry

\* The batch commits: only the decodable events are in it (buildBatchWork).
CommitBatch(w) ==
  /\ pc[w] = "batchTx"
  /\ ~CtxDone(w)
  /\ hold[w] \cap Rejected = {}
  /\ ApplyAndMark(hold[w] \cap Decodable)
  /\ \/ /\ NoFault
        /\ Continue(w, "redis", hold[w])
        /\ full' = [full EXCEPT ![w] = Cardinality(hold[w]) = BatchSize]
        /\ moved' = [moved EXCEPT ![w] = hold[w] \cap Decodable # {}]
     \/ /\ Fault("ambiguous")  \* committed by MySQL, reported as an error
        /\ BatchError(w)
        /\ UNCHANGED <<full, moved>>
  /\ UNCHANGED <<cache, dead, failed, stopping, subscribed, notice, toNotify>>

\* A statement or the COMMIT fails: everything is rolled back.
RollbackBatch(w) ==
  /\ pc[w] = "batchTx"
  /\ \/ (CtxDone(w) \/ hold[w] \cap Rejected # {}) /\ NoFault
     \/ ~CtxDone(w) /\ hold[w] \cap Rejected = {} /\ Fault("tx")
  /\ BatchError(w)
  /\ UNCHANGED <<db, cache, dead, round, stopping, subscribed, notice, toNotify>>

\* The loop over the undecodable events is over: runOnce looks at the round.
EndBatch(w) ==
  /\ pc[w] = "retry" /\ hold[w] = {}
  /\ RoundEnd(w, full[w], moved[w])
  /\ ForgetRound(w)
  /\ UNCHANGED <<db, cache, dead, stopping, subscribed, notice, toNotify, faults>>

-----------------------------------------------------------------------------
(* applyPerEvent: the fallback, one transaction per event.                 *)

\* listCandidates: BEGIN and ListPending.
ListCandidates(w) ==
  /\ pc[w] = "list"
  /\ \/ ~CtxDone(w) /\ Continue(w, "listTx", Window(Claimable)) /\ NoFault
     \/ CtxDone(w) /\ FallbackError(w) /\ NoFault
     \/ ~CtxDone(w) /\ FallbackError(w) /\ Fault("tx")
  /\ UNCHANGED <<db, cache, dead, round, stopping, subscribed, notice, toNotify>>

\* listCandidates commits, which gives up its row locks; processBatch starts its slots.
StartFan(w) ==
  /\ pc[w] = "listTx" /\ hold[w] # {}
  /\ ~CtxDone(w)
  /\ pc' = [a \in Actor |-> IF a = w THEN "fan" ELSE IF a \in SlotsOf(w) THEN "idle" ELSE pc[a]]
  /\ full' = [full EXCEPT ![w] = Cardinality(hold[w]) = BatchSize]
  /\ moved' = [moved EXCEPT ![w] = FALSE]
  /\ failed' = [failed EXCEPT ![w] = FALSE]
  /\ UNCHANGED <<db, cache, dead, hold, run, toNotify, faults>>

\* listCandidates fails, or finds nothing.
NoCandidates(w) ==
  /\ pc[w] = "listTx"
  /\ \/ CtxDone(w) /\ FallbackError(w) /\ NoFault
     \/ ~CtxDone(w) /\ FallbackError(w) /\ Fault("tx")
     \/ ~CtxDone(w) /\ hold[w] = {} /\ RoundEnd(w, FALSE, FALSE) /\ NoFault
  /\ UNCHANGED <<db, cache, dead, round, stopping, subscribed, notice, toNotify>>

\* A slot returns processOne's error: batchCtx is cancelled and the goroutine ends.
SlotError(s) ==
  /\ failed' = [failed EXCEPT ![Owner(s)] = TRUE]
  /\ UNCHANGED <<full, moved>>

\* A slot receives the next id and claims it.  An event it cannot claim counts as progress.
Claim(s) ==
  LET w == SlotOwner[s]
      e == FirstOf(hold[w])
      Take(at, S) ==
        /\ pc' = [pc EXCEPT ![s] = at]
        /\ hold' = [hold EXCEPT ![w] = @ \ {e}, ![s] = S]
  IN
  /\ pc[w] = "fan" /\ pc[s] = "idle" /\ hold[w] # {}
  /\ \/ ~CtxDone(s) /\ e \in Claimable /\ Take("claimTx", {e}) /\ UNCHANGED round /\ NoFault
     \/ /\ ~CtxDone(s) /\ e \notin Claimable /\ Take("idle", {}) /\ NoFault
        /\ moved' = [moved EXCEPT ![w] = TRUE] /\ UNCHANGED <<full, failed>>
     \/ CtxDone(s) /\ Take("done", {}) /\ SlotError(s) /\ NoFault
     \/ ~CtxDone(s) /\ Take("done", {}) /\ SlotError(s) /\ Fault("tx")
  /\ UNCHANGED <<db, cache, dead, run, toNotify>>

\* Mutant: processOne forgets "redis = work".
AfterCommitWithoutRedis(s) == Goroutine(s, "idle", {})

\* processOne goes on to applyRedisAfterCommit.
AfterCommit(s) == Goroutine(s, "redis", hold[s])

\* applyEventInTx and MarkProcessed succeed and the transaction commits.
CommitOne(s) ==
  /\ pc[s] = "claimTx"
  /\ ~CtxDone(s)
  /\ hold[s] \subseteq Decodable \ Rejected
  /\ ApplyAndMark(hold[s])
  /\ \/ NoFault /\ AfterCommit(s) /\ UNCHANGED round
     \/ Fault("ambiguous") /\ Goroutine(s, "done", {}) /\ SlotError(s)
  /\ UNCHANGED <<cache, dead, run, toNotify>>

\* applyEventInTx fails: the claim is rolled back and recordRetry follows.
FailApply(s) ==
  /\ pc[s] = "claimTx"
  /\ \/ (CtxDone(s) \/ ~(hold[s] \subseteq Decodable \ Rejected)) /\ NoFault
     \/ ~CtxDone(s) /\ hold[s] \subseteq Decodable \ Rejected /\ Fault("tx")
  /\ Goroutine(s, "retry", hold[s])
  /\ UNCHANGED <<db, cache, dead, round, run, toNotify>>

\* MarkProcessed or the COMMIT fails.
FailMark(s) ==
  /\ pc[s] = "claimTx"
  /\ hold[s] \subseteq Decodable \ Rejected
  /\ (CtxDone(s) /\ NoFault) \/ (~CtxDone(s) /\ Fault("tx"))
  /\ Goroutine(s, "done", {})
  /\ SlotError(s)
  /\ UNCHANGED <<db, cache, dead, run, toNotify>>

\* processBatch returns: every id was handed out, or the hand-out saw batchCtx done.
EndFan(w) ==
  /\ pc[w] = "fan"
  /\ \A s \in SlotsOf(w) : pc[s] \in {"idle", "done"}
  /\ \/ hold[w] = {} /\ ~failed[w] /\ RoundEnd(w, full[w], moved[w])
     \/ hold[w] = {} /\ failed[w] /\ FallbackError(w)
     \/ hold[w] # {} /\ (CtxDone(w) \/ failed[w]) /\ FallbackError(w)
  /\ ForgetRound(w)
  /\ UNCHANGED <<db, cache, dead, stopping, subscribed, notice, toNotify, faults>>

-----------------------------------------------------------------------------
(* applyRedisAfterCommit and recordRetry, for the batch and for a slot.    *)

\* Where the actor goes once the cache had its turn.
AfterRedis(a) ==
  \/ /\ a \in Worker
     /\ Main(a, "retry", hold[a] \cap Undecodable)
     /\ UNCHANGED moved
  \/ /\ a \in Slot
     /\ Goroutine(a, "idle", {})
     /\ moved' = [moved EXCEPT ![Owner(a)] = TRUE]

\* Mutant: a failed pipeline is sent again.
AfterFailedRedisRetrying(a) == UNCHANGED <<pc, hold, moved>>

\* applyRedisAfterCommit only logs a failed pipeline.
AfterFailedRedis(a) == AfterRedis(a)

ZIncrBy(z, key, S, W) == [e \in Event |-> IF e \in W /\ key[e] \in S THEN z[e] + 1 ELSE z[e]]

\* The ZINCRBYs for the users in us and the guilds in gs reach Redis.
ApplyScoreDeltas(W, us, gs) ==
  /\ zUser' = ZIncrBy(zUser, UserOf, us, W)
  /\ zGuild' = ZIncrBy(zGuild, GuildOf, gs, W)

Users(W)  == {UserOf[e] : e \in W}
Guilds(W) == {GuildOf[e] : e \in W}

\* The pipeline is sent and answered.
RedisApply(a) ==
  LET W == hold[a] \cap Decodable IN
  /\ pc[a] = "redis" /\ W # {} /\ ~CtxDone(a)
  /\ ApplyScoreDeltas(W, Users(W), Guilds(W))
  /\ AfterRedis(a)
  /\ UNCHANGED <<db, dead, full, failed, run, toNotify, faults>>

\* The connection breaks: Redis executed a prefix of the pipeline (users come first).
RedisFail(a) ==
  LET W == hold[a] \cap Decodable IN
  /\ pc[a] = "redis" /\ W # {} /\ ~CtxDone(a)
  /\ Fault("redis")
  /\ \/ \E us \in SUBSET Users(W) : ApplyScoreDeltas(W, us, {})
     \/ \E gs \in SUBSET Guilds(W) \ {{}} : ApplyScoreDeltas(W, Users(W), gs)
  /\ AfterFailedRedis(a)
  /\ UNCHANGED <<db, dead, full, failed, run, toNotify>>

\* Mutant: a batch without undecodable events is taken for one with nothing to send.
RedisSkipMisjudged(a) ==
  /\ pc[a] = "redis"
  /\ hold[a] \cap Undecodable = {}
  /\ AfterRedis(a)
  /\ UNCHANGED <<db, cache, dead, full, failed, run, toNotify, faults>>

\* Nothing to send, or the context is done and go-redis refuses to send.
RedisSkip(a) ==
  /\ pc[a] = "redis"
  /\ hold[a] \cap Decodable = {} \/ CtxDone(a)
  /\ AfterRedis(a)
  /\ UNCHANGED <<db, cache, dead, full, failed, run, toNotify, faults>>

\* Mutant: the dead-letter log compares with >= instead of ==.
ReachesLimitOrBeyond(n) == n >= MaxRetry

\* Mutant: the limit is reached one increment too late.
PassesLimit(n) == n > MaxRetry

\* newRetryCount == w.maxRetry
ReachesLimit(n) == n = MaxRetry

\* recordRetry for event e is over; a slot then takes the next id, the batch the next event.
AfterRetry(a, e) ==
  \/ a \in Worker /\ Main(a, "retry", hold[a] \ {e})
  \/ a \in Slot /\ Goroutine(a, "idle", {})

\* newRetryCount is compared with the limit: recordRetry goes on to its log line, or returns.
AfterIncrement(a, e) ==
  \/ ReachesLimit(retry[e] + 1) /\ pc' = [pc EXCEPT ![a] = "log"] /\ UNCHANGED hold
  \/ ~ReachesLimit(retry[e] + 1) /\ AfterRetry(a, e)

\* Mutant: recordRetry runs under a context that outlives the cancelled one.
RetryDetached(a) ==
  LET e == FirstOf(hold[a]) IN
  /\ pc[a] = "retry" /\ hold[a] # {}
  /\ row[e] \in {"pending", "processed"} /\ e \notin LockedRows
  /\ retry' = [retry EXCEPT ![e] = @ + 1]
  /\ AfterIncrement(a, e)
  /\ UNCHANGED <<row, applied, cache, dead, round, run, toNotify, faults>>

\* IncrementRetry commits.  The UPDATE waits for the row's lock, and the value compared is
\* the one read back under it.
IncrementRetry(a) ==
  LET e == FirstOf(hold[a]) IN
  /\ pc[a] = "retry" /\ hold[a] # {} /\ ~CtxDone(a)
  /\ row[e] \in {"pending", "processed"} /\ e \notin LockedRows
  /\ retry' = [retry EXCEPT ![e] = @ + 1]
  /\ \/ NoFault /\ AfterIncrement(a, e)
     \/ Fault("ambiguous") /\ AfterRetry(a, e)  \* committed by MySQL, reported as an error
  /\ UNCHANGED <<row, applied, cache, dead, round, run, toNotify>>

\* The "outbox event dead-lettered" line is written.
LogDeadLettered(a) ==
  LET e == FirstOf(hold[a]) IN
  /\ pc[a] = "log"
  /\ dead' = [dead EXCEPT ![e] = @ + 1]
  /\ AfterRetry(a, e)
  /\ UNCHANGED <<db, cache, round, run, toNotify, faults>>

\* recordRetry fails and only logs: a done context, a row the GC deleted, or a fault.
RetryNotRecorded(a) ==
  LET e == FirstOf(hold[a]) IN
  /\ pc[a] = "retry" /\ hold[a] # {}
  /\ \/ (CtxDone(a) \/ row[e] = "deleted") /\ NoFault
     \/ ~CtxDone(a) /\ row[e] # "deleted" /\ Fault("tx")
  /\ AfterRetry(a, e)
  /\ UNCHANGED <<db, cache, dead, round, run, toNotify>>

-----------------------------------------------------------------------------
(* Specification.                                                          *)

\* The steps a worker takes by itself; faults and triggers from outside are not among them.
MainStep(w) ==
  \/ Start(w) \/ Tick(w) \/ Notified(w) \/ Exit(w)
  \/ BeginBatch(w) \/ CommitBatch(w) \/ RollbackBatch(w) \/ EndBatch(w)
  \/ ListCandidates(w) \/ StartFan(w) \/ NoCandidates(w) \/ EndFan(w)

SlotStep(s) == Claim(s) \/ CommitOne(s) \/ FailApply(s) \/ FailMark(s)

ActorStep(a) ==
  RedisApply(a) \/ RedisFail(a) \/ RedisSkip(a)
  \/ IncrementRetry(a) \/ LogDeadLettered(a) \/ RetryNotRecorded(a)

\* Requests and workers.
WorkerNext ==
  \/ \E e \in Event : AddEvent(e) \/ Notify(e)
  \/ \E w \in Worker :
       MainStep(w) \/ Stop(w) \/ Crash(w) \/ TickDeadline(w) \/ SubscriptionClosed(w)
  \/ \E s \in Slot : SlotStep(s)
  \/ \E a \in Actor : ActorStep(a)

Next == WorkerNext \/ \E S \in SUBSET Event : Purge(S)

Spec == Init /\ [][Next]_vars

\* Fairness: goroutines are scheduled, the ticker fires, a supervisor restarts the process,
\* and Go's select picks among ready cases at random, so a cancelled ctx is seen in the end.
\* Faults are bounded by MaxFaults and never fair.
FairSpec ==
  /\ Spec
  /\ \A w \in Worker : WF_vars(MainStep(w)) /\ SF_vars(Exit(w))
  /\ \A s \in Slot : WF_vars(SlotStep(s))
  /\ \A a \in Actor : WF_vars(ActorStep(a))

-----------------------------------------------------------------------------
(* Properties.                                                             *)

\* The MySQL side effects of an event are there exactly when its row is marked processed,
\* and once: no worker, fallback, retry, crash or unknown COMMIT outcome applies it twice
\* (applyBatch and processOne commit effects and mark together, under the claim's lock).
ExactlyOnce ==
  \A e \in Event : applied[e] = IF row[e] \in {"processed", "deleted"} THEN 1 ELSE 0

\* The Redis rankings err on the side of missing points only: an event is in them at most
\* once, only after its COMMIT, and in the guild ranking only with its user's points
\* (applyRedisAfterCommit, worker.go:346-352).
CacheNeverAhead ==
  \A e \in Event : zGuild[e] <= zUser[e] /\ zUser[e] <= applied[e] /\ applied[e] <= 1

\* The "dead-lettered" ERROR is logged at most once per event and only once retry_count has
\* reached maxRetry, however many workers race on the same event (recordRetry,
\* worker.go:662-664).
DeadLetterLoggedOnce ==
  \A e \in Event : dead[e] <= IF retry[e] >= MaxRetry THEN 1 ELSE 0

\* An event that has reached maxRetry, and nobody has logged it or is about to.
Silent(e) ==
  /\ retry[e] >= MaxRetry /\ dead[e] = 0
  /\ \A a \in Actor : pc[a] = "log" => FirstOf(hold[a]) # e

\* No event is dead-lettered in silence: races between workers, cancelled contexts, SIGTERM
\* and failing transactions never cost the line.  Only the death of a process can, or a COMMIT
\* that took effect and was reported as failed (recordRetry, worker.go:656-660).
DeadLetterNeverSilent ==
  [][\A e \in Event : Silent(e)' =>
       \/ Silent(e)
       \/ /\ faults' > faults
          /\ "ambiguous" \in FaultKinds \/ \E w \in Worker : pc[w] # "down" /\ pc'[w] = "down"]_vars

\* An event that reached maxRetry is never applied afterwards: the claim's filter and the
\* row lock, for which a competing IncrementRetry has to wait, rule it out.
DeadLetterIsFinal ==
  [][\A e \in Event : applied'[e] > applied[e] => retry[e] < MaxRetry]_vars

\* Cancellation never costs a healthy event a retry: when no statement fails by itself, tick
\* deadlines, SIGTERM, crashes and lost cache writes leave retry_count at 0.
CancelCostsNoRetry ==
  "tx" \notin FaultKinds => \A e \in Decodable \ Rejected : retry[e] = 0

\* Whenever every worker is back in its select, both rankings hold exactly what MySQL holds.
CacheCaughtUp ==
  (\A w \in Worker : pc[w] \in {"wait", "down"}) =>
    \A e \in Event : zUser[e] = applied[e] /\ zGuild[e] = applied[e]

\* As long as no fault occurred, the rankings catch up even while workers race, skip each
\* other's rows and fall back to per-event processing around a rejected event.
CacheExactWithoutFault == faults = 0 => CacheCaughtUp

\* A worker that declares its drain stalled would find nothing to apply by reading again
\* (tickResult.stalled, worker.go:241-242), so dropping notifications loses nothing.
StalledMeansStuck ==
  [][\A w \in Worker :
       ~stalled[w] /\ stalled'[w] => Window(Claimable)' \subseteq Undecodable \cup Rejected]_vars

\* Every inserted event is processed or dead-lettered in the end, with notifications lost,
\* workers stopped, killed and restarted, and events skipped because another worker holds
\* them: the ticker is the fallback (Run, worker.go:149-151).
EveryEventSettles ==
  \A e \in Event :
    row[e] = "pending" ~> (row[e] \in {"processed", "deleted"} \/ retry[e] >= MaxRetry)

\* SIGTERM ends the process from wherever it is (drainNow's ctx check, Run's ctx.Done).
StopCompletes == \A w \in Worker : stopping[w] ~> pc[w] = "down"

\* No two open transactions hold the same row.
LocksExclusive == \A a, b \in Actor : a # b => Locked(a) \cap Locked(b) = {}

\* A locked row stays as the claim saw it.
LockedStaysClaimed ==
  \A a \in Actor : \A e \in Locked(a) : row[e] = "pending" /\ retry[e] < MaxRetry

\* Work that waits for its pipeline is committed, in no ranking yet, and in one hand only.
InFlight(a) == IF pc[a] = "redis" THEN hold[a] \cap Decodable ELSE {}

InFlightFresh ==
  \A a \in Actor : \A e \in InFlight(a) : applied[e] = 1 /\ zUser[e] = 0 /\ zGuild[e] = 0

InFlightExclusive == \A a, b \in Actor : a # b => InFlight(a) \cap InFlight(b) = {}

\* The inductive invariant behind ExactlyOnce, CacheNeverAhead and ImplementsLedger: what a
\* transaction locked is still unprocessed when it commits, and what it committed is in
\* flight to Redis in the hands of one goroutine.
IndInv ==
  /\ TypeOK
  /\ LocksExclusive
  /\ LockedStaysClaimed
  /\ InFlightFresh
  /\ InFlightExclusive
  /\ ExactlyOnce
  /\ CacheNeverAhead

\* The abstract ledger this specification implements.
Ledger == INSTANCE EventLedger WITH
  submitted <- {e \in Event : row[e] # "absent"},
  score     <- applied,
  inUser    <- zUser,
  inGuild   <- zGuild

\* The worker implements the ledger: every step is a submission, one commit that settles
\* a group of unsettled events, one pipeline for settled events, or invisible.
ImplementsLedger == Ledger!Spec
=============================================================================

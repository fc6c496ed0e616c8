# Verification of the game server: TLA+ models, TLC runs and TLAPS proofs

The repository is a small game back end in Go. Its interesting part is the ranking: a request adds
points to a user in MySQL and leaves an event in an outbox table; worker processes apply the events
to the guild scores and to a ranking cache in Redis; a batch rebuilds the cache; reads are answered
from the cache; and a gRPC process pushes the ranking to clients whenever it changes. Nothing in
that chain is one transaction, which is what this project is about.

Paths below are relative to `src/`.

## 1. Inventory

### Components, their state and how they interact

| component | code | state | operations | talks to |
|---|---|---|---|---|
| point addition | `internal/usecase/ranking/usecase.go` (`AddUserPoints`) | rows of `user_points`, `user_point_histories`, `outbox_events` | one transaction, then `Notify` | MySQL; Pub/Sub `outbox:events` |
| outbox worker | `internal/driver/worker/outbox/worker.go` | `stalled`, tick context, `batchCtx`, `firstErr`, per-round counters | `Run`, `drainNow`, `runOnce`, `applyBatch`, `applyPerEvent`, `processBatch`, `processOne`, `recordRetry`, `applyRedisAfterCommit` | MySQL, Redis, Pub/Sub in both directions |
| outbox table | `.../repository/outbox_repository.go`, `deployments/mysql/queries/outbox.sql` | `processed_at`, `retry_count`, row locks | `ListPending` and `ClaimByID` (`FOR UPDATE SKIP LOCKED`), `MarkProcessed(ByIDs)`, `IncrementRetry`, `DeleteProcessedBefore` | - |
| transactions | `internal/infrastructure/mysql/transactor.go` | an open transaction | begin, commit, roll back | MySQL |
| outbox GC | `internal/driver/batch/outbox_gc.go`, `cmd/batch/main.go` | the retention while it runs | deletes expired processed rows in chunks until a chunk is not full | MySQL |
| configuration | `configs/config.go` | - | `Load` | every process, at its start |
| ranking store | `internal/infrastructure/redis/ranking_store.go` | two sorted sets, the key `ranking:meta:initialized` | `ApplyScoreDeltas` (a pipeline), `SetGuildScore`, `SetUserPoints`, `MarkInitialized`, `IsInitialized`, reads | Redis |
| rebuild batch | `internal/driver/batch/ranking_sync.go`, `cmd/batch/main.go` | a snapshot, failure counters | `SyncAll` | MySQL, Redis |
| ranking reads | `internal/usecase/ranking/usecase.go` | - | `ensureInitialized`, then two or three Redis commands | Redis |
| watcher hub | `internal/usecase/ranking/watcher.go` | `subs`, `last`, `stopped`; per subscriber `ch`, `closed`, `delivered` | `Run`, `broadcast`, `register`, `remove`, `shutdown`, `push`, `pushInitial`, `close` | Pub/Sub `ranking:updated`; the reads |
| streaming handler | `internal/driver/grpc/ranking/watch.go` | the value in hand | receive from the hub, `stream.Send` | hub, client |
| gRPC process | `internal/infrastructure/server/grpc.go`, `cmd/grpc/main.go` | `watchCtx`, `srvCtx` | signal, `onShutdown`, `GracefulStop`, `Stop` after a time limit | hub, handlers |
| gacha | `internal/usecase/gacha/usecase.go` | gems, items, histories | one transaction under a row lock | MySQL |
| HTTP server | `internal/driver/http/`, `internal/infrastructure/server/echo.go`, `cmd/api/main.go` | serving, draining or exited; requests in flight | parse, call the use case, map the error, log; `Register`, start, `Shutdown` | gacha, point addition, reads, health check |
| unary gRPC | `internal/driver/grpc/ranking/`, `internal/infrastructure/server/interceptor.go` | as above | the same for points and reads | point addition, reads |
| health check | `internal/usecase/health/usecase.go` | - | answers ok | - |
| seeding, log format, generated code, tooling, clients | see `PROJECT.json` | none of their own | - | - |

```
 AddUserPoints --commit--> MySQL(user_points, outbox) <--lock/commit-- worker(s), GC
       |                         ^ snapshot                          |
       +--Pub/Sub (lossy)--------|----------------> worker           | pipeline (lossy)
                                 |                                   v
                            rebuild batch -----SET, sentinel----> Redis ZSETs
                                                                     ^   | ranking:updated (lossy)
                                              reads behind sentinel -+   v
                                                        stream <- hub (RankingWatcher)
```

### Behaviours that are hard, and what must be true

* *Exactly once in MySQL, at most once in Redis.* Two workers, two goroutines, a fallback
  path, an unknown COMMIT outcome or a crash must not apply an event twice; the cache may miss
  an event but not hold it twice or before its commit.
* *Dead letters.* A poisoned event leaves the queue after `maxRetry` recorded failures, and is not
  applied afterwards. Although two workers may race on the last retry, it is logged at most once,
  and never silently missed: only a death between the commit of the retry and the line, or a commit
  whose outcome is unknown, costs the line. Cancellation must not look like a failure of the event.
* *Progress.* Lost notifications, stalled windows, deadlines, stops and restarts must not
  leave an event behind for ever, and SIGTERM must end the process.
* *Rebuild against worker.* The batch overwrites scores while workers add to them and while
  Redis may lose everything; afterwards the sentinel says "complete".
* *Reads* are several commands with anything in between.
* *GC.* It deletes beside running workers; it must get everything that had expired and never what
  was processed a moment ago, although the retention travels through the configuration as a
  duration and to SQL as whole seconds.
* *Answers.* Panics, unknown COMMIT outcomes, lost responses and servers that stop or die sit
  between a commit and its client; an answer must not promise what did not happen, two servers must
  not answer the same outcome differently, and every answer must be found in the logs.
* *Fan-out.* One channel of capacity 1 per stream has three writers/closers (broadcast, first
  snapshot, removal); the hub drops values, and skips a push when the ranking equals the last
  one, comparing at the largest limit of the moment; the process must go down even when clients do
  not read.

The hazards of `PROJECT.json` list these at their lines.

## 2. Modules

| module | what it is |
|---|---|
| `OutboxWorker` | the worker processes over the outbox table and the Redis scores, at the grain of statements that take row locks, commits, pipelines and context cancellations |
| `EventLedger` | what the outbox promises: submit, settle once, reflect at most once. No workers, no retries |
| `OutboxGc` | the GC's configuration and chunk loop beside `OutboxWorker` |
| `Config` | `configs.Load` as an operator from environments to configurations |
| `RankingCache` | Redis: ZINCRBY one by one, the rebuild, data loss, reads behind the sentinel |
| `RankingApi` | the reads of `RankingCache` as clients of both servers see them |
| `RankingWatcher` | hub, streams, Pub/Sub and shutdown of the gRPC process |
| `Transactions` | gacha, point additions and the workers' writes as transactions that take row locks one by one |
| `Accounts` | what requests promise about gems, items and points: each takes effect at once or not at all, and is told the truth. No statements, locks or workers |
| `ApiServer` | both server processes around the requests of `Transactions` |
| `Delivery` | operators: parsing, error tables, middlewares and interceptors, assembly |
| `OutboxWorkerProofs`, `OutboxGcProofs`, `RankingCacheProofs`, `RankingApiProofs`, `RankingWatcherProofs`, `TransactionsProofs`, `ApiServerProofs`, `DeliveryProofs` | TLAPS proofs about the module of that name |
| `MCOutboxWorker`, `MCOutboxGc`, `MCRankingCache`, `MCRankingWatcher`, `MCTransactions` | small instances for TLC |

```
 Config --> OutboxGc --> OutboxWorker --INSTANCE--> EventLedger
 Delivery --> ApiServer --> Transactions --INSTANCE--> Accounts
 Delivery --> RankingApi --> RankingCache
 Delivery --> RankingWatcher
```

The modules meet at their abstractions. `RankingCache` takes the worker as the two steps that
`EventLedger` allows and `OutboxWorker` is proved to take (`Settle`, then ZINCRBYs that may be
lost); `RankingWatcher` takes the cache as a sequence of rankings; `Transactions` takes the worker's
transaction as the rows it locks, and is where the commit that the other modules call
`AddUserPoints` or `AddEvent` comes apart into statements. `NotifyUpdated`, which the worker calls
after a successful pipeline, is a step of `RankingWatcher`: no variable of `OutboxWorker` depends on
it.

### OutboxWorker

State and code: `row` and `retry` are the outbox row (`pending` is `processed_at IS NULL`);
`applied[e]` counts how often the points of event `e` are in `guild_scores` and its history,
`zUser[e]` and `zGuild[e]` how often they are in the sorted sets. A score is thus the bag of its
events, which is exactly what "twice" and "missing" are about, and sums never have to be computed.
`pc` and `hold` say where a goroutine is and which events it has in hand; while it is inside a
transaction, `hold` is the set of rows it has locked. `full`, `moved` and `failed` are the locals
`listed == batchSize`, `applied > 0` and `firstErr != nil`; `stalled` is the local of `Run`;
`tickDead`, `stopping` and `failed` together are the contexts (`CtxDone`).

| actions | code |
|---|---|
| `AddEvent`, `Notify` | `AddUserPoints`: the commit, and the publish after it |
| `Start`, `Tick`, `Notified`, `SubscriptionClosed`, `Exit` | the cases of `Run`'s select |
| `BeginBatch`, `CommitBatch`, `RollbackBatch`, `EndBatch` | `applyBatch` |
| `ListCandidates`, `StartFan`, `NoCandidates`, `EndFan` | `applyPerEvent`, `processBatch` |
| `Claim`, `CommitOne`, `FailApply`, `FailMark` | `processOne` in a goroutine |
| `RedisApply`, `RedisFail`, `RedisSkip` | `applyRedisAfterCommit` |
| `IncrementRetry`, `LogDeadLettered`, `RetryNotRecorded` | `recordRetry`: its transaction, the log line after it, a failure |
| `RoundEnd`, `BatchError`, `FallbackError` | the returns of `runOnce`, `absorbTickDeadline` and `drainNow` |
| `Purge` | one chunk of the GC, of any processed rows (`OutboxGc` says which) |
| `Stop`, `Crash`, `TickDeadline`, `Fault(...)` | SIGTERM, kill, `tickTimeout`, failing calls |

`"ambiguous"` is the fault in which MySQL commits and the client gets an error: the code cannot tell
it from a rollback. `Rejected` events are decodable events whose statements always fail,
`Undecodable` ones fail in `json.Unmarshal` or have an unknown type. Abstracted: payload contents,
error texts, the sizes of points, and time (a tick, a deadline or a GC run may happen at any
moment). `Next` is `WorkerNext \/ Purge`, so that `OutboxGc` can put its own loop in the place of
`Purge`.

### OutboxGc and Config

`gc` and `retention` are the process and its configured seconds. `young` holds the rows that were
marked processed less than a second ago, which is all that the shortest legal retention can tell
apart: for 0 seconds the statement matches every processed row, for 1 and more only rows that are
not young (`Expirable`; which of these are old enough for a longer retention is left open). `owed`
is a history variable: what had expired when the run began. `StartGc` loads the configuration,
`DeleteChunk` is one round of `OutboxGC.Run` and ends the run at a chunk that is not full, `GcFails`
is a failed or cancelled round or a kill, with or without effect. One GC runs at a time. `Load(env)`
is the configuration or nothing; a variable is unset, does not parse, or has a value; durations are
in milliseconds. `MYSQL_DSN` and `REDIS_ADDR` are passed through in the code and are left out.

### RankingCache

`pending` and `settled` are the events whose request, and whose worker transaction, have committed;
`Source(b)` is what the rebuild's snapshot would read (`user_points` counts an event from the
request on, `guild_scores` only once it is settled). `inFlight[b]` are the events whose ZINCRBY on
board `b` has not been executed. `Snapshot`, `SetScore`, `MarkInitialized` and `AbortSync` are
`SyncAll`; within a board the SETs may come in any order (the code follows the query's order; the
properties do not depend on it), guilds before users as in the code. A request is `CheckSentinel`
followed by `ReadScore`, `ReadRank`, `ReadCount` or `ReadPage`, `ReadCount`; members with equal
scores have their ranks in any order. `FindNobody` of `RankingApi` is a read of a user or guild that
MySQL does not have; `RefuseQuery` is a query the handlers do not pass on; `HttpResponse` and
`GrpcResponse` are what becomes of an answer on either server. `clean`, `flushed`, `healed` and
`torn` are history variables: they restrict nothing and only let the properties speak of the past.

### RankingWatcher

`hub` is where `Run` is; `batch` is the slice `subs` of a broadcast (or of `shutdown`), so a stream
can register or leave between snapshot, fetch, commit and pushes. `removing` holds the subscribers
between the two halves of `remove`: deleted from the map under `mu`, channel not yet closed. `ch`
holds at most one value. `AfterFunc` is `context.AfterFunc(ctx, remove)`. `Slow` clients may stop
reading for ever, which blocks `Send` on flow control; `Leaver` clients may hang up. The contents of
the user ranking after each update are a constant, `Ranking`: sequences of entries, an entry
standing for what `sameRanking` compares (id, rank, score). `limit` is the limit of a subscriber,
set by `Register` through `NormalizeLimit`; broadcasts read with the largest limit of their snapshot
(`MaxLimit`), compare that with `last`, and cut it for each subscriber (`TruncateResult`). `Return`
is the end of a handler: `answer` is what the interceptors made of it and the stream's context ends
with it, which is what takes the registration back. `Refuse` and `Panic` are the ways to get there
that never reach the hub's channel. `pushed` is a history variable. The hub's goroutine has no
`recover`: a panic in it ends the process, which is not modelled beyond the death of a server in
`ApiServer`.

### Transactions

`gems`, `owned`, `hist` and `points` are committed rows; `held` and `todo` are the row locks a
transaction holds and those its statements still need, in the order of the rows; `mine` are its
locals, `answer` what the last step told a caller. `GrantLock` takes the next lock if it conflicts
with none that is held; `Fail` rolls back at any point (failed statement, lock wait timeout, MySQL's
deadlock victim, process death); each commit may be told to the caller as `"ok"` or, when its
outcome is unknown, as `"error"`.

| actions | code |
|---|---|
| `RefuseMulti`, `BeginMulti` | `Multi` up to `GetUserForUpdate` |
| `RefuseDraw`, `Draw` | gem check, weights, `draw`, the new balance, the sorted ids |
| `CommitMulti` | `UpdateUserGems`, `UpsertUserItems`, `InsertGachaHistories`, COMMIT |
| `RefuseAdd`, `BeginAdd`, `ReadBack`, `FindNoRow`, `CommitAdd` | `AddUserPoints`: refusals, the reads that take the snapshot, `GetUserPoints` after the upsert, COMMIT |
| `BeginBatch`, `CommitBatch` | `BulkIncrementGuildScores`, `BulkInsertGuildScoreHistories` |

A foreign key that is checked takes a shared lock, which is how point additions and workers meet
gacha requests on a row of `users`. Workers run READ COMMITTED (`worker.go`), so there are no gap
locks between them and requests. `Pick` turns a random number into an item as the loop of `draw`
does, with `Accumulated` for its running sum; `Draw` tries all random numbers. `MaxScore` is a
constant because TLC's integers have 32 bits.

`MembershipAssumption` says that a payload names the guild its user is in now: `AddUserPoints` writes
it from `guild_members`, and no process under `cmd/` changes that table (the seeder fills it before
anything runs). `NoDeadlock` depends on it, see section 4.

Requests run REPEATABLE READ: the first SELECT of a transaction (`GetUser`) fixes its snapshot, here
`seen`, before the upsert waits for the row of the points. The read-back is a plain SELECT. It finds
what the transaction has itself written on top of what was committed (`WritesRow`), and otherwise
the snapshot: `points = points + 0` leaves a row that is there as it is, and InnoDB writes no version
of it. So an addition of 0 points, which `MinScore` allows, may be told the total from before
another request that has committed since, or be refused with `ErrPointsNotFound` if that request
has inserted the row (`FindNoRow`). `scored` are the users who have a row.

`Books` maps this module to `Accounts`: a transaction under way is an open request, its locals are
its wish, locks and workers disappear, and so do the answers workers get. `ImplementsAccounts` then
says that concurrent requests look as if served one at a time, and that only `"error"` leaves a
caller in doubt. `Accounts` states the exception for additions of 0 points openly: they take effect
like all others, but their answer is about the moment they began.

### ApiServer and Delivery

A request on the wire is what the layers tell apart: numbers that are given, missing or garbled, a
body that binds, a reason, a message beyond the size limit. `Delivery` has the handlers' parsing (as
sets: empty if they refuse), the three error tables, and the layers around a handler as functions on
a record that holds status, error or panic, the promise of a retry, the error reports and the access
log lines: `HttpServe`, `GrpcServe` and `StreamServe` compose them in the order of `echo.go` and
`grpc.go`. Two things are as the code has them and easily missed: Echo's `Recover` reports through
Echo's own logger, and a gRPC message beyond 64 KiB is refused by the generated handler before any
interceptor runs (`Decode`).

| actions of `ApiServer` | code |
|---|---|
| `Boot`, `Die` | `main` up to the listener: configuration, MySQL, Redis, `Register`; the end of the process |
| `Stop`, `Drained`, `ShutdownTimesOut` | SIGTERM, `Shutdown` and `GracefulStop`, their time limits and exit codes |
| `Handle` | a step of the use case (`Transactions`); its last one is answered |
| `Refuse`, `StatementFails`, `Panic` | the other ends of a handler |
| `Cut` | a request to a server that does not accept it, or whose process is gone |
| `Healthz` | `GET /healthz` |

`Respond` may lose the response. A panic between two statements is a rollback (`DoInTx` recovers,
rolls back and panics again). The pool of connections is left out: it delays requests, and no
handler asks for a second connection while it holds one.

## 3. Runs

Passing runs check a small instance exhaustively; violation runs exhibit a disagreement between a
comment and the code and are the `findings` of `PROJECT.json`.

| run | instance | what it shows |
|---|---|---|
| `outbox_two_workers` | `GcSpec`: 2 processes, 1 goroutine each, 2 events, batch 1, 1 retry, 2 faults among rollback, ambiguous commit, crash; the GC with chunks of 1 and 5 environments | `IndInv` and with it row-lock discipline, `ExactlyOnce`, `CacheExactWithoutFault`, `DeadLetterIsFinal`, refinement of `EventLedger`; `GcSweeps`, `RetentionKept` |
| `outbox_concurrency` | 1 process, 2 goroutines, 3 events (one rejected, one undecodable), batch 2, 2 retries, 2 faults among Redis, deadline, SIGTERM | `CacheNeverAhead`, `CancelCostsNoRetry`; `StopCompletes` under fairness |
| `outbox_liveness` | 2 processes, 2 events (one undecodable), batch 1, 1 retry, 1 fault among rollback, crash, lost subscription | `DeadLetterLoggedOnce`, `DeadLetterNeverSilent`; `EveryEventSettles` under fairness |
| `outbox_stall` | 1 process, no faults | violates `StalledMeansStuck`: the window that stalls is dead-lettered in the same round |
| `outbox_deadline` | 1 process, one deadline | violates `CacheCaughtUp`: COMMIT, deadline, no pipeline |
| `ranking_cache` | `ApiSpec` of `RankingApi`: 2 users in 1 guild, 2 events (one of 0 points), 1 reader, 5 queries (two pages, refused ones, an id nobody has), 1 data loss, 2 rebuilds | `HealInv` (with `RebuildHeals`), `RankWithinTotal`, `FrontsAgree`, `HealedIsFound` |
| `rebuild_overcount` | one rebuild, no data loss | violates `NeverOverCounts` |
| `rebuild_torn` | one rebuild, one data loss | violates `SentinelMeansComplete` |
| `watcher_fanout` | 2 streams with different limits, one of which may be refused and one may leave, 2 updates of which the shorter limit does not see the second, panics | `PushedSeesLast`, `ChannelDiscipline`, `PushedConverges`, `EndsWithReason` |
| `watcher_shutdown` | 2 streams (one slow, one leaving), 1 update, all faults but panics | `TypeOK`, `ShutdownCompletes`, `NoLeakedSubscriber`, `EndsWithReason` |
| `watcher_lost_update` | 2 streams, 2 updates, no faults | violates `EveryStreamConverges` |
| `transactions` | `ApiSpec` of `ApiServer`: 2 gacha requests of 1 or 2 pulls over HTTP and 2 point additions (of 0 or 5 points) over gRPC of one user with 200 gems and with or without a row of points, 2 worker batches over the same 2 guilds and 2 users in opposite orders, requests that are refused; panics, failures, lost responses; the HTTP server may fail to boot, stop or die | `IndInv`, `GemsConserved`, `ItemsMatchHistory`, `DrawIsWeighted`, `NoDeadlock`, refinement of `Accounts`, `AnswersAreTrue`, `RefusalHasNoEffect`, `AnswersAreObservable` |

**Bounds and why they are enough to be interesting.** Two workers are the fewest that race for a
row, and two goroutines the fewest whose errors cancel each other. Two events are needed for a
window that is full and has something behind it; batch size 1 makes every window full and so reaches
the stalled branch, batch size 2 has full windows of mixed events. `MaxRetry = 1` and `2` reach the
dead letter from its first and from a later failure. `MaxFaults` bounds the number of faults (1 or
2), not their place: every fault can strike at every step. `MaxFlush`, `MaxSync` and `MaxVersion`
bound data losses, rebuilds and updates: a second rebuild is what could undo the work of a first,
and a second update is what meets a broadcast in flight. In `transactions`, two requests of a kind
are the fewest that overlap, two guilds the fewest whose locks can cross, and 200 gems pay for both
smaller gacha requests but for one of the larger. An addition of 0 points beside one of 5 is what
meets a stale snapshot. `MaxOpen = 3` bounds the transactions that are open at a time, not how many
run one after the other: any two of them still meet a third, which is enough for every pair of
locks, for the stale read-back, and for the circle of locks the `NoDeadlock` mutant closes. Circles
of four, as in section 4, are left to `NoDeadlockHolds`. Gacha requests that are bound to be refused
(`Hopeless`) are looked at alone, since beside others they are like requests that fail. The theorems
have no such bounds. `MayStop`
names the servers that may stop: one is enough to cut requests beside others that go on. `Healthz`
is asked only before the first request, since it reads and writes nothing. `ChunkSize = 1` makes
every chunk full until nothing is left; the environments of the GC are the retentions around the
minimum (999, 1000, 1999 ms), one that does not parse and one with more goroutines than connections.
In `watcher_fanout` the limits are 1 and the default, and the two rankings agree in their first
entry, so that "changed" differs between the subscribers. `retry_count` is bounded by the code
itself except for racing increments, of which there are at most as many as actors.

**Symmetry and view.** The workers of `outbox_two_workers` (each with its slot) are interchangeable:
no constant, and nothing in the specification, tells them apart, and the run checks safety only.
`transactions` has a `VIEW` instead, which takes states with the same future for the same. The
transactions of one kind are interchangeable there too, so the view has the set of their states and
not who is in which. The answers `answer` and `sent` are written and never read; no action tells the
exit codes of a server apart; of a server that has accepted all its requests it only matters whether
it runs, and of one whose requests have all ended nothing does (`HttpServer`); a gacha request that
names nobody or finds nothing to draw can only be refused or fail, so its amount does not matter
(`Hopeless`); of draws only the number of each item counts (`Drawing`); the snapshot of an addition
matters only if it adds 0, and totals only relative to the present one (`Adding`); the balance only
while a gacha request is yet to end, and of inventory and history only whether they agree
(`Present`, `Agree`); locks that are held follow from those still needed. The invariants do not read
what the view leaves out, or have the same value in all states it takes for one; the action
properties are checked on every transition that is generated.

**Deadlock.** TLC checks it in every run but `watcher_fanout` and `watcher_lost_update`: there the
server is meant to wait for ever once the last of `MaxVersion` updates is delivered. In
`transactions` and in the shutdown run the end state has an explicit step (`Terminated`).

**Fairness.** `OutboxWorker!FairSpec`: goroutines are scheduled, the ticker fires and a supervisor
restarts a process (`WF` on the steps of each actor); `Run`'s select picks at random among ready
cases, so a cancelled context is noticed although the ticker is ready again and again (`SF` on
`Exit`). Faults and triggers from outside are not fair. A notification is never assumed to arrive.
`RankingWatcher!FairSpec`: goroutines, `AfterFunc` and the timer of the shutdown run; the worker
goes on from its pipeline to its publish; clients that are not `Slow` read. Nothing is assumed of
`Slow` clients, of `Leaver`s or of signals. `OutboxGc` and `ApiServer` state no fairness: their
properties are safety.

## 4. What the violations say

* **A stream can keep a stale ranking** (`watcher_lost_update`). The hub takes its subscriber list;
  a client registers and fetches version 1; version 2 arrives and the running broadcast fetches it,
  stores it in `last` and pushes it to the old subscribers only; the notification for version 2 then finds
  nothing changed. The new client stays at version 1 until the ranking changes again. Streams that a
  broadcast has reached once are safe: `PushedSeesLast` and `PushedConverges` hold.
* **A rebuild can count an event twice** (`rebuild_overcount`), because `user_points` already holds
  events the worker has yet to add to Redis. The comments speak of missing points only.
* **A rebuild can bless a partial ranking** (`rebuild_torn`) if Redis loses its data half-way.
* **A tick deadline can lose a cache update** (`outbox_deadline`) and **a stalled drain may have
  work to do** (`outbox_stall`); both heal later (rebuild, ticker), but the comments rule them out.

**Why `NoDeadlock` needs `MembershipAssumption`.** A worker locks the guilds of its window in
ascending order, and then shares the rows of its users in the order of the events. If a user could
change guilds between two of his events, two windows with different guilds could share the same two
users in opposite orders, and two gacha requests queued for the rows of these users would close the
circle: each worker waits behind one request for a row the other worker has shared. With the
assumption two workers that meet at a user have met at his guild before, and one of them waits
there. There is no run for this: no code changes a membership, so no execution shows it. Code that
does would have to sort the histories as it sorts the guilds.

## 5. Proofs

TLAPS proves, for all values of the constants allowed by the named assumptions (any number of
events, workers, goroutines, any batch size, any kinds and number of faults):

* `OutboxWorkerProofs`
  * `TypeCorrect`, and `Inductive`: `Spec => []IndInv`.
  * `ExactlyOnceHolds`, `CacheNeverAheadHolds`: consequences of `IndInv`.
  * `DeadLetterLoggedOnceHolds`, `CancelCostsNoRetryHolds`, `CacheExactWithoutFaultHolds`: invariants
    with strengthenings of their own.
  * `DeadLetterIsFinalHolds`, `DeadLetterNeverSilentHolds`: action properties.
  * `Refinement`: `Spec => ImplementsLedger`.
* `OutboxGcProofs`
  * `GcImplementsWorker`: `GcSpec => Spec`, and with it `PromisesKeptBesideGc`: everything that is
    proved of the workers holds beside the GC.
  * `GcSweepsHolds`, `RetentionKeptHolds`; the latter from `LoadedIsSafe`: a configuration that `Load`
    accepts has a retention of at least one second.
* `RankingCacheProofs`
  * `HealInductive`: `Spec => []HealInv`; `RebuildHealsHolds`: its conjunct.
* `RankingApiProofs`
  * `HealInductiveBesideReads`, `RebuildHealsBesideReads`: the same with both servers' reads.
  * `FrontsAgreeHolds`, `HealedIsFoundHolds`, `RankWithinTotalHolds`.
* `RankingWatcherProofs`
  * `TypeCorrect`, `Inductive`: `Spec => []IndInv`.
  * `PushedSeesLastHolds`, `ChannelDisciplineHolds`, `EndsWithReasonHolds`.
* `TransactionsProofs`
  * `LocksProtect`: `Spec => []IndInv`.
  * `GemsConservedHolds`: no gem is lost or spent twice; `ItemsMatchHistoryHolds`: nor is an item.
  * `DrawIsWeightedHolds`: the draw follows the weights, whatever they are.
  * `NoDeadlockHolds`: nobody waits in a circle.
  * `AnswersAreTrueHolds`: an action property, with the exception for additions of 0 points.
  * `Serializable`: `Spec => ImplementsAccounts`, the refinement of `Accounts`.
* `ApiServerProofs`
  * `ApiImplementsTransactions`: `ApiSpec => Spec`, and with it `GemsConservedByServers` and
    `PromisesKeptByServers`: everything that is proved of the transactions, the refinement of
    `Accounts` included, holds with handlers that panic and servers that stop or die.
  * `RefusalHasNoEffectHolds`, `AnswersAreObservableHolds`.
* `DeliveryProofs`: what the layers make of each outcome; the lemmas the proofs above cite.

*Why the inductive invariants are needed.* `ExactlyOnce` alone is not inductive: `CommitBatch`
applies whatever it holds, so one must know that a row locked by an open transaction is still
pending (`LockedStaysClaimed`), which rests on no other transaction holding it (`LocksExclusive`)
and on the claim's filter. `CacheNeverAhead` needs that work waiting for its pipeline is committed,
not in the cache, and in one hand only (`InFlightFresh`, `InFlightExclusive`); the last also is what
makes a pipeline a `Reflect` step of the ledger. The proof of `Inductive` has one lemma per action
(or family), each of which shows how the step changes locks and in-flight sets, and then the
conjuncts it can disturb. `RebuildHeals` needs that events at rest at the snapshot never get another
ZINCRBY (`clean \subseteq AtRest`) and that what the rebuild wrote of them without an error or a
flush is exact: the last conjunct of `HealInv`. `GemsConserved` writes back a balance that was read
earlier: one must know that it is still the balance of the row (`BalanceFresh`), which holds because
the row lock is held from the read on and no other commit can hold it (`LocksCompatible`).
`TotalFresh` is the same for the total of `AddUserPoints`, or, of an addition of 0 points to a row
that was there, says that the total is the snapshot's. `GcSweeps` needs that what is
owed has expired and stays so (`owed` avoids `young`, and only the GC deletes), so that a chunk that
is not full has taken all of it. `RankWithinTotal` needs, of a reader between two commands, that the
rank it holds is within the present total (`HasRead`), and that a ranking that is not flushed never
shrinks (`PresentKept`), for which the rebuild may only overwrite members that have a row
(`TodoKnown`). `PushedSeesLast` needs where a value can be between hub and client (`OnItsWay`), that
a broadcast's list and the registrations agree about who is open (`Registered`), and that the value
a hub pushes is the one it has just stored in `last` (`HubInv`). `RefusalHasNoEffect` combines the
step of the transaction with the error tables case by case: every outcome but `ok` keeps the rows,
and only an outcome nobody knows about becomes 500 or `Internal`.


`recordRetry` commits and logs in two steps, and its process may die between them. So the promise
about dead letters has two parts. `DeadLetterLoggedOnce` needs to know who is about to log
(`DeadInv`): nobody before the limit, and afterwards at most one actor, and none once the line is
written, because a counter that only grows passes the limit once. `DeadLetterNeverSilent` names the
two events that may cost the line; its proof follows the actor that is about to log and shows of
every other step, of any actor, that it leaves it there (`Aside`, `LogFrame`). `CancelCostsNoRetry`
must know why a goroutine is on its way to `recordRetry`: with poison in hand, or in a context that
is already done and stays so until the goroutine's round is over (`OnlyPoisonRetried`), and with one
event in hand only (`OneEach`). `CacheExactWithoutFault` speaks of idle workers, the proof of every
state: what is committed and in nobody's hands is in both rankings (`Reflected`), no context is done
before the first fault (`NoneCancelled`), and no goroutine outlives its `processBatch`
(`SlotsLive`).

`ItemsMatchHistory` is inductive by one lemma: the count of an item in a concatenation is the sum of
its counts. `DrawIsWeighted` needs that the list a request holds is an item master (`DrawInv`); the
rest is about `Accumulated`: it grows from item to item by the item's positive weight, so the random
numbers of an item are an interval of that length, and the intervals are disjoint. Where the textbook
would use induction over the list, the proof takes the least position at which a claim could fail.

`NoDeadlock` needs to know, at each statement, which locks a transaction holds and in which order it
takes the rest (`LocksInv`). Suppose a set of transactions in which each waits for a member. Nobody
there waits for items or points, because only a transaction that has the lock on the user, and needs
no other kind of lock any more, holds one (for the items: an exclusive lock, which excludes a second
request). Who waits to share a user with a queued request waits behind whatever that request waits
for: a worker that has shared the user and holds his guild. So a worker that waits for a user does so
behind a worker with the same guild locked, which is impossible. All that is left are workers waiting
for guilds; the owner of the largest guild waited for would wait for a larger one.

`Serializable` maps each step to one of `Accounts`: locks are granted quietly, the first statement
opens the request, and the commit or the refusal is the moment at which it takes effect. For the
commit one needs `BalanceFresh` and `TotalFresh`, what was checked before the transaction began or
under the lock (`Checked`: a valid amount, a guild, drawn items that had a weight in a list that was
read), and `ItemsMatchHistory` for the inventory, which `Accounts` derives from the histories.

*Assumptions.* Each module names the assumptions on its constants (`...Assumption`); TLC evaluates
them in every run. The external software is assumed to be what the modules say of it: InnoDB's row
locks and atomic commits, Redis executing one command at a time, gRPC and `net/http` ending accepted
requests.

*Only model-checked:* everything with fairness: `StopCompletes`, `EveryEventSettles`,
`PushedConverges`, `ShutdownCompletes`, `NoLeakedSubscriber`. They rest on `ENABLED` and on fairness,
which are beyond this prover. Every invariant and every action property of a passing run is
the subject of a theorem.

## 6. Not modelled, and the plan

Not modelled for good: seeding (test data written before anything runs), the log format, generated
code (the SQL and the proto files are modelled where they are used), tooling, clients, load tests
and infrastructure. Of the wiring only what `Register` asks for is modelled; connection options
carry no state of the protocols. Response bodies, names and page contents beyond what a property
compares are left out. That the GC's loop ends is not stated: `GcSweeps` is about one that ends too
early. Widths of numbers (float64 scores), a pipeline that go-redis sends again by
itself, and time beyond `young` are abstracted. Two rebuilds at once are not modelled: the code has
no lock against them and no comment promises anything about them.

Three comments met on the way are inexact and have no run of their own.
`usecase/ranking/usecase.go:235-243` says that the total read back agrees with the database and that
a missing row is abnormal after the upsert; for an addition of 0 points neither holds, as section 2
describes. Both outcomes occur in the run `transactions`, whose properties name them as the
exception; reading with a lock (`FOR SHARE`) would remove it.
`driver/grpc/ranking/errors.go:19` leaves cancelled contexts to the gRPC runtime, which turns an
error that is already a status into itself: a handler whose use case fails because its client is
gone is answered, and reported, as `Internal`. And `pushInitial` (`watcher.go:343`) calls the
broadcast that came first the newer one: a broadcast that has read the ranking before the first
fetch may be pushed between fetch and `pushInitial`, and is then the older; or it may be pushed after
the newer first snapshot, which is a reversal of order that the mutex of `watchSubscriber`
(`watcher.go:313`) does not exclude. The next notification that arrives corrects either.

Plan, in this order:

1. An abstract specification of the watcher (a stream shows parts of rankings that existed, and goes
   back at most once, right after its first snapshot), implemented by the detailed one.
2. Locks of the outbox rows in `Transactions`: the GC's range deletes and `recordRetry` against open batches.
3. Two rebuilds at a time.

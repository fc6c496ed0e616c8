---------------------------- MODULE Transactions ----------------------------
(***************************************************************************)
(* The MySQL transactions of the game server at the grain of row locks:    *)
(* gacha.Multi (internal/usecase/gacha/usecase.go), AddUserPoints          *)
(* (internal/usecase/ranking/usecase.go) and the worker's writes of guild  *)
(* scores (ranking_repository.go).                                         *)
(*                                                                         *)
(* A statement first takes its row locks, one by one in the order of its   *)
(* rows, and holds them to the end of the transaction.  Rows are locked X  *)
(* when they are written or read FOR UPDATE and S when a foreign key to    *)
(* them is checked.  Left out: locks on rows that nobody writes (items,    *)
(* guilds), locks the transaction holds already, and the rows of the       *)
(* outbox: a claim skips those that are locked (module OutboxWorker), but  *)
(* the UPDATE of recordRetry and the DELETE of the GC do wait for them.    *)
(*                                                                         *)
(* What a transaction writes becomes visible when it commits.  A plain     *)
(* SELECT reads the snapshot that the first SELECT of its transaction has  *)
(* taken (REPEATABLE READ), and the rows the transaction has changed; with *)
(* a lock, or to write, MySQL reads what is committed.                     *)
(***************************************************************************)
EXTENDS Integers, Sequences, FiniteSets

CONSTANTS
  User,        \* rows of users
  Guild,       \* rows of guilds
  GuildOf,     \* guild_members: a user's guild, or 0
  Multi,       \* gacha requests
  Add,         \* requests that add points
  Batch,       \* transactions of outbox workers
  MultiInput,  \* [user, pulls] a gacha request may have
  AddInput,    \* [user, points] a request that adds points may have
  BatchInput,  \* payloads a worker may find pending, in id order
  MaxScore,    \* 999999999999 in the code
  Starts,      \* gem balances the users may have
  Item,        \* rows of items: 1 .. n
  Masters      \* weights a request may find in items; an id is a position in the list

Tx == Multi \cup Add \cup Batch

ASSUME TxAssumption ==
  Multi \cap Add = {} /\ Multi \cap Batch = {} /\ Add \cap Batch = {}
ASSUME InputAssumption ==
  /\ Guild \subseteq Nat \ {0} /\ IsFiniteSet(Guild) /\ GuildOf \in [User -> Guild \cup {0}]
  /\ MultiInput \subseteq [user : Nat, pulls : Int]
  /\ AddInput \subseteq [user : Nat, points : Int]
  /\ BatchInput \subseteq Seq([user : User, guild : Guild])
\* No process writes guild_members: a payload that is pending still names its user's guild.
ASSUME MembershipAssumption ==
  \A events \in BatchInput : \A k \in DOMAIN events : events[k].guild = GuildOf[events[k].user]
ASSUME DataAssumption == /\ MaxScore \in Nat /\ Starts \subseteq [User -> Nat]
                         /\ Masters \subseteq {w \in Seq(Int) : DOMAIN w \subseteq Item}

VARIABLES
  start,   \* history: the balance a user started with
  gems,    \* users.gem_num
  owned,   \* user_items: the items of a user, item -> num
  hist,    \* gacha_histories: the items a user has drawn, in order
  points,  \* user_points.points, 0 where there is no row
  scored,  \* the users with a row in user_points
  stage,   \* "new", the statements a transaction is at, or "done"
  todo,    \* row locks these statements still need
  held,    \* row locks the transaction holds
  mine,    \* the request, and what the transaction has computed
  answer   \* what the last step told a caller

data == <<start, gems, owned, hist, points, scored>>
vars == <<start, gems, owned, hist, points, scored, stage, todo, held, mine, answer>>

NoAnswer == [code |-> "none"]
Nothing == [user |-> 0, amount |-> 0, items |-> <<>>, drawn |-> <<>>, result |-> 0,
            seen |-> {}]  \* at most one total: the user's row of user_points in the snapshot

Init ==
  /\ start \in Starts
  /\ gems = start
  /\ owned = [u \in User |-> [i \in Item |-> 0]]
  /\ hist = [u \in User |-> <<>>]
  /\ points = [u \in User |-> 0] /\ scored \in SUBSET User
  /\ stage = [t \in Tx |-> "new"]
  /\ todo = [t \in Tx |-> <<>>]
  /\ held = [t \in Tx |-> {}]
  /\ mine = [t \in Tx |-> Nothing]
  /\ answer = NoAnswer

-----------------------------------------------------------------------------
(* Row locks.                                                              *)

XLock(row) == [row |-> row, mode |-> "X"]
SLock(row) == [row |-> row, mode |-> "S"]
Conflict(l, m) == l.row = m.row /\ "X" \in {l.mode, m.mode}

GrantLock(t) ==
  /\ todo[t] # <<>>
  /\ \A o \in Tx \ {t} : \A l \in held[o] : ~Conflict(l, Head(todo[t]))
  /\ held' = [held EXCEPT ![t] = @ \cup {Head(todo[t])}]
  /\ todo' = [todo EXCEPT ![t] = Tail(@)]
  /\ answer' = NoAnswer
  /\ UNCHANGED <<data, stage, mine>>

\* A transaction goes on to statements that need the row locks in `locks`.
Enter(t, s, locks, m) ==
  /\ stage' = [stage EXCEPT ![t] = s]
  /\ todo' = [todo EXCEPT ![t] = locks]
  /\ mine' = [mine EXCEPT ![t] = m]
  /\ answer' = NoAnswer
  /\ UNCHANGED held

\* The end of DoInTx, by COMMIT or ROLLBACK: the locks are dropped.
Reply(t, code, value) ==
  /\ stage' = [stage EXCEPT ![t] = "done"]
  /\ todo' = [todo EXCEPT ![t] = <<>>]
  /\ held' = [held EXCEPT ![t] = {}]
  /\ mine' = [mine EXCEPT ![t] = Nothing]
  /\ answer' = [to |-> t, code |-> code, value |-> value]

\* The transaction ends and none of the rows above has changed.
EndWith(t, code) == Reply(t, code, 0) /\ UNCHANGED data

At(t, s) == stage[t] = s /\ todo[t] = <<>>

-----------------------------------------------------------------------------
(* gacha.Multi                                                             *)

GemCostFor(pulls) == 100 * pulls
IsValidPullCount(pulls) == pulls \in 1 .. 10

\* The sum of the positive weights among the first n items, as the loop over them adds it up.
Accumulated(w, n) ==
  LET acc[k \in 0 .. Len(w)] ==
        IF k = 0 THEN 0 ELSE IF w[k] > 0 THEN acc[k - 1] + w[k] ELSE acc[k - 1]
  IN acc[n]
TotalWeight(w) == Accumulated(w, Len(w))

\* Mutant: r <= acc instead of r < acc.
PickInclusive(w, r) ==
  CHOOSE i \in DOMAIN w :
    /\ w[i] > 0 /\ r <= Accumulated(w, i)
    /\ \A j \in 1 .. i - 1 : w[j] > 0 => r > Accumulated(w, j)

\* The item that a random number r in 0 .. TotalWeight(w) - 1 stands for.
Pick(w, r) ==
  CHOOSE i \in DOMAIN w :
    /\ w[i] > 0 /\ r < Accumulated(w, i)
    /\ \A j \in 1 .. i - 1 : w[j] > 0 => r >= Accumulated(w, j)

\* aggregateByID
Count(items, i) == Cardinality({k \in DOMAIN items : items[k] = i})

\* Mutant: num = VALUES(num).
UpsertAssigns(own, drawn) ==
  [i \in DOMAIN own |-> IF Count(drawn, i) > 0 THEN Count(drawn, i) ELSE own[i]]

\* UpsertUserItems: num = num + VALUES(num), for the aggregated draws.
UpsertUserItems(own, drawn) == [i \in DOMAIN own |-> own[i] + Count(drawn, i)]

\* Mutants: a plain SELECT, and SELECT ... FOR SHARE.
UserSelected(u) == <<>>
UserForShare(u) == <<SLock(<<"users", u>>)>>

\* The rows GetUserForUpdate locks.
UserForUpdate(u) == <<XLock(<<"users", u>>)>>

\* The members of a set of ids in ascending order (sortedKeys, slices.SortFunc).
Ascending(ids) ==
  [k \in 1 .. Cardinality(ids) |-> CHOOSE x \in ids : Cardinality({y \in ids : y < x}) = k - 1]

\* The rows of the upsert, ids ascending.
ItemRows(u, drawn) ==
  LET ids == Ascending({drawn[k] : k \in DOMAIN drawn})
  IN [k \in DOMAIN ids |-> XLock(<<"user_items", u, ids[k]>>)]

\* The pull count and the item master are checked before the transaction begins.
RefuseMulti(t, q, items) ==
  \/ ~IsValidPullCount(q.pulls) /\ EndWith(t, "invalid")
  \/ IsValidPullCount(q.pulls) /\ items = <<>> /\ EndWith(t, "no_items")

BeginMulti(t, q, items) ==
  /\ IsValidPullCount(q.pulls) /\ items # <<>>
  /\ Enter(t, "user", UserForUpdate(q.user),
           [Nothing EXCEPT !.user = q.user, !.amount = q.pulls, !.items = items])
  /\ UNCHANGED data

\* Mutant: > instead of >=.
HasMoreGemsThan(t) == gems[mine[t].user] > GemCostFor(mine[t].amount)

HasEnoughGemsFor(t) == gems[mine[t].user] >= GemCostFor(mine[t].amount)

\* The user row is locked and read: the request is refused ...
RefuseDraw(t) ==
  /\ At(t, "user")
  /\ \/ mine[t].user \notin User /\ EndWith(t, "not_found")
     \/ mine[t].user \in User /\ ~HasEnoughGemsFor(t) /\ EndWith(t, "insufficient")
     \/ /\ mine[t].user \in User /\ HasEnoughGemsFor(t) /\ TotalWeight(mine[t].items) <= 0
        /\ EndWith(t, "weights")

\* ... or the items are drawn, and the new balance, items and histories are written.
Draw(t) ==
  /\ At(t, "user")
  /\ mine[t].user \in User /\ HasEnoughGemsFor(t) /\ TotalWeight(mine[t].items) > 0
  /\ \E r \in [1 .. mine[t].amount -> 0 .. TotalWeight(mine[t].items) - 1] :
       LET u == mine[t].user
           drawn == [k \in 1 .. mine[t].amount |-> Pick(mine[t].items, r[k])]
       IN Enter(t, "commit", ItemRows(u, drawn),
                [mine[t] EXCEPT !.items = <<>>, !.drawn = drawn,
                                !.result = gems[u] - GemCostFor(mine[t].amount)])
  /\ UNCHANGED data

\* A COMMIT that fails for the client may have succeeded: then the caller sees an error.
Told == {"ok", "error"}

CommitMulti(t) ==
  /\ At(t, "commit")
  /\ LET u == mine[t].user
     IN /\ gems' = [gems EXCEPT ![u] = mine[t].result]
        /\ owned' = [owned EXCEPT ![u] = UpsertUserItems(@, mine[t].drawn)]
        /\ hist' = [hist EXCEPT ![u] = @ \o mine[t].drawn]
  /\ \E code \in Told : Reply(t, code, mine[t].result)
  /\ UNCHANGED <<start, points, scored>>

-----------------------------------------------------------------------------
(* AddUserPoints                                                           *)

IsValidScore(p) == p \in 0 .. MaxScore

RefuseAdd(t, q) ==
  \/ ~IsValidScore(q.points) /\ EndWith(t, "invalid")
  \/ IsValidScore(q.points) /\ q.user \notin User /\ EndWith(t, "not_found")
  \/ /\ IsValidScore(q.points) /\ q.user \in User /\ GuildOf[q.user] = 0
     /\ EndWith(t, "no_guild")

\* The user and the guild are read, which takes the snapshot; the history row checks its
\* foreign key to the user, the upsert locks the row of the points.
BeginAdd(t, q) ==
  /\ IsValidScore(q.points) /\ q.user \in User /\ GuildOf[q.user] # 0
  /\ Enter(t, "increment", <<SLock(<<"users", q.user>>), XLock(<<"user_points", q.user>>)>>,
           [Nothing EXCEPT !.user = q.user, !.amount = q.points,
                           !.seen = IF q.user \in scored THEN {points[q.user]} ELSE {}])
  /\ UNCHANGED data

\* Mutant: the total is read before the increment has locked the row.
ReadFirst(t) ==
  /\ stage[t] = "increment"
  /\ stage' = [stage EXCEPT ![t] = "commit"]
  /\ mine' = [mine EXCEPT ![t].result = points[mine[t].user] + mine[t].amount]
  /\ answer' = NoAnswer
  /\ UNCHANGED <<data, todo, held>>

\* The upsert inserts a row or changes it, unless it adds 0 to a row that is there.
WritesRow(m) == m.amount # 0 \/ m.user \notin scored

\* What GetUserPoints, a plain SELECT, finds after IncrementUserPoints: the committed total
\* and the own increment if the transaction has written the row, else the snapshot.
TotalRead(m) == IF WritesRow(m) THEN {points[m.user] + m.amount} ELSE m.seen

ReadBack(t) ==
  /\ At(t, "increment")
  /\ stage' = [stage EXCEPT ![t] = "commit"]
  /\ \E total \in TotalRead(mine[t]) : mine' = [mine EXCEPT ![t].result = total]
  /\ answer' = NoAnswer
  /\ UNCHANGED <<data, todo, held>>

\* ErrPointsNotFound: the row has been inserted after the snapshot was taken.
FindNoRow(t) ==
  At(t, "increment") /\ TotalRead(mine[t]) = {} /\ EndWith(t, "missing")

\* MySQL adds: points = points + VALUES(points).
CommitAdd(t) ==
  /\ At(t, "commit")
  /\ points' = [points EXCEPT ![mine[t].user] = @ + mine[t].amount]
  /\ scored' = scored \cup {mine[t].user}
  /\ \E code \in Told : Reply(t, code, mine[t].result)
  /\ UNCHANGED <<start, gems, owned, hist>>

-----------------------------------------------------------------------------
(* The worker: BulkIncrementGuildScores, then BulkInsertGuildScoreHistories *)

\* Mutant: the rows in the order of the events.
ScoreRowsUnsorted(events) ==
  [k \in DOMAIN events |-> XLock(<<"guild_scores", events[k].guild>>)]

\* One row per guild, ids ascending.
ScoreRows(events) ==
  LET ids == Ascending({events[k].guild : k \in DOMAIN events})
  IN [k \in DOMAIN ids |-> XLock(<<"guild_scores", ids[k]>>)]

\* The histories, one row per event, check their foreign keys to the users.
HistoryRows(events) == [k \in DOMAIN events |-> SLock(<<"users", events[k].user>>)]

BeginBatch(t, events) ==
  /\ Enter(t, "commit", ScoreRows(events) \o HistoryRows(events), Nothing)
  /\ UNCHANGED data

CommitBatch(t) == At(t, "commit") /\ EndWith(t, "ok")

-----------------------------------------------------------------------------
\* A statement fails, a lock wait times out, MySQL picks the transaction as a
\* victim, or the process dies: the transaction is rolled back.
Fail(t) == stage[t] # "done" /\ EndWith(t, "error")

Terminated == (\A t \in Tx : stage[t] = "done") /\ UNCHANGED vars

MultiNext(t) ==
  \/ stage[t] = "new" /\ \E q \in MultiInput, items \in Masters :
       RefuseMulti(t, q, items) \/ BeginMulti(t, q, items)
  \/ RefuseDraw(t) \/ Draw(t) \/ CommitMulti(t)
AddNext(t) ==
  \/ stage[t] = "new" /\ \E q \in AddInput : RefuseAdd(t, q) \/ BeginAdd(t, q)
  \/ ReadBack(t) \/ FindNoRow(t) \/ CommitAdd(t)
BatchNext(t) ==
  \/ stage[t] = "new" /\ \E events \in BatchInput : BeginBatch(t, events)
  \/ CommitBatch(t)

Next ==
  \/ \E t \in Multi : MultiNext(t)
  \/ \E t \in Add : AddNext(t)
  \/ \E t \in Batch : BatchNext(t)
  \/ \E t \in Tx : GrantLock(t) \/ Fail(t)
  \/ Terminated

Spec == Init /\ [][Next]_vars

-----------------------------------------------------------------------------
(* Properties                                                              *)

\* Concurrent requests of one user spend no gem twice and lose no charge: every
\* draw in gacha_histories has been paid, and the balance never gets negative
\* (Multi reads the balance FOR UPDATE and writes back what it computed from it).
GemsConserved ==
  \A u \in User : gems[u] >= 0 /\ gems[u] + 100 * Len(hist[u]) = start[u]

\* The inventory is exactly what the histories say, whichever requests of a
\* user overlap (aggregateByID and the upsert against InsertGachaHistories).
ItemsMatchHistory ==
  \A u \in User : \A i \in Item : owned[u][i] = Count(hist[u], i)

\* A request draws in proportion to the weights it has read: each item is chosen by
\* exactly as many random numbers as its weight, and an item without a positive
\* weight by none (draw: such items are skipped, the others are taken if r < acc).
DrawIsWeighted ==
  \A t \in Multi : LET w == mine[t].items IN \A i \in DOMAIN w :
    Cardinality({r \in 0 .. TotalWeight(w) - 1 : Pick(w, r) = i}) = IF w[i] > 0 THEN w[i] ELSE 0

\* A caller that is told "ok" is told the truth: at the commit of its request the
\* new balance, or total, is what the answer says, and is the old one less the cost,
\* or plus the points.  So two concurrent requests never report the same total
\* (comment in AddUserPoints: the value is read back, not added up by the application).
\* Only who adds 0 points to a total may be told the one he had when his request began:
\* the row is not written, and read back from the snapshot.
AnswersAreTrue ==
  [][\A t \in Multi \cup Add :
       stage[t] # "done" /\ answer'.code = "ok" /\ answer'.to = t =>
         LET u == mine[t].user
         IN IF t \in Multi
            THEN answer'.value = gems'[u] /\ gems'[u] = gems[u] - GemCostFor(mine[t].amount)
            ELSE /\ points'[u] = points[u] + mine[t].amount
                 /\ \/ answer'.value = points'[u]
                    \/ mine[t].amount = 0 /\ u \in scored /\ answer'.value \in mine[t].seen]_vars

\* Seen from outside, requests take effect one at a time, each on the accounts as the others
\* left them, whichever statements of requests, workers and failures are interleaved: the
\* row locks make the transactions serial, and refusals give reasons that hold (DoInTx).
Books == INSTANCE Accounts WITH
  phase <- [t \in Multi \cup Add |-> IF stage[t] \in {"new", "done"} THEN stage[t] ELSE "open"],
  wish <- [t \in Multi \cup Add |-> [user |-> mine[t].user, amount |-> mine[t].amount,
                                 seen |-> mine[t].seen]],
  told <- IF answer.code # "none" /\ answer.to \in Batch THEN NoAnswer ELSE answer
ImplementsAccounts == Books!Spec

\* t cannot go on before o does: o holds a lock in conflict with the next one of t,
\* or waits to write a row that t wants to share (InnoDB queues t behind it).
WaitsFor(t, o) ==
  /\ t # o /\ todo[t] # <<>> /\ Head(todo[t]) \notin held[t]
  /\ \/ \E l \in held[o] : Conflict(l, Head(todo[t]))
     \/ todo[o] # <<>> /\ Head(todo[o]) = XLock(Head(todo[t]).row) /\ Head(todo[t]).mode = "S"

\* Workers, point additions and gacha requests never wait for each other in a
\* circle (BulkIncrementGuildScores, ranking_repository.go:98-100: the order of the
\* locks is a must; AddUserPoints leaves the guild row to the worker).
NoDeadlock ==
  \A ts \in SUBSET {t \in Tx : \E o \in Tx : WaitsFor(t, o)} :
    ts # {} => \E t \in ts : \A o \in ts : ~WaitsFor(t, o)

\* What the transactions rely on: locks that conflict are never held together, and
\* what a transaction has computed from a row is still true of the row when it
\* commits, because it holds the lock of the row from the read on (GetUserForUpdate,
\* IncrementUserPoints before GetUserPoints), or is what its snapshot says if it has added
\* 0 points to a row that was there.
LocksCompatible ==
  \A t, o \in Tx : t # o => \A l \in held[t], m \in held[o] : ~Conflict(l, m)

IsSequence(q) == Len(q) \in Nat /\ q = [k \in 1 .. Len(q) |-> q[k]]

TypeOK ==
  /\ start \in [User -> Nat] /\ gems \in [User -> Int] /\ points \in [User -> Int]
  /\ scored \subseteq User
  /\ DOMAIN hist = User /\ \A u \in User : IsSequence(hist[u])
  /\ DOMAIN stage = Tx /\ DOMAIN todo = Tx /\ DOMAIN held = Tx
  /\ DOMAIN mine = Tx
  /\ \A t \in Tx : /\ DOMAIN mine[t] = DOMAIN Nothing
                  /\ mine[t].user \in Nat /\ mine[t].amount \in Int /\ mine[t].result \in Int
                  /\ mine[t].seen \subseteq Int

BalanceFresh ==
  \A t \in Multi :
    LET m == mine[t]
        locked == XLock(<<"users", m.user>>) \in held[t]
    IN /\ stage[t] \in {"new", "user", "commit", "done"}
       /\ stage[t] = "user" =>
            /\ m.amount \in Nat
            /\ todo[t] = <<XLock(<<"users", m.user>>)>> \/ (todo[t] = <<>> /\ locked)
       /\ stage[t] = "commit" =>
            /\ locked /\ m.user \in User
            /\ m.result >= 0 /\ m.result = gems[m.user] - GemCostFor(m.amount)
            /\ IsSequence(m.drawn) /\ Len(m.drawn) = m.amount

TotalFresh ==
  \A t \in Add :
    LET m == mine[t]
        row == XLock(<<"user_points", m.user>>)
    IN /\ stage[t] \in {"new", "increment", "commit", "done"}
       /\ stage[t] = "increment" =>
            /\ m.user \in User
            /\ \/ todo[t] \in {<<SLock(<<"users", m.user>>), row>>, <<row>>}
               \/ todo[t] = <<>> /\ row \in held[t]
       /\ stage[t] = "commit" =>
            /\ m.user \in User /\ row \in held[t] /\ todo[t] = <<>>
            /\ m.result \in TotalRead(m)

IndInv == TypeOK /\ LocksCompatible /\ BalanceFresh /\ TotalFresh /\ GemsConserved
=============================================================================

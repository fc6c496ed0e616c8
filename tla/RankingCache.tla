---------------------------- MODULE RankingCache ----------------------------
(***************************************************************************)
(* The Redis rankings and everything that touches them: the worker's       *)
(* ZINCRBYs, the rebuild batch (internal/driver/batch/ranking_sync.go),    *)
(* a volatile Redis, and the reads of internal/usecase/ranking/usecase.go  *)
(* behind the sentinel key.                                                *)
(*                                                                         *)
(* The worker is the two steps OutboxWorker is shown to take: one commit   *)
(* settles a group of events, and then the group's ZINCRBYs reach Redis    *)
(* one by one, users before guilds, or are lost.  As there, a score is the *)
(* bag of the events it sums: z[b][e] is how often event e is in board b.  *)
(***************************************************************************)
EXTENDS Integers, FiniteSets, FiniteSetsExt

CONSTANTS
  Event,      \* outbox events that may be inserted
  User, Guild,
  UserOf, GuildOf,  \* whom an event's payload names
  Points,     \* payload.Points
  Reader,     \* concurrent read requests
  Page,       \* the <<offset, limit>> pairs requests ask for
  MaxFlush,   \* bound: how often Redis loses its data
  MaxSync     \* bound: how often the rebuild is run

ASSUME KeyAssumption == UserOf \in [Event -> User] /\ GuildOf \in [Event -> Guild]
ASSUME PointsAssumption == Points \in [Event -> Nat]
ASSUME ReadAssumption == IsFiniteSet(User) /\ IsFiniteSet(Guild) /\ Page \subseteq Nat \X Nat
ASSUME CacheBoundAssumption == MaxFlush \in Nat /\ MaxSync \in Nat

Board == {"user", "guild"}
Member(b) == IF b = "user" THEN User ELSE Guild
MemberOf(b, e) == IF b = "user" THEN UserOf[e] ELSE GuildOf[e]

VARIABLES
  pending,    \* events whose user_points and outbox row are committed, unprocessed
  settled,    \* events whose guild_scores and processed_at are committed
  inFlight,   \* per board, settled events whose ZINCRBY has not been executed
  z,          \* per board, how often an event is in the sorted set
  sentinel,   \* the key ranking:meta:initialized exists
  syncPc,     \* the rebuild batch: idle or writing
  snap,       \* its snapshot of guild_scores and user_points
  todo,       \* members it has not SET yet
  syncFailed, \* firstErr # nil
  syncs,      \* rebuilds started
  flushes,    \* times Redis lost its data
  req,        \* per reader: where it is and what it has read
  answer,     \* per reader: the last response
  clean,      \* history: events at rest when the running rebuild took its snapshot
  flushed,    \* history: Redis was flushed since then
  healed,     \* history: events the last rebuild that set the sentinel answers for
  torn        \* history, per reader: Redis was flushed since the sentinel check

mysql   == <<pending, settled>>
sync    == <<syncPc, snap, todo, syncFailed, syncs>>
readers == <<req, answer>>
history == <<clean, flushed, healed, torn>>
vars == <<pending, settled, inFlight, z, sentinel, syncPc, snap, todo, syncFailed, syncs,
          flushes, req, answer, clean, flushed, healed, torn>>

Idle   == [at |-> "idle"]
None   == [code |-> "none"]
NoRows == [b \in Board |-> {}]

\* What MySQL holds for a board: user_points counts an event from the request on,
\* guild_scores only once the worker has settled it.
Source(b) == IF b = "user" THEN pending \cup settled ELSE settled

Init ==
  /\ pending = {} /\ settled = {}
  /\ inFlight = NoRows
  /\ z = [b \in Board |-> [e \in Event |-> 0]]
  /\ sentinel = FALSE
  /\ syncPc = "idle" /\ snap = NoRows /\ todo = NoRows /\ syncFailed = FALSE /\ syncs = 0
  /\ flushes = 0
  /\ req = [r \in Reader |-> Idle] /\ answer = [r \in Reader |-> None]
  /\ clean = {} /\ flushed = FALSE /\ healed = {} /\ torn = [r \in Reader |-> FALSE]

-----------------------------------------------------------------------------
(* Requests and the worker.                                                *)

\* AddUserPoints commits; it does not look at the sentinel.
AddUserPoints(e) ==
  /\ e \notin pending \cup settled
  /\ pending' = pending \cup {e}
  /\ UNCHANGED <<settled, inFlight, z, sentinel, sync, flushes, readers, history>>

\* The worker commits a group of events.
Settle(S) ==
  /\ S # {} /\ S \subseteq pending
  /\ pending' = pending \ S
  /\ settled' = settled \cup S
  /\ inFlight' = [b \in Board |-> inFlight[b] \cup S]
  /\ UNCHANGED <<z, sentinel, sync, flushes, readers, history>>

\* Redis executes one ZINCRBY of a pipeline: the events S of one member.
ZIncrBy(b, S) ==
  /\ S # {} /\ S \subseteq inFlight[b]
  /\ \E m \in Member(b) : \A e \in S : MemberOf(b, e) = m
  /\ b = "guild" => S \cap inFlight["user"] = {}
  /\ z' = [z EXCEPT ![b] = [e \in Event |-> IF e \in S THEN @[e] + 1 ELSE @[e]]]
  /\ inFlight' = [inFlight EXCEPT ![b] = @ \ S]
  /\ UNCHANGED <<mysql, sentinel, sync, flushes, readers, history>>

\* The rest of a pipeline never reaches Redis: crash, deadline, broken connection.
PipelineLost(S) ==
  /\ S # {} /\ S \subseteq inFlight["guild"]
  /\ inFlight' = [b \in Board |-> inFlight[b] \ S]
  /\ UNCHANGED <<mysql, z, sentinel, sync, flushes, readers, history>>

\* Redis loses its data: node failure, failover, FLUSHALL.
Flush ==
  /\ flushes < MaxFlush
  /\ flushes' = flushes + 1
  /\ z' = [b \in Board |-> [e \in Event |-> 0]]
  /\ sentinel' = FALSE
  /\ flushed' = TRUE /\ healed' = {} /\ torn' = [r \in Reader |-> TRUE]
  /\ UNCHANGED <<mysql, inFlight, sync, readers, clean>>

-----------------------------------------------------------------------------
(* RankingSyncer.SyncAll.                                                  *)

AtRest == settled \ (inFlight["user"] \cup inFlight["guild"])

\* Mutant: the rebuild deletes the sorted sets before it writes them.
SnapshotDeletingKeys ==
  /\ syncPc = "idle" /\ syncs < MaxSync
  /\ syncPc' = "set" /\ syncs' = syncs + 1 /\ syncFailed' = FALSE
  /\ snap' = [b \in Board |-> Source(b)]
  /\ todo' = [b \in Board |-> {MemberOf(b, e) : e \in Source(b)}]
  /\ z' = [b \in Board |-> [e \in Event |-> 0]]
  /\ clean' = AtRest /\ flushed' = FALSE
  /\ UNCHANGED <<mysql, inFlight, sentinel, flushes, readers, healed, torn>>

\* One REPEATABLE READ transaction reads both tables.
Snapshot ==
  /\ syncPc = "idle" /\ syncs < MaxSync
  /\ syncPc' = "set" /\ syncs' = syncs + 1 /\ syncFailed' = FALSE
  /\ snap' = [b \in Board |-> Source(b)]
  /\ todo' = [b \in Board |-> {MemberOf(b, e) : e \in Source(b)}]
  /\ clean' = AtRest /\ flushed' = FALSE
  /\ UNCHANGED <<mysql, inFlight, z, sentinel, flushes, readers, healed, torn>>

\* ZADD overwrites the member's score with the snapshot's.
Overwrite(b, m) ==
  [z EXCEPT ![b] =
    [e \in Event |-> IF MemberOf(b, e) = m THEN (IF e \in snap[b] THEN 1 ELSE 0) ELSE @[e]]]

\* SetGuildScore for every guild, then SetUserPoints for every user.  A failure is counted
\* and the loop goes on; a failed ZADD may have been executed all the same.
SetScore(b, m) ==
  /\ syncPc = "set" /\ m \in todo[b]
  /\ b = "user" => todo["guild"] = {}
  /\ todo' = [todo EXCEPT ![b] = @ \ {m}]
  /\ \/ z' = Overwrite(b, m) /\ UNCHANGED syncFailed
     \/ z' = Overwrite(b, m) /\ syncFailed' = TRUE
     \/ UNCHANGED z /\ syncFailed' = TRUE
  /\ UNCHANGED <<mysql, inFlight, sentinel, syncPc, snap, syncs, flushes, readers, history>>

\* The batch ends, and its locals with it.
EndSync ==
  /\ syncPc' = "idle" /\ snap' = NoRows /\ todo' = NoRows /\ syncFailed' = FALSE
  /\ clean' = {} /\ flushed' = FALSE
  /\ UNCHANGED <<mysql, inFlight, z, syncs, flushes, readers, torn>>

\* Mutant: the sentinel is set although some SETs failed.
MarkRegardless ==
  /\ syncPc = "set" /\ todo = NoRows
  /\ sentinel' = TRUE
  /\ healed' = IF flushed THEN {} ELSE clean
  /\ EndSync

\* Every SET succeeded: MarkInitialized, also when Redis executed it and its answer was lost.
MarkInitialized ==
  /\ syncPc = "set" /\ todo = NoRows /\ ~syncFailed
  /\ sentinel' = TRUE
  /\ healed' = IF flushed THEN {} ELSE clean
  /\ EndSync

\* SyncAll returns an error (a SET or MarkInitialized failed), or the batch is killed.
AbortSync ==
  /\ syncPc = "set"
  /\ EndSync
  /\ UNCHANGED <<sentinel, healed>>

-----------------------------------------------------------------------------
(* Reads: GetUserRank, GetGuildRank, GetUserRankings, GetGuildRankings.    *)

\* Mutant: a member whose score is 0 counts as missing.
PresentWithPoints(b) == {MemberOf(b, e) : e \in {f \in Event : z[b][f] * Points[f] > 0}}

Present(b) == {MemberOf(b, e) : e \in {f \in Event : z[b][f] > 0}}

Score(b, m) == MapThenSumSet(LAMBDA e : z[b][e] * Points[e], {e \in Event : MemberOf(b, e) = m})

\* ZREVRANK + 1: one of the places among equal scores; 0 for redis.Nil.
Ranks(b, m) ==
  LET above == {n \in Present(b) : Score(b, n) > Score(b, m)}
      notBelow == {n \in Present(b) : Score(b, n) >= Score(b, m)}
  IN IF m \in Present(b) THEN (Cardinality(above) + 1)..Cardinality(notBelow) ELSE {0}

\* The last rank on a page of ZREVRANGE, 0 if the page is empty.
LastRank(b, page) ==
  LET stop == Min({Cardinality(Present(b)), page[1] + page[2]})
  IN IF stop > page[1] THEN stop ELSE 0

To(r, state) ==
  /\ req' = [req EXCEPT ![r] = state]
  /\ answer' = [answer EXCEPT ![r] = None]

Respond(r, response) ==
  /\ req' = [req EXCEPT ![r] = Idle]
  /\ answer' = [answer EXCEPT ![r] = response]

Reading == UNCHANGED <<mysql, inFlight, z, sentinel, sync, flushes, clean, flushed, healed>>

\* ensureInitialized; the request then asks for one member's rank or for a page.
CheckSentinel(r, b, then) ==
  /\ req[r].at = "idle"
  /\ \/ sentinel /\ To(r, then)
     \/ ~sentinel /\ Respond(r, [code |-> "503"])
  /\ torn' = [torn EXCEPT ![r] = FALSE]
  /\ Reading

\* ZSCORE
ReadScore(r) ==
  /\ req[r].at = "score"
  /\ \/ req[r].m \in Present(req[r].b) /\ To(r, [req[r] EXCEPT !.at = "rank"])
     \/ req[r].m \notin Present(req[r].b) /\ Respond(r, [code |-> "404"])
  /\ Reading /\ UNCHANGED torn

\* ZREVRANK
ReadRank(r) ==
  /\ req[r].at = "rank"
  /\ \E k \in Ranks(req[r].b, req[r].m) :
       To(r, [at |-> "count", b |-> req[r].b, low |-> 1, rank |-> k])
  /\ Reading /\ UNCHANGED torn

\* ZREVRANGE
ReadPage(r) ==
  /\ req[r].at = "page"
  /\ To(r, [at |-> "count", b |-> req[r].b, low |-> 0, rank |-> LastRank(req[r].b, req[r].page)])
  /\ Reading /\ UNCHANGED torn

\* ZCARD, and the response.
ReadCount(r) ==
  /\ req[r].at = "count"
  /\ Respond(r, [code |-> "200", low |-> req[r].low, rank |-> req[r].rank,
                 total |-> Cardinality(Present(req[r].b))])
  /\ Reading /\ UNCHANGED torn

\* A Redis or MySQL call of the request fails.
ReadError(r) ==
  /\ req[r].at # "idle"
  /\ Respond(r, [code |-> "500"])
  /\ Reading /\ UNCHANGED torn

Read(r) ==
  \/ \E b \in Board :
       \/ \E m \in Member(b) : CheckSentinel(r, b, [at |-> "score", b |-> b, m |-> m])
       \/ \E p \in Page : CheckSentinel(r, b, [at |-> "page", b |-> b, page |-> p])
  \/ ReadScore(r) \/ ReadRank(r) \/ ReadPage(r) \/ ReadCount(r) \/ ReadError(r)

-----------------------------------------------------------------------------
(* Specification and properties.                                           *)

Next ==
  \/ \E e \in Event : AddUserPoints(e)
  \/ \E S \in SUBSET Event : Settle(S) \/ PipelineLost(S) \/ \E b \in Board : ZIncrBy(b, S)
  \/ Flush
  \/ Snapshot \/ MarkInitialized \/ AbortSync
  \/ \E b \in Board : \E m \in Member(b) : SetScore(b, m)
  \/ \E r \in Reader : Read(r)

Spec == Init /\ [][Next]_vars

TypeOK ==
  /\ pending \subseteq Event /\ settled \subseteq Event
  /\ inFlight \in [Board -> SUBSET Event]
  /\ z \in [Board -> [Event -> Nat]]
  /\ sentinel \in BOOLEAN
  /\ syncPc \in {"idle", "set"}
  /\ snap \in [Board -> SUBSET Event]
  /\ todo \in [Board -> SUBSET (User \cup Guild)]
  /\ syncFailed \in BOOLEAN /\ flushed \in BOOLEAN
  /\ clean \subseteq Event /\ healed \subseteq Event

\* A rebuild heals: once SyncAll has set the sentinel, every event that was at rest at its
\* snapshot is counted exactly once in both rankings, and stays so until Redis is flushed,
\* whatever requests, worker, failed SETs and later rebuilds do (ranking_sync.go:18-31).
RebuildHeals == \A e \in healed : z["user"][e] = 1 /\ z["guild"][e] = 1

\* A 200 response is coherent although its score, rank and total are separate Redis calls
\* with ZINCRBYs and rebuilds in between: unless Redis was flushed since the sentinel check,
\* a rank is at least 1 and never beyond the total (GetUserRank, GetUserRankings).
RankWithinTotal ==
  \A r \in Reader :
    answer[r].code = "200" /\ ~torn[r] =>
      answer[r].low <= answer[r].rank /\ answer[r].rank <= answer[r].total

\* A rebuild that ends with success leaves a complete ranking behind its sentinel:
\* everything of its snapshot is there.
SentinelMeansComplete ==
  [][MarkInitialized => \A b \in Board : \A e \in snap[b] : z[b][e] > 0]_vars

\* The rankings only ever miss points, temporarily: no event is counted twice.
NeverOverCounts == \A b \in Board : \A e \in Event : z[b][e] <= 1

\* Inductive form of RebuildHeals: what a rebuild has written of the events at rest is
\* exact, and events at rest get no further ZINCRBY.
HealInv ==
  /\ TypeOK
  /\ RebuildHeals
  /\ pending \cap settled = {}
  /\ \A b \in Board : inFlight[b] \subseteq settled
  /\ healed \subseteq AtRest /\ clean \subseteq AtRest
  /\ syncPc = "set" => \A b \in Board : clean \cup healed \subseteq snap[b]
  /\ syncPc = "set" /\ ~syncFailed /\ ~flushed =>
       \A b \in Board : \A e \in clean : MemberOf(b, e) \notin todo[b] => z[b][e] = 1
=============================================================================

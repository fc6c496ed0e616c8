------------------------- MODULE RankingCacheProofs -------------------------
(***************************************************************************)
(* A successful rebuild heals the rankings, for any number of events,      *)
(* users, guilds, readers, rebuilds and losses of Redis.                   *)
(***************************************************************************)
EXTENDS RankingCache, TLAPS

\* The conjuncts of HealInv that speak of a running rebuild.
SyncSees == syncPc = "set" => \A b \in Board : clean \cup healed \subseteq snap[b]
SyncWrote ==
  syncPc = "set" /\ ~syncFailed /\ ~flushed =>
    \A b \in Board : \A e \in clean : MemberOf(b, e) \notin todo[b] => z[b][e] = 1
Rows == pending \cap settled = {} /\ \A b \in Board : inFlight[b] \subseteq settled
Rested == healed \subseteq AtRest /\ clean \subseteq AtRest

LEMMA HealInvParts ==
  HealInv <=> TypeOK /\ RebuildHeals /\ Rows /\ Rested /\ SyncSees /\ SyncWrote
BY DEF HealInv, SyncSees, SyncWrote, Rows, Rested

\* Requests, the worker's commit, lost pipelines and reads touch no score.
LEMMA QuietStep ==
  ASSUME HealInv, TypeOK', Rows', AtRest \subseteq AtRest',
         UNCHANGED <<z, syncPc, snap, todo, syncFailed, clean, flushed, healed>>
  PROVE  HealInv'
BY DEF HealInv, RebuildHeals, Rows, MemberOf

LEMMA AddUserPointsHeals ==
  ASSUME HealInv, NEW e \in Event, AddUserPoints(e) PROVE HealInv'
<1> USE DEF AddUserPoints, sync, history, readers
<1>1. TypeOK' BY DEF HealInv, TypeOK
<1>2. Rows' BY DEF HealInv, Rows
<1>3. AtRest \subseteq AtRest' BY DEF AtRest
<1> QED BY <1>1, <1>2, <1>3, QuietStep

LEMMA SettleHeals ==
  ASSUME HealInv, NEW S \in SUBSET Event, Settle(S) PROVE HealInv'
<1> USE DEF Settle, sync, history, readers
<1>1. TypeOK' BY DEF HealInv, TypeOK
<1>2. Rows' BY DEF HealInv, Rows, Board
<1>3. AtRest \subseteq AtRest' BY DEF HealInv, AtRest, Board
<1> QED BY <1>1, <1>2, <1>3, QuietStep

LEMMA PipelineLostHeals ==
  ASSUME HealInv, NEW S \in SUBSET Event, PipelineLost(S) PROVE HealInv'
<1> USE DEF PipelineLost, sync, history, readers, mysql
<1>1. TypeOK' BY DEF HealInv, TypeOK
<1>2. Rows' BY DEF HealInv, Rows, Board
<1>3. AtRest \subseteq AtRest' BY DEF AtRest, Board
<1> QED BY <1>1, <1>2, <1>3, QuietStep

LEMMA ReadHeals ==
  ASSUME HealInv, NEW r \in Reader, Read(r) PROVE HealInv'
<1>1. UNCHANGED <<mysql, inFlight, z, sentinel, sync, clean, flushed, healed>>
  BY DEF Read, CheckSentinel, ReadScore, ReadRank, ReadPage, ReadCount, ReadError, Reading
<1> USE <1>1 DEF mysql, sync
<1>2. TypeOK' BY DEF HealInv, TypeOK
<1>3. Rows' BY DEF HealInv, Rows
<1>4. AtRest \subseteq AtRest' BY DEF AtRest
<1> QED BY <1>2, <1>3, <1>4, QuietStep

\* A ZINCRBY never hits an event at rest.
LEMMA ZIncrByHeals ==
  ASSUME HealInv, NEW b \in Board, NEW S \in SUBSET Event, ZIncrBy(b, S) PROVE HealInv'
<1> USE DEF ZIncrBy, sync, history, readers, mysql
<1>1. TypeOK' BY DEF HealInv, TypeOK
<1>2. Rows' BY DEF HealInv, Rows
<1>3. AtRest \subseteq AtRest' BY DEF AtRest, Board, HealInv, TypeOK
<1>4. \A c \in Board : \A e \in AtRest : z'[c][e] = z[c][e]
  BY DEF AtRest, Board, HealInv, TypeOK
<1>5. RebuildHeals' BY <1>4 DEF RebuildHeals, HealInv, Board
<1>6. Rested' BY <1>3 DEF Rested, HealInv
<1>7. SyncSees' BY DEF SyncSees, HealInv
<1>8. SyncWrote' BY <1>4 DEF SyncWrote, HealInv, MemberOf
<1> QED BY <1>1, <1>2, <1>5, <1>6, <1>7, <1>8, HealInvParts DEF SyncSees, SyncWrote, Rows, Rested, HealInv

LEMMA FlushHeals == ASSUME HealInv, Flush PROVE HealInv'
<1> USE DEF Flush, sync, readers, mysql
<1>1. TypeOK' BY DEF HealInv, TypeOK
<1> QED BY <1>1 DEF HealInv, RebuildHeals, AtRest

LEMMA SnapshotHeals == ASSUME HealInv, Snapshot PROVE HealInv'
<1> USE DEF Snapshot, readers, mysql
<1>1. \A b \in Board : \A e \in Event : MemberOf(b, e) \in User \cup Guild
  BY KeyAssumption DEF MemberOf
<1>2. \A b \in Board : Source(b) \subseteq Event /\ settled \subseteq Source(b)
  BY DEF Source, HealInv, TypeOK
<1>3. TypeOK'
  <2>1. snap' \in [Board -> SUBSET Event] BY <1>2
  <2>2. \A b \in Board : {MemberOf(b, e) : e \in Source(b)} \in SUBSET (User \cup Guild)
    BY <1>1, <1>2
  <2>3. todo' \in [Board -> SUBSET (User \cup Guild)] BY <2>2
  <2> QED BY <2>1, <2>3 DEF HealInv, TypeOK, AtRest
<1>4. RebuildHeals' /\ Rows' /\ Rested' BY DEF HealInv, RebuildHeals, Rows, Rested, AtRest
<1>5. SyncSees' BY <1>2 DEF SyncSees, HealInv, AtRest
<1>6. SyncWrote'
  <2> SUFFICES ASSUME NEW b \in Board, NEW e \in clean' PROVE MemberOf(b, e) \in todo'[b]
    BY DEF SyncWrote, MemberOf
  <2>1. e \in Source(b) BY <1>2 DEF AtRest
  <2> QED BY <2>1
<1> QED BY <1>3, <1>4, <1>5, <1>6 DEF HealInv, SyncSees, SyncWrote, Rows, Rested

\* A SET writes 1 for every event its snapshot holds.
LEMMA SetScoreHeals ==
  ASSUME HealInv, NEW b \in Board, NEW m \in Member(b), SetScore(b, m) PROVE HealInv'
<1> USE DEF SetScore, history, readers, mysql
<1>1. Overwrite(b, m) \in [Board -> [Event -> Nat]] BY DEF Overwrite, HealInv, TypeOK
<1>2. TypeOK' BY <1>1 DEF HealInv, TypeOK
<1>3. \A c \in Board : \A e \in Event : e \in snap[c] =>
        \/ z'[c][e] = z[c][e] /\ (syncFailed' \/ c # b \/ MemberOf(b, e) # m)
        \/ z'[c][e] = 1
  BY DEF Overwrite, HealInv, TypeOK
<1>4. RebuildHeals'
  <2> SUFFICES ASSUME NEW e \in healed PROVE z'["user"][e] = 1 /\ z'["guild"][e] = 1
    BY DEF RebuildHeals
  <2>1. e \in Event /\ e \in snap["user"] /\ e \in snap["guild"]
    BY DEF HealInv, TypeOK, Board
  <2>2. z["user"][e] = 1 /\ z["guild"][e] = 1 BY DEF HealInv, RebuildHeals
  <2> QED BY <2>1, <2>2, <1>3 DEF Board
<1>5. Rows' /\ Rested' BY DEF HealInv, Rows, Rested, AtRest
<1>6. SyncSees' BY DEF HealInv, SyncSees
<1>7. SyncWrote'
  <2> SUFFICES ASSUME ~syncFailed', ~flushed', NEW c \in Board, NEW e \in clean,
                      MemberOf(c, e) \notin todo'[c]
               PROVE  z'[c][e] = 1
    BY DEF SyncWrote, MemberOf
  <2>1. e \in Event /\ e \in snap[c] BY DEF HealInv, TypeOK
  <2>2. ~syncFailed /\ ~flushed BY DEF HealInv, TypeOK
  <2>3. CASE MemberOf(c, e) \notin todo[c]
    <3>1. z[c][e] = 1 BY <2>2, <2>3 DEF HealInv
    <3> QED BY <2>1, <3>1, <1>3
  <2>4. CASE MemberOf(c, e) \in todo[c]
    <3>1. c = b /\ MemberOf(b, e) = m BY <2>4 DEF HealInv, TypeOK
    <3> QED BY <2>1, <3>1, <1>3
  <2> QED BY <2>3, <2>4
<1> QED BY <1>2, <1>4, <1>5, <1>6, <1>7 DEF HealInv, SyncSees, SyncWrote, Rows, Rested

LEMMA MarkHeals == ASSUME HealInv, MarkInitialized PROVE HealInv'
<1> USE DEF MarkInitialized, EndSync, readers, mysql
<1>1. TypeOK' BY DEF HealInv, TypeOK, NoRows
<1>2. RebuildHeals'
  <2> SUFFICES ASSUME ~flushed, NEW e \in clean PROVE z["user"][e] = 1 /\ z["guild"][e] = 1
    BY DEF RebuildHeals
  <2>1. \A b \in Board : MemberOf(b, e) \notin todo[b] BY DEF NoRows
  <2> QED BY <2>1 DEF HealInv, Board
<1> QED BY <1>1, <1>2 DEF HealInv, AtRest

LEMMA AbortHeals == ASSUME HealInv, AbortSync PROVE HealInv'
<1> USE DEF AbortSync, EndSync, readers, mysql
<1>1. TypeOK' BY DEF HealInv, TypeOK, NoRows
<1> QED BY <1>1 DEF HealInv, RebuildHeals, AtRest

LEMMA HealInvInit == Init => HealInv
<1> SUFFICES ASSUME Init PROVE HealInv
  OBVIOUS
<1>1. TypeOK
  <2>1. [e \in Event |-> 0] \in [Event -> Nat] OBVIOUS
  <2>2. NoRows \in [Board -> SUBSET Event] BY DEF NoRows
  <2>3. NoRows \in [Board -> SUBSET (User \cup Guild)] BY DEF NoRows
  <2> QED BY <2>1, <2>2, <2>3 DEF Init, TypeOK
<1>2. \A b \in Board : inFlight[b] = {} BY DEF Init, NoRows
<1> QED BY <1>1, <1>2 DEF Init, HealInv, RebuildHeals

LEMMA HealInvNext == HealInv /\ [Next]_vars => HealInv'
<1> SUFFICES ASSUME HealInv, [Next]_vars PROVE HealInv'
  OBVIOUS
<1>1. CASE UNCHANGED vars
  <2> USE <1>1 DEF vars
  <2>1. TypeOK' BY DEF HealInv, TypeOK
  <2>2. Rows' BY DEF HealInv, Rows
  <2>3. AtRest \subseteq AtRest' BY DEF AtRest
  <2> QED BY <2>1, <2>2, <2>3, QuietStep
<1>2. CASE Next
  BY <1>2, AddUserPointsHeals, SettleHeals, PipelineLostHeals, ZIncrByHeals, FlushHeals,
     SnapshotHeals, MarkHeals, AbortHeals, SetScoreHeals, ReadHeals DEF Next
<1> QED BY <1>1, <1>2

\* The inductive invariant of the rebuild holds in every reachable state.
THEOREM HealInductive == Spec => []HealInv
BY HealInvInit, HealInvNext, PTL DEF Spec

\* A successful rebuild leaves every event at rest counted exactly once in both rankings,
\* until the next loss of Redis, under any interleaving with requests, worker and readers.
THEOREM RebuildHealsHolds == Spec => []RebuildHeals
BY HealInductive, PTL DEF HealInv
=============================================================================

------------------------- MODULE TransactionsProofs -------------------------
(***************************************************************************)
(* For any number of users, requests, workers and inputs: no gem is lost   *)
(* or spent twice, no answer is wrong, users own what the histories list,  *)
(* requests draw by weight, and transactions never wait in a circle.  The  *)
(* argument is the row lock: what a transaction computed from a row is     *)
(* still true of it at the commit, and rows are locked in an order.        *)
(***************************************************************************)
EXTENDS Transactions, TLAPS, FunctionTheorems, FiniteSetTheorems

\* BalanceFresh and TotalFresh for one transaction.
BalanceOf(t) ==
  LET m == mine[t]
      locked == XLock(<<"users", m.user>>) \in held[t]
  IN /\ stage[t] \in {"new", "user", "commit", "done"}
     /\ stage[t] = "user" =>
          /\ m.amount \in Nat
          /\ todo[t] = <<XLock(<<"users", m.user>>)>> \/ (todo[t] = <<>> /\ locked)
     /\ stage[t] = "commit" =>
          /\ locked /\ m.user \in User
          /\ m.result >= 0 /\ m.result = gems[m.user] - GemCostFor(m.amount)
          /\ IsSequence(m.drawn) /\ Len(m.drawn) = m.amount

TotalOf(t) ==
  LET m == mine[t]
      row == XLock(<<"user_points", m.user>>)
  IN /\ stage[t] \in {"new", "increment", "commit", "done"}
     /\ stage[t] = "increment" =>
          /\ m.user \in User
          /\ \/ todo[t] \in {<<SLock(<<"users", m.user>>), row>>, <<row>>}
             \/ todo[t] = <<>> /\ row \in held[t]
     /\ stage[t] = "commit" =>
          /\ m.user \in User /\ row \in held[t] /\ todo[t] = <<>>
          /\ m.result \in TotalRead(m)

LEMMA PerTransaction ==
  /\ BalanceFresh <=> \A t \in Multi : BalanceOf(t)
  /\ TotalFresh <=> \A t \in Add : TotalOf(t)
BY DEF BalanceFresh, BalanceOf, TotalFresh, TotalOf

\* Nothing of a transaction changes.
Same(o) ==
  stage'[o] = stage[o] /\ todo'[o] = todo[o] /\ held'[o] = held[o] /\ mine'[o] = mine[o]

LEMMA BalanceKept ==
  ASSUME NEW o, BalanceOf(o), Same(o),
         stage[o] = "commit" => gems'[mine[o].user] = gems[mine[o].user]
  PROVE  BalanceOf(o)'
BY DEF BalanceOf, Same

LEMMA TotalKept ==
  ASSUME NEW o, TotalOf(o), Same(o),
         stage[o] = "commit" =>
           /\ points'[mine[o].user] = points[mine[o].user]
           /\ mine[o].user \in scored' <=> mine[o].user \in scored
  PROVE  TotalOf(o)'
BY DEF TotalOf, TotalRead, WritesRow, Same

\* A transaction that goes on to other statements, and one that ends.
LEMMA EnterFrame ==
  ASSUME TypeOK, NEW t \in Tx, NEW s, NEW locks, NEW m, Enter(t, s, locks, m)
  PROVE  /\ stage'[t] = s /\ todo'[t] = locks /\ mine'[t] = m /\ held' = held
         /\ \A o \in Tx \ {t} : Same(o)
         /\ DOMAIN stage' = Tx /\ DOMAIN todo' = Tx /\ DOMAIN held' = Tx /\ DOMAIN mine' = Tx
BY DEF TypeOK, Enter, Same

LEMMA ReplyFrame ==
  ASSUME TypeOK, NEW t \in Tx, NEW code, NEW value, Reply(t, code, value)
  PROVE  /\ stage'[t] = "done" /\ mine'[t] = Nothing /\ held'[t] = {}
         /\ \A o \in Tx \ {t} : Same(o)
         /\ DOMAIN stage' = Tx /\ DOMAIN todo' = Tx /\ DOMAIN held' = Tx /\ DOMAIN mine' = Tx
BY DEF TypeOK, Reply, Same

LEMMA TypeOfMine ==
  ASSUME TypeOK, NEW t \in Tx, \A o \in Tx \ {t} : Same(o),
         DOMAIN stage' = Tx, DOMAIN todo' = Tx, DOMAIN held' = Tx, DOMAIN mine' = Tx,
         DOMAIN mine'[t] = DOMAIN Nothing, mine'[t].user \in Nat, mine'[t].amount \in Int,
         mine'[t].result \in Int, mine'[t].seen \subseteq Int,
         start' \in [User -> Nat], gems' \in [User -> Int], points' \in [User -> Int],
         scored' \subseteq User, DOMAIN hist' = User, \A u \in User : IsSequence(hist'[u])
  PROVE  TypeOK'
BY DEF TypeOK, Same, Nothing, IsSequence

LEMMA LocksKept ==
  ASSUME LocksCompatible, \A o \in Tx : held'[o] \subseteq held[o]
  PROVE  LocksCompatible'
BY DEF LocksCompatible, Conflict

\* A step of t that changes no row.
LEMMA QuietStep ==
  ASSUME IndInv, NEW t \in Tx, UNCHANGED data, \A o \in Tx \ {t} : Same(o),
         DOMAIN stage' = Tx, DOMAIN todo' = Tx, DOMAIN held' = Tx, DOMAIN mine' = Tx,
         DOMAIN mine'[t] = DOMAIN Nothing, mine'[t].user \in Nat, mine'[t].amount \in Int,
         mine'[t].result \in Int, mine'[t].seen \subseteq Int,
         LocksCompatible', t \in Multi => BalanceOf(t)', t \in Add => TotalOf(t)'
  PROVE  IndInv'
<1>1. TypeOK' BY TypeOfMine DEF IndInv, TypeOK, data
<1>2. \A o \in Multi : BalanceOf(o)'
  BY PerTransaction, BalanceKept DEF IndInv, data, Tx
<1>3. \A o \in Add : TotalOf(o)'
  BY PerTransaction, TotalKept DEF IndInv, data, Tx
<1>4. GemsConserved' BY DEF IndInv, GemsConserved, data
<1>5. BalanceFresh' BY <1>2 DEF BalanceFresh, BalanceOf
<1>6. TotalFresh' BY <1>3 DEF TotalFresh, TotalOf
<1> QED BY <1>1, <1>4, <1>5, <1>6 DEF IndInv

-----------------------------------------------------------------------------
(* Steps that change no row.                                               *)

LEMMA RefuseStep ==
  ASSUME IndInv, NEW t \in Tx, NEW code, EndWith(t, code) PROVE IndInv'
<1>1. Reply(t, code, 0) /\ UNCHANGED data BY DEF EndWith
<1>2. LocksCompatible' BY <1>1, ReplyFrame, LocksKept DEF IndInv, Same
<1>3. t \in Multi => BalanceOf(t)' BY <1>1, ReplyFrame DEF IndInv, BalanceOf
<1>4. t \in Add => TotalOf(t)' BY <1>1, ReplyFrame DEF IndInv, TotalOf
<1>5. /\ mine'[t].user \in Nat /\ mine'[t].amount \in Int
      /\ mine'[t].result \in Int /\ mine'[t].seen \subseteq Int
  BY <1>1, ReplyFrame DEF IndInv, Nothing
<1> QED BY <1>1, <1>2, <1>3, <1>4, <1>5, ReplyFrame, QuietStep DEF IndInv

\* Going on to statements that need more locks.
LEMMA EnterStep ==
  ASSUME IndInv, NEW t \in Tx, NEW s, NEW locks, NEW m, Enter(t, s, locks, m), UNCHANGED data,
         DOMAIN m = DOMAIN Nothing, m.user \in Nat, m.amount \in Int, m.result \in Int,
         m.seen \subseteq Int,
         t \in Multi => BalanceOf(t)', t \in Add => TotalOf(t)'
  PROVE  IndInv'
<1>1. LocksCompatible' BY EnterFrame, LocksKept DEF IndInv
<1> QED BY <1>1, EnterFrame, QuietStep DEF IndInv

LEMMA NotEmpty == \A a : <<a>> # <<>>
OBVIOUS

LEMMA HeadTail == ASSUME NEW a, NEW b PROVE
  /\ Head(<<a>>) = a /\ Tail(<<a>>) = <<>>
  /\ Head(<<a, b>>) = a /\ Tail(<<a, b>>) = <<b>>
OBVIOUS

\* The lock that is granted is compatible with all others.
LEMMA GrantStep ==
  ASSUME IndInv, NEW t \in Tx, GrantLock(t) PROVE IndInv'
<1> USE DEF IndInv
<1>1. /\ stage' = stage /\ mine' = mine /\ UNCHANGED data
      /\ held'[t] = held[t] \cup {Head(todo[t])} /\ todo'[t] = Tail(todo[t])
      /\ \A o \in Tx \ {t} : Same(o)
      /\ DOMAIN todo' = Tx /\ DOMAIN held' = Tx
  BY DEF GrantLock, TypeOK, Same
<1>2. \A o \in Tx \ {t} : \A l \in held[o] : ~Conflict(l, Head(todo[t]))
  BY DEF GrantLock
<1>3. LocksCompatible'
  BY <1>1, <1>2 DEF LocksCompatible, Same, Conflict
<1>4. ASSUME t \in Multi PROVE BalanceOf(t)'
  <2>1. BalanceOf(t) BY <1>4, PerTransaction
  <2>2. CASE stage[t] = "user"
    <3>1. todo[t] = <<XLock(<<"users", mine[t].user>>)>> BY <2>1, <2>2 DEF BalanceOf, GrantLock
    <3>2. Head(todo[t]) = XLock(<<"users", mine[t].user>>) /\ Tail(todo[t]) = <<>> BY <3>1
    <3> QED BY <1>1, <2>1, <2>2, <3>2 DEF BalanceOf
  <2>3. CASE stage[t] # "user"
    BY <1>1, <2>1, <2>3 DEF BalanceOf, data
  <2> QED BY <2>2, <2>3
<1>5. ASSUME t \in Add PROVE TotalOf(t)'
  <2> DEFINE row == XLock(<<"user_points", mine[t].user>>)
             user == SLock(<<"users", mine[t].user>>)
  <2>1. TotalOf(t) BY <1>5, PerTransaction
  <2>2. CASE stage[t] = "increment"
    <3>1. todo[t] = <<user, row>> \/ todo[t] = <<row>> BY <2>1, <2>2 DEF TotalOf, GrantLock
    <3>2. \/ Tail(todo[t]) = <<row>>
          \/ Head(todo[t]) = row /\ Tail(todo[t]) = <<>>
      <4> HIDE DEF row, user
      <4>1. CASE todo[t] = <<user, row>>
        <5>1. Tail(<<user, row>>) = <<row>> BY HeadTail, Zenon
        <5> QED BY <4>1, <5>1, Zenon
      <4>2. CASE todo[t] = <<row>>
        <5>1. Head(<<row>>) = row /\ Tail(<<row>>) = <<>> BY HeadTail, Zenon
        <5> QED BY <4>2, <5>1, Zenon
      <4> QED BY <3>1, <4>1, <4>2, Zenon
    <3> QED BY <1>1, <2>1, <2>2, <3>2 DEF TotalOf, row
  <2>3. CASE stage[t] # "increment"
    <3>1. stage[t] = "commit" => todo[t] = <<>> BY <2>1 DEF TotalOf
    <3> QED BY <1>1, <2>1, <2>3, <3>1 DEF TotalOf, data, GrantLock
  <2> QED BY <2>2, <2>3
<1>6. DOMAIN mine'[t] = DOMAIN Nothing /\ mine'[t].user \in Nat
      /\ mine'[t].amount \in Int /\ mine'[t].result \in Int /\ mine'[t].seen \subseteq Int
      /\ DOMAIN stage' = Tx /\ DOMAIN mine' = Tx
  BY <1>1 DEF TypeOK
<1> QED BY <1>1, <1>3, <1>4, <1>5, <1>6, QuietStep

LEMMA DisjointTx == ASSUME NEW t \in Tx PROVE
  /\ t \in Multi => t \notin Add
  /\ t \in Batch => t \notin Multi /\ t \notin Add
BY TxAssumption DEF Tx

LEMMA RefuseMultiStep ==
  ASSUME IndInv, NEW t \in Multi, NEW q \in MultiInput, NEW items \in Masters,
         RefuseMulti(t, q, items)
  PROVE  IndInv'
BY RefuseStep DEF RefuseMulti, Tx

LEMMA RefuseDrawStep ==
  ASSUME IndInv, NEW t \in Multi, RefuseDraw(t) PROVE IndInv'
BY RefuseStep DEF RefuseDraw, Tx

LEMMA BeginMultiStep ==
  ASSUME IndInv, NEW t \in Multi, NEW q \in MultiInput, NEW items \in Masters,
         BeginMulti(t, q, items)
  PROVE  IndInv'
<1> DEFINE m == [Nothing EXCEPT !.user = q.user, !.amount = q.pulls, !.items = items]
<1>1. t \in Tx /\ t \notin Add BY DisjointTx DEF Tx
<1>2. q.user \in Nat /\ q.pulls \in Nat BY InputAssumption DEF BeginMulti, IsValidPullCount
<1>3. Enter(t, "user", <<XLock(<<"users", q.user>>)>>, m) /\ UNCHANGED data
  BY DEF BeginMulti, UserForUpdate
<1>4. DOMAIN m = DOMAIN Nothing /\ m.user = q.user /\ m.amount = q.pulls /\ m.result = 0
      /\ m.seen = {}
  BY DEF Nothing
<1> HIDE DEF m
<1>5. BalanceOf(t)' BY <1>1, <1>2, <1>3, <1>4, EnterFrame DEF BalanceOf, IndInv
<1> QED BY <1>1, <1>2, <1>3, <1>4, <1>5, EnterStep

\* The new balance is computed under the lock of the user row, from enough gems.
LEMMA DrawStep ==
  ASSUME IndInv, NEW t \in Multi, Draw(t) PROVE IndInv'
<1>1. t \in Tx /\ t \notin Add BY DisjointTx DEF Tx
<1> DEFINE u == mine[t].user
           n == mine[t].amount
<1>2. PICK r \in [1 .. n -> 0 .. TotalWeight(mine[t].items) - 1] :
        LET drawn == [k \in 1 .. n |-> Pick(mine[t].items, r[k])]
        IN Enter(t, "commit", ItemRows(u, drawn),
                 [mine[t] EXCEPT !.items = <<>>, !.drawn = drawn, !.result = gems[u] - GemCostFor(n)])
  BY DEF Draw
<1> DEFINE drawn == [k \in 1 .. n |-> Pick(mine[t].items, r[k])]
           m == [mine[t] EXCEPT !.items = <<>>, !.drawn = drawn, !.result = gems[u] - GemCostFor(n)]
<1>3. Enter(t, "commit", ItemRows(u, drawn), m) /\ UNCHANGED data BY <1>2 DEF Draw
<1>4. n \in Nat /\ u \in User /\ gems[u] \in Int /\ gems[u] >= GemCostFor(n)
  BY PerTransaction DEF IndInv, BalanceOf, Draw, At, TypeOK, HasEnoughGemsFor
<1>5. XLock(<<"users", u>>) \in held[t]
  <2>1. BalanceOf(t) /\ stage[t] = "user" /\ todo[t] = <<>> BY PerTransaction DEF IndInv, Draw, At
  <2> QED BY <2>1, NotEmpty DEF BalanceOf
<1>6. IsSequence(drawn) /\ Len(drawn) = n BY <1>4 DEF IsSequence
<1>7. DOMAIN m = DOMAIN Nothing /\ m.user = u /\ m.amount = n /\ m.drawn = drawn
      /\ m.result = gems[u] - GemCostFor(n) /\ m.seen \subseteq Int
  BY <1>1 DEF IndInv, TypeOK, Nothing
<1>8. u \in Nat BY <1>1 DEF IndInv, TypeOK
<1> HIDE DEF m, drawn, u, n
<1>9. /\ stage'[t] = "commit" /\ mine'[t] = m /\ held' = held /\ gems' = gems
  BY <1>1, <1>3, EnterFrame DEF IndInv, data
<1>10. m.result \in Int /\ m.result >= 0 BY <1>4, <1>7 DEF GemCostFor
<1>11. BalanceOf(t)' BY <1>4, <1>5, <1>6, <1>7, <1>9, <1>10 DEF BalanceOf, IsSequence
<1> QED BY <1>1, <1>3, <1>4, <1>7, <1>8, <1>10, <1>11, EnterStep, SMTT(30)

LEMMA RefuseAddStep ==
  ASSUME IndInv, NEW t \in Add, NEW q \in AddInput, RefuseAdd(t, q) PROVE IndInv'
BY RefuseStep DEF RefuseAdd, Tx

LEMMA BeginAddStep ==
  ASSUME IndInv, NEW t \in Add, NEW q \in AddInput, BeginAdd(t, q) PROVE IndInv'
<1> DEFINE read == IF q.user \in scored THEN {points[q.user]} ELSE {}
           m == [Nothing EXCEPT !.user = q.user, !.amount = q.points, !.seen = read]
           locks == <<SLock(<<"users", q.user>>), XLock(<<"user_points", q.user>>)>>
<1>1. t \in Tx /\ t \notin Multi BY DisjointTx DEF Tx
<1>2. q.user \in Nat /\ q.points \in Int /\ q.user \in User BY InputAssumption DEF BeginAdd
<1>3. Enter(t, "increment", locks, m) /\ UNCHANGED data BY DEF BeginAdd
<1>4. DOMAIN m = DOMAIN Nothing /\ m.user = q.user /\ m.amount = q.points /\ m.result = 0
      /\ m.seen = read
  BY DEF Nothing
<1>r. read \subseteq Int BY <1>2 DEF IndInv, TypeOK
<1> HIDE DEF m, locks, read
<1>5. stage'[t] = "increment" /\ mine'[t] = m /\ todo'[t] = locks
  BY <1>1, <1>3, EnterFrame DEF IndInv
<1>6. TotalOf(t)' BY <1>2, <1>4, <1>5 DEF TotalOf, locks
<1>7. m.seen \subseteq Int BY <1>4, <1>r
<1> QED BY <1>1, <1>2, <1>3, <1>4, <1>6, <1>7, EnterStep

LEMMA FindNoRowStep ==
  ASSUME IndInv, NEW t \in Add, FindNoRow(t) PROVE IndInv'
BY RefuseStep DEF FindNoRow, Tx

\* The total is read under the lock of the row of the points.
LEMMA ReadBackStep ==
  ASSUME IndInv, NEW t \in Add, ReadBack(t) PROVE IndInv'
<1> USE DEF IndInv
<1>1. t \in Tx /\ t \notin Multi BY DisjointTx DEF Tx
<1>t. PICK total \in TotalRead(mine[t]) : mine' = [mine EXCEPT ![t].result = total]
  BY DEF ReadBack
<1>2. /\ stage'[t] = "commit" /\ todo' = todo /\ held' = held /\ UNCHANGED data
      /\ DOMAIN mine'[t] = DOMAIN Nothing /\ mine'[t].user = mine[t].user
      /\ mine'[t].amount = mine[t].amount /\ mine'[t].seen = mine[t].seen
      /\ mine'[t].result = total
      /\ \A o \in Tx \ {t} : Same(o)
      /\ DOMAIN stage' = Tx /\ DOMAIN mine' = Tx
  BY <1>1, <1>t DEF ReadBack, TypeOK, Nothing, Same
<1>3. TotalOf(t) /\ stage[t] = "increment" /\ todo[t] = <<>>
  BY PerTransaction DEF ReadBack, At
<1>4. mine[t].user \in User /\ XLock(<<"user_points", mine[t].user>>) \in held[t]
  <2>1. \A a, b : <<a, b>> # <<>> OBVIOUS
  <2> QED BY <1>3, <2>1, NotEmpty DEF TotalOf
<1>5. TotalOf(t)'
  <2>1. mine'[t].result \in TotalRead(mine[t])
        /\ points' = points /\ scored' = scored
    BY <1>t, <1>2 DEF data
  <2>2. mine'[t].result \in TotalRead(mine[t])'
    BY <1>2, <2>1 DEF TotalRead, WritesRow
  <2> QED BY <1>2, <1>3, <1>4, <2>2 DEF TotalOf
<1>6. LocksCompatible' BY <1>2, LocksKept
<1>7. /\ mine'[t].user \in Nat /\ mine'[t].amount \in Int
      /\ mine'[t].result \in Int /\ mine'[t].seen \subseteq Int
  BY <1>1, <1>t, <1>2, <1>4 DEF TypeOK, TotalRead
<1>8. DOMAIN todo' = Tx /\ DOMAIN held' = Tx BY <1>2 DEF TypeOK
<1> QED BY <1>1, <1>2, <1>5, <1>6, <1>7, <1>8, QuietStep

LEMMA BeginBatchStep ==
  ASSUME IndInv, NEW t \in Batch, NEW events \in BatchInput, BeginBatch(t, events) PROVE IndInv'
<1>1. t \in Tx /\ t \notin Multi /\ t \notin Add BY DisjointTx DEF Tx
<1>2. DOMAIN Nothing = DOMAIN Nothing /\ Nothing.user = 0 /\ Nothing.amount = 0 /\ Nothing.result = 0
      /\ Nothing.seen = {}
  BY DEF Nothing
<1> QED BY <1>1, <1>2, EnterStep DEF BeginBatch

-----------------------------------------------------------------------------
(* Commits.                                                                *)

LEMMA SeqIsSequence == ASSUME NEW A, NEW q \in Seq(A) PROVE IsSequence(q)
BY DEF IsSequence

LEMMA LengthAdds ==
  ASSUME NEW p, IsSequence(p), NEW q, IsSequence(q)
  PROVE  IsSequence(p \o q) /\ Len(p \o q) = Len(p) + Len(q)
<1> DEFINE A == {p[k] : k \in 1 .. Len(p)} \cup {q[k] : k \in 1 .. Len(q)}
<1>1. p \in Seq(A) /\ q \in Seq(A) BY DEF IsSequence
<1> HIDE DEF A
<1>2. p \o q \in Seq(A) /\ Len(p \o q) = Len(p) + Len(q) BY <1>1
<1> QED BY <1>2, SeqIsSequence

\* Locks of other transactions on the rows that t has locked.
LEMMA Exclusive ==
  ASSUME LocksCompatible, NEW t \in Tx, NEW o \in Tx \ {t}, NEW row,
         XLock(row) \in held[t], NEW row2, XLock(row2) \in held[o]
  PROVE  row2 # row
BY DEF LocksCompatible, Conflict, XLock

LEMMA CommitMultiStep ==
  ASSUME IndInv, NEW t \in Multi, CommitMulti(t) PROVE IndInv'
<1> USE DEF IndInv
<1> DEFINE u == mine[t].user
<1>1. t \in Tx /\ t \notin Add BY DisjointTx DEF Tx
<1>2. PICK code \in Told : Reply(t, code, mine[t].result) BY DEF CommitMulti
<1>3. /\ gems' = [gems EXCEPT ![u] = mine[t].result]
      /\ hist' = [hist EXCEPT ![u] = @ \o mine[t].drawn]
      /\ start' = start /\ points' = points /\ scored' = scored
  BY DEF CommitMulti
<1>4. BalanceOf(t) /\ stage[t] = "commit" BY PerTransaction DEF CommitMulti, At
<1>5. /\ XLock(<<"users", u>>) \in held[t] /\ u \in User
      /\ mine[t].result >= 0 /\ mine[t].result = gems[u] - GemCostFor(mine[t].amount)
      /\ IsSequence(mine[t].drawn) /\ Len(mine[t].drawn) = mine[t].amount
      /\ mine[t].result \in Int /\ mine[t].amount \in Int
  BY <1>1, <1>4 DEF BalanceOf, TypeOK
<1>6. IsSequence(hist[u] \o mine[t].drawn)
      /\ Len(hist[u] \o mine[t].drawn) = Len(hist[u]) + mine[t].amount
  BY <1>5, LengthAdds DEF TypeOK
<1>7. GemsConserved'
  <2> SUFFICES ASSUME NEW v \in User PROVE (gems[v] >= 0 /\ gems[v] + 100 * Len(hist[v]) = start[v])'
    BY DEF GemsConserved
  <2>1. CASE v = u
    <3>1. gems'[v] = mine[t].result /\ Len(hist'[v]) = Len(hist[u]) + mine[t].amount
      BY <1>3, <1>5, <1>6, <2>1 DEF TypeOK
    <3>2. gems[u] + 100 * Len(hist[u]) = start[u] /\ gems[u] \in Int /\ Len(hist[u]) \in Nat
      BY <1>5 DEF GemsConserved, TypeOK, IsSequence
    <3>3. gems'[v] = gems[u] - 100 * mine[t].amount /\ gems'[v] >= 0
      BY <1>5, <3>1 DEF GemCostFor
    <3>4. (gems[u] - 100 * mine[t].amount) + 100 * (Len(hist[u]) + mine[t].amount) = start[u]
      <4> DEFINE g == gems[u]
                 h == Len(hist[u])
                 n == mine[t].amount
      <4>1. g \in Int /\ h \in Nat /\ n \in Int /\ g + 100 * h = start[u] BY <1>5, <3>2
      <4> HIDE DEF g, h, n
      <4>2. (g - 100 * n) + 100 * (h + n) = start[u] BY <4>1
      <4> QED BY <4>2 DEF g, h, n
    <3>5. start'[v] = start[u] BY <1>3, <2>1
    <3> HIDE DEF u
    <3> QED BY <3>1, <3>3, <3>4, <3>5
  <2>2. CASE v # u
    BY <1>3, <2>2 DEF GemsConserved, TypeOK
  <2> QED BY <2>1, <2>2
<1>8. /\ stage'[t] = "done" /\ mine'[t] = Nothing /\ held'[t] = {}
      /\ \A o \in Tx \ {t} : Same(o)
      /\ DOMAIN stage' = Tx /\ DOMAIN todo' = Tx /\ DOMAIN held' = Tx /\ DOMAIN mine' = Tx
  BY <1>1, <1>2, ReplyFrame
<1>9. LocksCompatible' BY <1>8, LocksKept DEF Same
<1>10. ASSUME NEW o \in Multi PROVE BalanceOf(o)'
  <2>1. CASE o = t BY <1>8, <2>1 DEF BalanceOf
  <2>2. CASE o # t
    <3>1. BalanceOf(o) /\ o \in Tx \ {t} /\ Same(o) BY <1>8, <2>2, PerTransaction DEF Tx
    <3>2. ASSUME stage[o] = "commit" PROVE gems'[mine[o].user] = gems[mine[o].user]
      <4>1. XLock(<<"users", mine[o].user>>) \in held[o] /\ mine[o].user \in User
        BY <3>1, <3>2 DEF BalanceOf
      <4>2. <<"users", mine[o].user>> # <<"users", u>>
        BY <1>1, <1>5, <3>1, <4>1, Exclusive
      <4> QED BY <1>3, <4>1, <4>2 DEF TypeOK
    <3> QED BY <3>1, <3>2, BalanceKept
  <2> QED BY <2>1, <2>2
<1>11. \A o \in Add : TotalOf(o)'
  BY <1>1, <1>3, <1>8, PerTransaction, TotalKept DEF Tx
<1>12. BalanceFresh' /\ TotalFresh'
  BY <1>10, <1>11 DEF BalanceFresh, BalanceOf, TotalFresh, TotalOf
<1>13. TypeOK'
  <2>1. gems' \in [User -> Int] /\ start' \in [User -> Nat] /\ points' \in [User -> Int]
        /\ DOMAIN hist' = User /\ scored' \subseteq User
    BY <1>3, <1>5, SMTT(30) DEF TypeOK
  <2>2. \A v \in User : IsSequence(hist'[v])
    <3> TAKE v \in User
    <3>1. hist'[v] = IF v = u THEN hist[u] \o mine[t].drawn ELSE hist[v] BY <1>3 DEF TypeOK
    <3>2. IsSequence(hist[v]) BY DEF TypeOK
    <3> QED BY <1>6, <3>1, <3>2 DEF IsSequence
  <2>3. DOMAIN mine'[t] = DOMAIN Nothing /\ mine'[t].user \in Nat
        /\ mine'[t].amount \in Int /\ mine'[t].result \in Int /\ mine'[t].seen \subseteq Int
    BY <1>8 DEF Nothing
  <2> QED BY <1>1, <1>8, <2>1, <2>2, <2>3, TypeOfMine
<1> QED BY <1>7, <1>9, <1>12, <1>13

LEMMA CommitAddStep ==
  ASSUME IndInv, NEW t \in Add, CommitAdd(t) PROVE IndInv'
<1> USE DEF IndInv
<1> DEFINE u == mine[t].user
<1>1. t \in Tx /\ t \notin Multi BY DisjointTx DEF Tx
<1>2. PICK code \in Told : Reply(t, code, mine[t].result) BY DEF CommitAdd
<1>3. /\ points' = [points EXCEPT ![u] = @ + mine[t].amount]
      /\ scored' = scored \cup {u} /\ start' = start /\ gems' = gems /\ hist' = hist
  BY DEF CommitAdd
<1>4. TotalOf(t) /\ stage[t] = "commit" BY PerTransaction DEF CommitAdd, At
<1>5. XLock(<<"user_points", u>>) \in held[t] /\ u \in User /\ mine[t].amount \in Int
  BY <1>1, <1>4 DEF TotalOf, TypeOK
<1>6. /\ stage'[t] = "done" /\ mine'[t] = Nothing /\ held'[t] = {}
      /\ \A o \in Tx \ {t} : Same(o)
      /\ DOMAIN stage' = Tx /\ DOMAIN todo' = Tx /\ DOMAIN held' = Tx /\ DOMAIN mine' = Tx
  BY <1>1, <1>2, ReplyFrame
<1>7. LocksCompatible' BY <1>6, LocksKept DEF Same
<1>8. ASSUME NEW o \in Add PROVE TotalOf(o)'
  <2>1. CASE o = t BY <1>6, <2>1 DEF TotalOf
  <2>2. CASE o # t
    <3>1. TotalOf(o) /\ o \in Tx \ {t} /\ Same(o) BY <1>6, <2>2, PerTransaction DEF Tx
    <3>2. ASSUME stage[o] = "commit"
          PROVE  /\ points'[mine[o].user] = points[mine[o].user]
                 /\ mine[o].user \in scored' <=> mine[o].user \in scored
      <4>1. XLock(<<"user_points", mine[o].user>>) \in held[o] /\ mine[o].user \in User
        BY <3>1, <3>2 DEF TotalOf
      <4>2. <<"user_points", mine[o].user>> # <<"user_points", u>>
        BY <1>1, <1>5, <3>1, <4>1, Exclusive
      <4> QED BY <1>3, <4>1, <4>2 DEF TypeOK
    <3> QED BY <3>1, <3>2, TotalKept
  <2> QED BY <2>1, <2>2
<1>9. \A o \in Multi : BalanceOf(o)'
  BY <1>1, <1>3, <1>6, PerTransaction, BalanceKept DEF Tx
<1>10. BalanceFresh' /\ TotalFresh'
  BY <1>8, <1>9 DEF BalanceFresh, BalanceOf, TotalFresh, TotalOf
<1>11. GemsConserved' BY <1>3 DEF GemsConserved
<1>12. TypeOK'
  <2>1. gems' \in [User -> Int] /\ start' \in [User -> Nat] /\ points' \in [User -> Int]
        /\ DOMAIN hist' = User /\ scored' \subseteq User
    BY <1>3, <1>5 DEF TypeOK
  <2>2. \A v \in User : IsSequence(hist'[v]) BY <1>3 DEF TypeOK
  <2>3. DOMAIN mine'[t] = DOMAIN Nothing /\ mine'[t].user \in Nat
        /\ mine'[t].amount \in Int /\ mine'[t].result \in Int /\ mine'[t].seen \subseteq Int
    BY <1>6 DEF Nothing
  <2> QED BY <1>1, <1>6, <2>1, <2>2, <2>3, TypeOfMine
<1> QED BY <1>7, <1>10, <1>11, <1>12

-----------------------------------------------------------------------------
(* The theorems.                                                           *)

LEMMA IndInvInit == Init => IndInv
<1> SUFFICES ASSUME Init PROVE IndInv OBVIOUS
<1> USE DEF Init
<1>1. start \in [User -> Nat] BY DataAssumption
<1>2. \A u \in User : hist[u] = <<>> /\ IsSequence(hist[u]) /\ Len(hist[u]) = 0
  BY DEF IsSequence
<1>3. TypeOK BY <1>1, <1>2 DEF TypeOK, Nothing
<1>4. LocksCompatible BY DEF LocksCompatible
<1>5. BalanceFresh /\ TotalFresh BY DEF BalanceFresh, TotalFresh, Tx
<1>6. GemsConserved BY <1>1, <1>2 DEF GemsConserved
<1> QED BY <1>3, <1>4, <1>5, <1>6 DEF IndInv

LEMMA IndInvNext == IndInv /\ [Next]_vars => IndInv'
<1> SUFFICES ASSUME IndInv, [Next]_vars PROVE IndInv' OBVIOUS
<1>1. CASE \E t \in Multi : MultiNext(t)
  BY <1>1, RefuseMultiStep, BeginMultiStep, DrawStep, CommitMultiStep, RefuseDrawStep
     DEF MultiNext
<1>2. CASE \E t \in Add : AddNext(t)
  BY <1>2, RefuseAddStep, BeginAddStep, ReadBackStep, FindNoRowStep, CommitAddStep DEF AddNext
<1>3. CASE \E t \in Batch : BatchNext(t)
  <2>1. \A t \in Batch : CommitBatch(t) => IndInv' BY RefuseStep DEF CommitBatch, Tx
  <2> QED BY <1>3, <2>1, BeginBatchStep DEF BatchNext
<1>4. CASE \E t \in Tx : GrantLock(t) \/ Fail(t)
  BY <1>4, GrantStep, RefuseStep DEF Fail
<1>5. CASE UNCHANGED vars
  BY <1>5 DEF vars, IndInv, TypeOK, LocksCompatible, BalanceFresh, TotalFresh, TotalRead,
              WritesRow, GemsConserved
<1> QED BY <1>1, <1>2, <1>3, <1>4, <1>5 DEF Next, Terminated

\* The invariant behind the two theorems below: locks in conflict are never held
\* together, and what is computed from a locked row is true at the commit.
THEOREM LocksProtect == Spec => []IndInv
BY IndInvInit, IndInvNext, PTL DEF Spec

\* However many gacha requests of a user overlap, fail or commit unseen, every
\* draw is paid once and no balance gets negative (gacha.Multi).
THEOREM GemsConservedHolds == Spec => []GemsConserved
<1>1. IndInv => GemsConserved BY DEF IndInv
<1> QED BY <1>1, LocksProtect, PTL

LEMMA AnswerOf ==
  /\ \A o, code, value : Reply(o, code, value) => answer'.to = o /\ answer'.code = code
  /\ \A o, code : EndWith(o, code) => answer'.to = o /\ answer'.code = code
  /\ \A o, s, locks, m : Enter(o, s, locks, m) => answer'.code = "none"
BY DEF Reply, EndWith, Enter, NoAnswer

LEMMA MultiAnswer ==
  ASSUME NEW o, MultiNext(o), answer'.code = "ok" PROVE answer'.to = o /\ CommitMulti(o)
<1>1. ~RefuseDraw(o) BY AnswerOf DEF RefuseDraw
<1>2. ~Draw(o)
  <2> SUFFICES ASSUME Draw(o) PROVE FALSE OBVIOUS
  <2>1. PICK locks, m : Enter(o, "commit", locks, m) BY DEF Draw
  <2> QED BY <2>1, AnswerOf
<1>3. \A q, items : ~RefuseMulti(o, q, items) BY AnswerOf DEF RefuseMulti
<1>4. \A q, items : ~BeginMulti(o, q, items) BY AnswerOf DEF BeginMulti
<1>5. CommitMulti(o) BY <1>1, <1>2, <1>3, <1>4 DEF MultiNext
<1> QED BY <1>5, AnswerOf DEF CommitMulti

LEMMA AddAnswer ==
  ASSUME NEW o, AddNext(o), answer'.code = "ok" PROVE answer'.to = o /\ CommitAdd(o)
<1>1. ~ReadBack(o) BY DEF ReadBack, NoAnswer
<1>2. \A q : ~RefuseAdd(o, q) BY AnswerOf DEF RefuseAdd
<1>3. \A q : ~BeginAdd(o, q) BY AnswerOf DEF BeginAdd
<1>4. ~FindNoRow(o) BY AnswerOf DEF FindNoRow
<1>5. CommitAdd(o) BY <1>1, <1>2, <1>3, <1>4 DEF AddNext
<1> QED BY <1>5, AnswerOf DEF CommitAdd

\* Only a commit says "ok" to a gacha request or to a point addition.
LEMMA OkIsCommit ==
  ASSUME NEW t \in Multi \cup Add, stage[t] # "done", answer'.code = "ok", answer'.to = t,
         IndInv, Next
  PROVE  (t \in Multi /\ CommitMulti(t)) \/ (t \in Add /\ CommitAdd(t))
<1> USE DEF Reply, EndWith
<1>1. ASSUME NEW o \in Multi, MultiNext(o) PROVE t = o /\ CommitMulti(o)
  BY <1>1, MultiAnswer
<1>2. ASSUME NEW o \in Add, AddNext(o) PROVE t = o /\ CommitAdd(o)
  BY <1>2, AddAnswer
<1>3. ASSUME NEW o \in Batch, BatchNext(o) PROVE FALSE
  BY <1>3, TxAssumption DEF BatchNext, BeginBatch, CommitBatch, Enter, NoAnswer
<1>4. ASSUME NEW o \in Tx, GrantLock(o) \/ Fail(o) PROVE FALSE
  BY <1>4 DEF GrantLock, Fail, NoAnswer
<1>5. ~Terminated BY DEF Terminated, Tx
<1> QED BY <1>1, <1>2, <1>3, <1>4, <1>5 DEF Next

LEMMA AnswerStep ==
  ASSUME IndInv, Next, NEW t \in Multi \cup Add,
         stage[t] # "done", answer'.code = "ok", answer'.to = t
  PROVE  LET u == mine[t].user
         IN IF t \in Multi
            THEN answer'.value = gems'[u] /\ gems'[u] = gems[u] - GemCostFor(mine[t].amount)
            ELSE /\ points'[u] = points[u] + mine[t].amount
                 /\ \/ answer'.value = points'[u]
                    \/ mine[t].amount = 0 /\ u \in scored /\ answer'.value \in mine[t].seen
<1>1. CASE t \in Multi
  <2>1. CommitMulti(t) BY <1>1, OkIsCommit, TxAssumption
  <2>2. BalanceOf(t) /\ stage[t] = "commit" BY <1>1, <2>1, PerTransaction DEF CommitMulti, At, IndInv
  <2>3. mine[t].user \in User /\ mine[t].result = gems[mine[t].user] - GemCostFor(mine[t].amount)
    BY <2>2 DEF BalanceOf
  <2>4. gems' = [gems EXCEPT ![mine[t].user] = mine[t].result] /\ answer'.value = mine[t].result
    BY <2>1 DEF CommitMulti, Reply
  <2> QED BY <1>1, <2>3, <2>4 DEF IndInv, TypeOK
<1>2. CASE t \in Add
  <2>0. t \notin Multi BY <1>2, TxAssumption
  <2>1. CommitAdd(t) BY <1>2, <2>0, OkIsCommit
  <2>2. TotalOf(t) /\ stage[t] = "commit" BY <1>2, <2>1, PerTransaction DEF CommitAdd, At, IndInv
  <2>3. /\ mine[t].user \in User
        /\ \/ mine[t].result = points[mine[t].user] + mine[t].amount
           \/ mine[t].amount = 0 /\ mine[t].user \in scored /\ mine[t].result \in mine[t].seen
    BY <2>2 DEF TotalOf, TotalRead, WritesRow
  <2>4. points' = [points EXCEPT ![mine[t].user] = @ + mine[t].amount]
        /\ answer'.value = mine[t].result
    BY <2>1 DEF CommitAdd, Reply
  <2> QED BY <2>0, <2>3, <2>4 DEF IndInv, TypeOK
<1> QED BY <1>1, <1>2

\* The balance and the total that callers are told are those of the commit of
\* their own request (gacha.Multi, AddUserPoints with its read-back); who adds 0 points to a
\* total may be told the one of his snapshot.
THEOREM AnswersAreTrueHolds == Spec => AnswersAreTrue
<1> DEFINE True ==
      \A t \in Multi \cup Add :
        stage[t] # "done" /\ answer'.code = "ok" /\ answer'.to = t =>
          LET u == mine[t].user
          IN IF t \in Multi
             THEN answer'.value = gems'[u] /\ gems'[u] = gems[u] - GemCostFor(mine[t].amount)
             ELSE /\ points'[u] = points[u] + mine[t].amount
                  /\ \/ answer'.value = points'[u]
                     \/ mine[t].amount = 0 /\ u \in scored /\ answer'.value \in mine[t].seen
<1>1. IndInv /\ [Next]_vars => [True]_vars BY AnswerStep
<1> QED BY <1>1, LocksProtect, PTL DEF Spec, AnswersAreTrue

-----------------------------------------------------------------------------
(* What users own.                                                         *)

\* How often an item was drawn adds up over the requests that drew it.
LEMMA CountAdds ==
  ASSUME NEW p, IsSequence(p), NEW q, IsSequence(q), NEW i
  PROVE  Count(p \o q, i) = Count(p, i) + Count(q, i) /\ Count(q, i) \in Nat
<1> DEFINE n == Len(p)
           m == Len(q)
           A == {k \in 1 .. n : p[k] = i}
           B == {k \in 1 .. m : q[k] = i}
           C == {k \in (n + 1) .. (n + m) : (p \o q)[k] = i}
           shift == [k \in B |-> k + n]
<1>1. n \in Nat /\ m \in Nat /\ DOMAIN p = 1 .. n /\ DOMAIN q = 1 .. m BY DEF IsSequence
<1>2. /\ DOMAIN (p \o q) = 1 .. n + m
      /\ \A k \in 1 .. n : (p \o q)[k] = p[k]
      /\ \A k \in (n + 1) .. (n + m) : (p \o q)[k] = q[k - n]
  BY <1>1
<1>3. IsFiniteSet(A) /\ IsFiniteSet(B) /\ IsFiniteSet(C)
  <2>1. A \subseteq 1 .. n /\ B \subseteq 1 .. m /\ C \subseteq (n + 1) .. (n + m) OBVIOUS
  <2>2. IsFiniteSet(1 .. n) /\ IsFiniteSet(1 .. m) /\ IsFiniteSet((n + 1) .. (n + m))
    BY <1>1, FS_Interval
  <2> HIDE DEF A, B, C
  <2> QED BY <2>1, <2>2, FS_Subset
<1>4. Cardinality(C) = Cardinality(B)
  <2>1. shift \in Bijection(B, C)
    <3> HIDE DEF n, m
    <3>1. shift \in [B -> C] BY <1>1, <1>2
    <3>2. \A x, y \in B : shift[x] = shift[y] => x = y BY <1>1
    <3>3. \A z \in C : \E x \in B : shift[x] = z
      <4> TAKE z \in C
      <4>1. z - n \in B /\ shift[z - n] = z BY <1>1, <1>2
      <4> QED BY <4>1
    <3> HIDE DEF shift, B, C
    <3> QED BY <3>1, <3>2, <3>3, Fun_IsBij
  <2> HIDE DEF shift, B, C
  <2> QED BY <1>3, <2>1, FS_Bijection, Fun_ExistsBij
<1>5. {k \in DOMAIN (p \o q) : (p \o q)[k] = i} = A \cup C /\ A \cap C = {}
  <2> HIDE DEF n, m
  <2> QED BY <1>1, <1>2
<1>6. Cardinality(A \cup C) = Cardinality(A) + Cardinality(C)
  <2> HIDE DEF A, C
  <2>1. Cardinality(A \cup C) = Cardinality(A) + Cardinality(C) - Cardinality(A \cap C)
        /\ Cardinality(A \cap C) = 0 /\ Cardinality(A) \in Nat /\ Cardinality(C) \in Nat
    BY <1>3, <1>5, FS_Union, FS_EmptySet, FS_CardinalityType
  <2> QED BY <2>1
<1>7. Cardinality(B) \in Nat BY <1>3, FS_CardinalityType
<1> QED BY <1>1, <1>4, <1>5, <1>6, <1>7 DEF Count

\* What makes ItemsMatchHistory inductive: the counters are numbers, and the histories
\* are sequences and are only extended by what the request has drawn (in IndInv).
ItemsInv == IndInv /\ owned \in [User -> [Item -> Int]] /\ ItemsMatchHistory

LEMMA ItemsInvInit == Init => ItemsInv
<1> SUFFICES ASSUME Init PROVE ItemsInv OBVIOUS
<1>1. \A i : Count(<<>>, i) = 0
  <2>1. \A i : {k \in DOMAIN <<>> : <<>>[k] = i} = {} OBVIOUS
  <2> QED BY <2>1, FS_EmptySet DEF Count
<1> QED BY <1>1, IndInvInit DEF ItemsInv, Init, ItemsMatchHistory

\* The upsert adds to each counter as often as the histories gain the item.
LEMMA ItemsCommitStep ==
  ASSUME ItemsInv, NEW t \in Multi, CommitMulti(t)
  PROVE  owned' \in [User -> [Item -> Int]] /\ ItemsMatchHistory'
<1> DEFINE u == mine[t].user
           drawn == mine[t].drawn
<1>1. /\ u \in User /\ IsSequence(drawn) /\ \A v \in User : IsSequence(hist[v])
      /\ DOMAIN hist = User
  BY PerTransaction DEF ItemsInv, IndInv, BalanceOf, CommitMulti, At, TypeOK
<1>2. /\ owned' = [owned EXCEPT ![u] = UpsertUserItems(@, drawn)]
      /\ hist' = [hist EXCEPT ![u] = @ \o drawn]
  BY DEF CommitMulti
<1>3. owned \in [User -> [Item -> Int]] /\ ItemsMatchHistory BY DEF ItemsInv
<1> HIDE DEF u, drawn
<1>4. \A i \in Item : Count(hist[u] \o drawn, i) = owned[u][i] + Count(drawn, i)
                      /\ Count(drawn, i) \in Nat
  BY <1>1, <1>3, CountAdds DEF ItemsMatchHistory
<1>5. UpsertUserItems(owned[u], drawn) = [i \in Item |-> owned[u][i] + Count(drawn, i)]
  BY <1>1, <1>3 DEF UpsertUserItems
<1>6. owned' \in [User -> [Item -> Int]]
  <2>1. [i \in Item |-> owned[u][i] + Count(drawn, i)] \in [Item -> Int] BY <1>1, <1>3, <1>4
  <2> QED BY <1>2, <1>3, <1>5, <2>1
<1>7. ASSUME NEW v \in User, NEW i \in Item PROVE owned'[v][i] = Count(hist'[v], i)
  <2>1. CASE v = u BY <1>1, <1>2, <1>3, <1>4, <1>5, <2>1
  <2>2. CASE v # u BY <1>1, <1>2, <1>3, <2>2 DEF ItemsMatchHistory
  <2> QED BY <2>1, <2>2
<1> QED BY <1>6, <1>7 DEF ItemsMatchHistory, Count

\* Only the commit of a gacha request touches the inventory and the histories.
LEMMA ItemsUntouched ==
  ASSUME Next, \A t \in Multi : ~CommitMulti(t)
  PROVE  UNCHANGED <<owned, hist>>
<1>1. ASSUME NEW t \in Multi, MultiNext(t) PROVE UNCHANGED <<owned, hist>>
  BY <1>1 DEF MultiNext, RefuseMulti, BeginMulti, RefuseDraw, Draw, EndWith, data
<1>2. ASSUME NEW t \in Add, AddNext(t) PROVE UNCHANGED <<owned, hist>>
  BY <1>2 DEF AddNext, RefuseAdd, BeginAdd, ReadBack, FindNoRow, CommitAdd, EndWith, data
<1>3. ASSUME NEW t \in Batch, BatchNext(t) PROVE UNCHANGED <<owned, hist>>
  BY <1>3 DEF BatchNext, BeginBatch, CommitBatch, EndWith, data
<1>4. ASSUME NEW t \in Tx, GrantLock(t) \/ Fail(t) PROVE UNCHANGED <<owned, hist>>
  BY <1>4 DEF GrantLock, Fail, EndWith, data
<1> QED BY <1>1, <1>2, <1>3, <1>4, SMTT(30) DEF Next, Terminated, vars

LEMMA ItemsInvNext == ItemsInv /\ [Next]_vars => ItemsInv'
<1> SUFFICES ASSUME ItemsInv, [Next]_vars PROVE ItemsInv' OBVIOUS
<1>1. IndInv' BY IndInvNext DEF ItemsInv
<1>2. CASE \E t \in Multi : CommitMulti(t) BY <1>1, <1>2, ItemsCommitStep DEF ItemsInv
<1>3. CASE UNCHANGED <<owned, hist>>
  <2>1. ItemsMatchHistory' BY <1>3 DEF ItemsInv, ItemsMatchHistory, Count
  <2> QED BY <1>1, <1>3, <2>1 DEF ItemsInv
<1>4. CASE UNCHANGED vars BY <1>3, <1>4 DEF vars, data
<1> QED BY <1>2, <1>3, <1>4, ItemsUntouched

\* However many gacha requests of a user overlap or commit unseen, the inventory counts
\* what the histories list (aggregateByID and the upsert, InsertGachaHistories).
THEOREM ItemsMatchHistoryHolds == Spec => []ItemsMatchHistory
<1>1. ItemsInv => ItemsMatchHistory BY DEF ItemsInv
<1> QED BY <1>1, ItemsInvInit, ItemsInvNext, PTL DEF Spec

-----------------------------------------------------------------------------
(* Sequences, and the members of a finite set of numbers in order.         *)

LEMMA SequenceEnds ==
  ASSUME NEW q, IsSequence(q), q # <<>>
  PROVE  /\ Head(q) = q[1] /\ Len(q) \in Nat \ {0} /\ DOMAIN q = 1 .. Len(q)
         /\ IsSequence(Tail(q)) /\ Len(Tail(q)) = Len(q) - 1
         /\ \A k \in DOMAIN Tail(q) : Tail(q)[k] = q[k + 1] /\ k + 1 \in DOMAIN q
<1> DEFINE A == {q[k] : k \in 1 .. Len(q)}
<1>1. q \in Seq(A) BY DEF IsSequence
<1> HIDE DEF A
<1>2. Tail(q) \in Seq(A) BY <1>1
<1>3. IsSequence(Tail(q)) BY <1>2, SeqIsSequence
<1> QED BY <1>1, <1>2, <1>3

LEMMA Joined ==
  ASSUME NEW p, IsSequence(p), NEW q, IsSequence(q)
  PROVE  /\ IsSequence(p \o q) /\ DOMAIN (p \o q) = 1 .. Len(p) + Len(q)
         /\ Len(p \o q) = Len(p) + Len(q) /\ Len(p) \in Nat /\ Len(q) \in Nat
         /\ \A k \in 1 .. Len(p) : (p \o q)[k] = p[k]
         /\ \A k \in (Len(p) + 1) .. (Len(p) + Len(q)) : (p \o q)[k] = q[k - Len(p)]
<1> DEFINE A == {p[k] : k \in 1 .. Len(p)} \cup {q[k] : k \in 1 .. Len(q)}
<1>1. p \in Seq(A) /\ q \in Seq(A) BY DEF IsSequence
<1> HIDE DEF A
<1> QED BY <1>1, LengthAdds

\* The set of what a sequence lists is finite.
LEMMA ListedFinite ==
  ASSUME NEW q, IsSequence(q)
  PROVE  IsFiniteSet({q[k] : k \in DOMAIN q})
<1> DEFINE ids == {q[k] : k \in DOMAIN q}
           f == [k \in DOMAIN q |-> q[k]]
<1>1. f \in [DOMAIN q -> ids] /\ \A x \in ids : \E k \in DOMAIN q : f[k] = x OBVIOUS
<1>2. DOMAIN q = 1 .. Len(q) /\ Len(q) \in Nat BY DEF IsSequence
<1>3. IsFiniteSet(DOMAIN q) BY <1>2, FS_Interval
<1> HIDE DEF f, ids
<1>4. f \in Surjection(DOMAIN q, ids) BY <1>1, Fun_IsSurj
<1> QED BY <1>3, <1>4, FS_Surjection DEF ids

\* The numbers below x in a finite set say where x comes in ascending order.
Below(ids, x) == {y \in ids : y < x}
Rank(ids, x) == Cardinality(Below(ids, x))

LEMMA RankGrows ==
  ASSUME NEW ids \in SUBSET Int, IsFiniteSet(ids), NEW x \in ids
  PROVE  /\ Rank(ids, x) \in 0 .. Cardinality(ids) - 1
         /\ \A y \in ids : x < y => Rank(ids, x) < Rank(ids, y)
<1>0. \A T \in SUBSET ids : IsFiniteSet(T) /\ Cardinality(T) \in Nat
  BY FS_Subset, FS_CardinalityType
<1>1. \A S, T \in SUBSET ids : S \subseteq T /\ x \in T /\ x \notin S => Cardinality(S) < Cardinality(T)
  <2> TAKE S, T \in SUBSET ids
  <2> HAVE S \subseteq T /\ x \in T /\ x \notin S
  <2>1. Cardinality(S) <= Cardinality(T) /\ (Cardinality(T) = Cardinality(S) => T = S)
    BY <1>0, FS_Subset
  <2>2. Cardinality(S) \in Nat /\ Cardinality(T) \in Nat BY <1>0
  <2> QED BY <2>1, <2>2
<1>2. Below(ids, x) \in SUBSET ids /\ x \notin Below(ids, x) BY DEF Below
<1>3. Rank(ids, x) < Cardinality(ids) /\ Rank(ids, x) \in Nat /\ Cardinality(ids) \in Nat
  BY <1>0, <1>1, <1>2 DEF Rank
<1>4. ASSUME NEW y \in ids, x < y PROVE Rank(ids, x) < Rank(ids, y)
  <2>1. Below(ids, y) \in SUBSET ids /\ Below(ids, x) \subseteq Below(ids, y) /\ x \in Below(ids, y)
    <3>1. \A z \in ids : z \in Int OBVIOUS
    <3>2. \A z \in ids : z < x => z < y BY <1>4, <3>1
    <3> QED BY <1>4, <3>2 DEF Below
  <2> QED BY <1>1, <1>2, <2>1 DEF Rank
<1> QED BY <1>3, <1>4

\* Ascending lists the whole set, each member before the larger ones.
LEMMA AscendingSorts ==
  ASSUME NEW ids \in SUBSET Int, IsFiniteSet(ids)
  PROVE  LET a == Ascending(ids)
         IN /\ IsSequence(a) /\ Len(a) = Cardinality(ids)
            /\ \A k \in DOMAIN a : a[k] \in ids
            /\ \A x \in ids : \E k \in DOMAIN a : a[k] = x
            /\ \A j, k \in DOMAIN a : j < k => a[j] < a[k]
<1> DEFINE n == Cardinality(ids)
           a == Ascending(ids)
           f == [x \in ids |-> Rank(ids, x)]
<1>1. n \in Nat BY FS_CardinalityType
<1>2. a = [k \in 1 .. n |-> CHOOSE x \in ids : Rank(ids, x) = k - 1] BY DEF Ascending, Rank, Below
<1>3. f \in [ids -> 0 .. n - 1] BY RankGrows
<1>4. \A x, y \in ids : f[x] = f[y] => x = y
  <2> TAKE x, y \in ids
  <2> HAVE f[x] = f[y]
  <2>1. Rank(ids, x) = Rank(ids, y) /\ Rank(ids, x) \in Int /\ Rank(ids, y) \in Int BY RankGrows
  <2>2. ~(x < y) /\ ~(y < x) BY <2>1, RankGrows
  <2> QED BY <2>2
<1>5. IsFiniteSet(0 .. n - 1) /\ Cardinality(0 .. n - 1) = n BY <1>1, FS_Interval
<1> HIDE DEF f, n
<1>6. f \in Surjection(ids, 0 .. n - 1)
  BY <1>3, <1>4, <1>5, Fun_IsInj, FS_Injection DEF n
<1>7. \A k \in 0 .. n - 1 : \E x \in ids : Rank(ids, x) = k
  BY <1>6 DEF Surjection, f
<1>8. ASSUME NEW k \in 1 .. n PROVE a[k] \in ids /\ Rank(ids, a[k]) = k - 1
  <2>1. \E x \in ids : Rank(ids, x) = k - 1 BY <1>1, <1>7
  <2>2. a[k] = CHOOSE x \in ids : Rank(ids, x) = k - 1 BY <1>2
  <2> HIDE DEF a
  <2> QED BY <2>1, <2>2
<1>9. IsSequence(a) /\ Len(a) = n /\ DOMAIN a = 1 .. n BY <1>1, <1>2 DEF IsSequence
<1> HIDE DEF a
<1>10. ASSUME NEW x \in ids PROVE \E k \in 1 .. n : a[k] = x
  <2>1. Rank(ids, x) \in 0 .. n - 1 BY RankGrows DEF n
  <2>2. Rank(ids, x) + 1 \in 1 .. n BY <1>1, <2>1
  <2>3. a[Rank(ids, x) + 1] \in ids /\ Rank(ids, a[Rank(ids, x) + 1]) = Rank(ids, x) BY <1>8, <2>1, <2>2
  <2>4. a[Rank(ids, x) + 1] = x BY <1>4, <2>3 DEF f
  <2> QED BY <2>2, <2>4
<1>11. ASSUME NEW j \in 1 .. n, NEW k \in 1 .. n, j < k PROVE a[j] < a[k]
  <2>1. a[j] \in ids /\ a[k] \in ids /\ Rank(ids, a[j]) = j - 1 /\ Rank(ids, a[k]) = k - 1 BY <1>8
  <2>2. a[j] # a[k] BY <1>1, <1>11, <2>1
  <2>3. a[k] < a[j] => Rank(ids, a[k]) < Rank(ids, a[j]) BY <2>1, RankGrows
  <2>4. ~(a[k] < a[j]) BY <1>1, <1>11, <2>1, <2>3
  <2>5. a[j] \in Int /\ a[k] \in Int BY <2>1
  <2> QED BY <2>2, <2>4, <2>5
<1> QED BY <1>8, <1>9, <1>10, <1>11 DEF a, n

LEMMA LargestOf ==
  ASSUME NEW S \in SUBSET Int, IsFiniteSet(S), S # {}
  PROVE  \E x \in S : \A y \in S : y <= x
<1> DEFINE a == Ascending(S)
           n == Cardinality(S)
<1>1. /\ IsSequence(a) /\ Len(a) = n
      /\ \A k \in DOMAIN a : a[k] \in S
      /\ \A x \in S : \E k \in DOMAIN a : a[k] = x
      /\ \A j, k \in DOMAIN a : j < k => a[j] < a[k]
  BY AscendingSorts
<1>2. n \in Nat /\ n # 0 BY FS_CardinalityType, FS_EmptySet
<1> HIDE DEF a, n
<1>3. DOMAIN a = 1 .. n BY <1>1 DEF IsSequence
<1>4. n \in DOMAIN a BY <1>2, <1>3
<1>5. ASSUME NEW y \in S PROVE y <= a[n]
  <2>1. PICK k \in DOMAIN a : a[k] = y BY <1>1
  <2>2. k = n \/ k < n BY <1>2, <1>3
  <2>3. a[k] \in Int /\ a[n] \in Int BY <1>1, <1>4
  <2> QED BY <1>1, <1>4, <2>1, <2>2, <2>3
<1> QED BY <1>1, <1>4, <1>5

LEMMA SmallestOf ==
  ASSUME NEW n \in Nat, NEW S \in SUBSET (0 .. n), S # {}
  PROVE  \E x \in S : \A y \in S : x <= y
<1>1. S \in SUBSET Int /\ IsFiniteSet(S)
  <2>1. IsFiniteSet(0 .. n) BY FS_Interval
  <2>2. S \in SUBSET Int OBVIOUS
  <2>3. IsFiniteSet(S) BY <2>1, FS_Subset
  <2> QED BY <2>2, <2>3
<1> DEFINE a == Ascending(S)
           m == Cardinality(S)
<1>2. /\ IsSequence(a) /\ Len(a) = m
      /\ \A k \in DOMAIN a : a[k] \in S
      /\ \A x \in S : \E k \in DOMAIN a : a[k] = x
      /\ \A j, k \in DOMAIN a : j < k => a[j] < a[k]
  BY <1>1, AscendingSorts
<1>3. m \in Nat /\ m # 0 BY <1>1, FS_CardinalityType, FS_EmptySet
<1> HIDE DEF a, m
<1>4. DOMAIN a = 1 .. m /\ 1 \in DOMAIN a BY <1>2, <1>3 DEF IsSequence
<1>5. ASSUME NEW y \in S PROVE a[1] <= y
  <2>1. PICK k \in DOMAIN a : a[k] = y BY <1>2
  <2>2. k = 1 \/ 1 < k BY <1>3, <1>4
  <2>3. a[k] \in Int /\ a[1] \in Int BY <1>1, <1>2, <1>4
  <2> QED BY <1>2, <1>4, <2>1, <2>2, <2>3
<1> QED BY <1>2, <1>4, <1>5

-----------------------------------------------------------------------------
(* What a request draws.                                                   *)

\* What item k adds to the sum of the weights.
Gain(w, k) == IF w[k] > 0 THEN w[k] ELSE 0

IsAcc(f, w) ==
  f = [k \in 0 .. Len(w) |-> IF k = 0 THEN 0 ELSE IF w[k] > 0 THEN f[k - 1] + w[k] ELSE f[k - 1]]

\* f is the sum of the first n items.
Sums(f, w, n) == f \in [0 .. n -> Int] /\ f[0] = 0 /\ \A k \in 1 .. n : f[k] = f[k - 1] + Gain(w, k)

LEMMA SumsExist ==
  ASSUME NEW w \in Seq(Int) PROVE \E f : Sums(f, w, Len(w))
<1> DEFINE L == Len(w)
           Bad == {n \in 0 .. L : \A f : ~Sums(f, w, n)}
<1>1. L \in Nat /\ \A k \in 1 .. L : Gain(w, k) \in Int BY DEF Gain
<1> SUFFICES ASSUME Bad # {} PROVE FALSE
  <2> HIDE DEF L
  <2> QED BY <1>1 DEF L
<1> HIDE DEF L
<1>2. PICK n \in Bad : \A m \in Bad : n <= m
  <2>1. Bad \in SUBSET (0 .. L) OBVIOUS
  <2> HIDE DEF Bad
  <2> QED BY <1>1, <2>1, SmallestOf
<1>3. n # 0
  <2> SUFFICES ASSUME n = 0 PROVE FALSE OBVIOUS
  <2>1. Sums([k \in 0 .. 0 |-> 0], w, 0) BY DEF Sums
  <2> QED BY <1>2, <2>1
<1>4. n \in 1 .. L /\ n - 1 \in 0 .. L /\ n - 1 \notin Bad BY <1>1, <1>2, <1>3
<1>5. PICK f : Sums(f, w, n - 1) BY <1>4
<1> DEFINE g == [k \in 0 .. n |-> IF k = n THEN f[n - 1] + Gain(w, n) ELSE f[k]]
<1>6. Sums(g, w, n)
  <2>0. n \in Nat /\ n > 0 /\ Gain(w, n) \in Int BY <1>1, <1>4
  <2>1. \A k \in 0 .. n : k # n => k \in 0 .. (n - 1) BY <2>0
  <2>2. f \in [0 .. (n - 1) -> Int] /\ f[0] = 0 /\ \A k \in 1 .. (n - 1) : f[k] = f[k - 1] + Gain(w, k)
    BY <1>5 DEF Sums
  <2>3. f[n - 1] + Gain(w, n) \in Int BY <2>0, <2>2
  <2>4. g \in [0 .. n -> Int] BY <2>1, <2>2, <2>3
  <2>5. g[0] = 0 BY <2>0, <2>2
  <2>6. ASSUME NEW k \in 1 .. n PROVE g[k] = g[k - 1] + Gain(w, k)
    <3>1. g[k - 1] = f[k - 1] BY <2>0
    <3>2. CASE k = n BY <3>1, <3>2
    <3>3. CASE k # n
      <4>1. k \in 1 .. (n - 1) /\ g[k] = f[k] BY <2>0, <3>3
      <4> QED BY <2>2, <3>1, <4>1
    <3> QED BY <3>2, <3>3
  <2> HIDE DEF g
  <2> QED BY <2>4, <2>5, <2>6 DEF Sums
<1> QED BY <1>2, <1>6

\* The recursive definition computes these sums.
LEMMA AccumulatedSums ==
  ASSUME NEW w \in Seq(Int)
  PROVE  Sums([n \in 0 .. Len(w) |-> Accumulated(w, n)], w, Len(w))
<1> DEFINE L == Len(w)
           acc == CHOOSE f : IsAcc(f, w)
<1>0. L \in Nat OBVIOUS
<1>1. \A n : Accumulated(w, n) = acc[n] BY DEF Accumulated, IsAcc
<1>2. PICK f : Sums(f, w, L) BY SumsExist
<1> HIDE DEF L
<1>3. IsAcc(f, w)
  <2>1. \A k \in 0 .. L : f[k] = IF k = 0 THEN 0 ELSE IF w[k] > 0 THEN f[k - 1] + w[k] ELSE f[k - 1]
    <3> TAKE k \in 0 .. L
    <3>1. CASE k = 0 BY <1>2, <3>1 DEF Sums
    <3>2. CASE k # 0
      <4>1. k \in 1 .. L /\ k - 1 \in 0 .. L BY <1>0, <3>2
      <4>2. f[k] = f[k - 1] + Gain(w, k) /\ f[k - 1] \in Int BY <1>2, <4>1 DEF Sums
      <4> QED BY <3>2, <4>2 DEF Gain
    <3> QED BY <3>1, <3>2
  <2> QED BY <1>2, <2>1 DEF IsAcc, Sums, L
<1>4. IsAcc(acc, w)
  <2> HIDE DEF acc
  <2> QED BY <1>3 DEF acc
<1> HIDE DEF acc
<1>5. DOMAIN acc = 0 .. L /\ acc[0] = 0
  BY <1>0, <1>4 DEF IsAcc, L
<1>6. \A k \in 1 .. L : acc[k] = IF w[k] > 0 THEN acc[k - 1] + w[k] ELSE acc[k - 1]
  <2> TAKE k \in 1 .. L
  <2>1. k \in 0 .. L /\ k # 0 BY <1>0
  <2> QED BY <1>4, <2>1 DEF IsAcc, L
<1> DEFINE Bad == {n \in 0 .. L : acc[n] \notin Int}
<1>7. Bad = {}
  <2> SUFFICES ASSUME Bad # {} PROVE FALSE OBVIOUS
  <2>1. PICK n \in Bad : \A m \in Bad : n <= m
    <3>1. Bad \in SUBSET (0 .. L) OBVIOUS
    <3> HIDE DEF Bad
    <3> QED BY <1>0, <3>1, SmallestOf
  <2>2. n # 0 BY <1>5, <2>1
  <2>3. n \in 1 .. L /\ n - 1 \in 0 .. L /\ n - 1 \notin Bad BY <1>0, <2>1, <2>2
  <2>4. acc[n - 1] \in Int /\ w[n] \in Int BY <2>3 DEF L
  <2>5. acc[n] \in Int BY <1>6, <2>3, <2>4
  <2> QED BY <2>1, <2>5
<1> DEFINE g == [n \in 0 .. L |-> Accumulated(w, n)]
<1>8. \A n \in 0 .. L : g[n] = acc[n] BY <1>1
<1>9. g \in [0 .. L -> Int] BY <1>7, <1>8
<1>10. g[0] = 0 BY <1>0, <1>5, <1>8
<1>11. ASSUME NEW k \in 1 .. L PROVE g[k] = g[k - 1] + Gain(w, k)
  <2>1. k \in 0 .. L /\ k - 1 \in 0 .. L BY <1>0
  <2>2. g[k] = acc[k] /\ g[k - 1] = acc[k - 1] /\ acc[k - 1] \in Int BY <1>7, <1>8, <2>1
  <2> HIDE DEF g
  <2> QED BY <1>6, <2>2 DEF Gain
<1> HIDE DEF g
<1>12. Sums(g, w, L) BY <1>9, <1>10, <1>11 DEF Sums
<1> QED BY <1>12 DEF g, L

LEMMA AccumulatedGrows ==
  ASSUME NEW w \in Seq(Int)
  PROVE  /\ Accumulated(w, 0) = 0
         /\ \A k \in 0 .. Len(w) : Accumulated(w, k) \in Nat
         /\ \A k \in 1 .. Len(w) : Accumulated(w, k) = Accumulated(w, k - 1) + Gain(w, k)
         /\ \A j, k \in 0 .. Len(w) : j <= k => Accumulated(w, j) <= Accumulated(w, k)
<1> DEFINE L == Len(w)
           A(n) == Accumulated(w, n)
           g == [n \in 0 .. L |-> A(n)]
<1>0. L \in Nat /\ \A k \in 1 .. L : Gain(w, k) \in Nat BY DEF Gain
<1>1. Sums(g, w, L) BY AccumulatedSums
<1> HIDE DEF A, L
<1>2. /\ A(0) = 0 /\ \A k \in 0 .. L : A(k) \in Int
      /\ \A k \in 1 .. L : A(k) = A(k - 1) + Gain(w, k)
  <2>1. \A n \in 0 .. L : g[n] = A(n) OBVIOUS
  <2>2. A(0) = 0 /\ \A k \in 0 .. L : A(k) \in Int BY <1>0, <1>1, <2>1 DEF Sums
  <2>3. ASSUME NEW k \in 1 .. L PROVE A(k) = A(k - 1) + Gain(w, k)
    <3>1. k \in 0 .. L /\ k - 1 \in 0 .. L BY <1>0
    <3> QED BY <1>1, <2>1, <3>1 DEF Sums
  <2> QED BY <2>2, <2>3
<1>3. ASSUME NEW j \in 0 .. L, NEW k \in 0 .. L, j <= k PROVE A(j) <= A(k)
  <2> DEFINE Bad == {n \in 0 .. L : j <= n /\ ~(A(j) <= A(n))}
  <2> SUFFICES ASSUME Bad # {} PROVE FALSE BY <1>3
  <2>1. PICK n \in Bad : \A m \in Bad : n <= m
    <3>1. Bad \in SUBSET (0 .. L) OBVIOUS
    <3> HIDE DEF Bad
    <3> QED BY <1>0, <3>1, SmallestOf
  <2>2. n # j BY <1>2, <2>1
  <2>3. n \in 1 .. L /\ n - 1 \in 0 .. L /\ j <= n - 1 BY <1>0, <2>1, <2>2
  <2>4. n - 1 \notin Bad BY <2>1, <2>3
  <2>5. A(j) <= A(n - 1) BY <2>3, <2>4
  <2>6. A(n) = A(n - 1) + Gain(w, n) /\ Gain(w, n) \in Nat BY <1>0, <1>2, <2>3
  <2>7. A(j) \in Int /\ A(n - 1) \in Int /\ A(n) \in Int BY <1>2, <2>1, <2>3
  <2>8. A(j) <= A(n) BY <2>5, <2>6, <2>7
  <2> QED BY <2>1, <2>8
<1>4. \A k \in 0 .. L : A(k) \in Nat
  <2> TAKE k \in 0 .. L
  <2>1. A(0) <= A(k) BY <1>0, <1>3
  <2> QED BY <1>2, <2>1
<1> QED BY <1>2, <1>3, <1>4 DEF A, L

\* Every random number lies between the sum before some item and the sum with it.
LEMMA IntervalOf ==
  ASSUME NEW w \in Seq(Int), NEW r \in 0 .. TotalWeight(w) - 1
  PROVE  \E x \in DOMAIN w : Accumulated(w, x - 1) <= r /\ r < Accumulated(w, x)
<1> DEFINE L == Len(w)
           A(n) == Accumulated(w, n)
           Above == {k \in 0 .. L : r < A(k)}
<1>1. L \in Nat /\ DOMAIN w = 1 .. L /\ A(0) = 0 /\ \A k \in 0 .. L : A(k) \in Nat
  BY AccumulatedGrows
<1>2. r \in 0 .. A(L) - 1 BY DEF TotalWeight
<1> HIDE DEF A, L
<1>3. L \in Above BY <1>1, <1>2
<1>4. PICK x \in Above : \A y \in Above : x <= y
  <2>1. Above \in SUBSET (0 .. L) /\ Above # {} BY <1>3
  <2> HIDE DEF Above
  <2> QED BY <1>1, <2>1, SmallestOf
<1>5. x # 0 BY <1>1, <1>2, <1>4
<1>6. x \in 1 .. L /\ x - 1 \in 0 .. L /\ x - 1 \notin Above BY <1>1, <1>4, <1>5
<1>7. A(x - 1) <= r BY <1>1, <1>2, <1>6
<1> QED BY <1>1, <1>4, <1>6, <1>7 DEF A

\* The i-th item is chosen by the random numbers from the sum before it to the sum with it.
LEMMA PickIsInterval ==
  ASSUME NEW w \in Seq(Int), NEW r \in 0 .. TotalWeight(w) - 1, NEW i \in DOMAIN w
  PROVE  Pick(w, r) = i <=> Accumulated(w, i - 1) <= r /\ r < Accumulated(w, i)
<1> DEFINE L == Len(w)
           A(n) == Accumulated(w, n)
           Chosen(x) == x \in DOMAIN w /\ w[x] > 0 /\ r < A(x)
                        /\ \A j \in 1 .. x - 1 : w[j] > 0 => r >= A(j)
<1>1. /\ L \in Nat /\ DOMAIN w = 1 .. L /\ \A k \in DOMAIN w : w[k] \in Int
      /\ r \in Nat /\ r < A(L)
  <2>1. L \in Nat /\ DOMAIN w = 1 .. L /\ \A k \in DOMAIN w : w[k] \in Int OBVIOUS
  <2>2. A(L) \in Nat BY AccumulatedGrows
  <2>3. r \in 0 .. A(L) - 1 BY DEF TotalWeight
  <2> HIDE DEF A
  <2> QED BY <2>1, <2>2, <2>3
<1>2. /\ A(0) = 0 /\ \A k \in 0 .. L : A(k) \in Nat
      /\ \A k \in 1 .. L : A(k) = A(k - 1) + Gain(w, k)
      /\ \A j, k \in 0 .. L : j <= k => A(j) <= A(k)
  BY AccumulatedGrows
<1>3. Pick(w, r) = CHOOSE x : Chosen(x)
  <2>1. Pick(w, r) = CHOOSE x \in DOMAIN w :
          w[x] > 0 /\ r < A(x) /\ \A j \in 1 .. x - 1 : w[j] > 0 => r >= A(j)
    BY DEF Pick
  <2> QED BY <2>1
<1> HIDE DEF A, L
<1>4. ASSUME NEW x \in DOMAIN w, A(x - 1) <= r, r < A(x) PROVE Chosen(x)
  <2>1. x \in 1 .. L /\ x - 1 \in 0 .. L /\ x \in 0 .. L BY <1>1
  <2>2. w[x] > 0
    <3>1. A(x) = A(x - 1) + Gain(w, x) /\ A(x - 1) \in Nat BY <1>2, <2>1
    <3> QED BY <1>1, <1>4, <2>1, <3>1 DEF Gain
  <2>3. ASSUME NEW j \in 1 .. x - 1 PROVE r >= A(j)
    <3>1. j \in 0 .. L /\ j <= x - 1 BY <1>1, <2>1
    <3>2. A(j) <= A(x - 1) /\ A(j) \in Nat /\ A(x - 1) \in Nat BY <1>2, <2>1, <3>1
    <3> QED BY <1>1, <1>4, <3>2
  <2> QED BY <1>4, <2>2, <2>3
<1>5. ASSUME NEW x, NEW y, Chosen(x), Chosen(y) PROVE x = y
  <2>1. x \in 1 .. L /\ y \in 1 .. L /\ w[x] > 0 /\ w[y] > 0 /\ r < A(x) /\ r < A(y)
        /\ A(x) \in Nat /\ A(y) \in Nat
    BY <1>1, <1>2, <1>5
  <2>2. CASE x < y
    <3>1. x \in 1 .. y - 1 BY <2>1, <2>2
    <3>2. r >= A(x) BY <1>5, <2>1, <3>1
    <3> QED BY <1>1, <2>1, <3>2
  <2>3. CASE y < x
    <3>1. y \in 1 .. x - 1 BY <2>1, <2>3
    <3>2. r >= A(y) BY <1>5, <2>1, <3>1
    <3> QED BY <1>1, <2>1, <3>2
  <2> QED BY <2>1, <2>2, <2>3
<1>6. \E x \in DOMAIN w : A(x - 1) <= r /\ r < A(x) BY IntervalOf DEF A
<1>7. PICK x \in DOMAIN w : A(x - 1) <= r /\ r < A(x) BY <1>6
<1>8. Chosen(x) BY <1>4, <1>7
<1> HIDE DEF Chosen
<1>9. Pick(w, r) = x BY <1>3, <1>5, <1>8
<1>10. A(i - 1) <= r /\ r < A(i) => i = x BY <1>4, <1>5, <1>8
<1> QED BY <1>7, <1>9, <1>10 DEF A

\* As many random numbers choose an item as its weight, none one without a weight.
LEMMA PickIsWeighted ==
  ASSUME NEW w \in Seq(Int), NEW i \in DOMAIN w
  PROVE  Cardinality({r \in 0 .. TotalWeight(w) - 1 : Pick(w, r) = i}) = IF w[i] > 0 THEN w[i] ELSE 0
<1> DEFINE L == Len(w)
           A(n) == Accumulated(w, n)
           R == {r \in 0 .. TotalWeight(w) - 1 : Pick(w, r) = i}
<1>1. L \in Nat /\ i \in 1 .. L /\ i \in 0 .. L /\ i - 1 \in 0 .. L /\ L \in 0 .. L /\ w[i] \in Int OBVIOUS
<1>2. TotalWeight(w) = A(L) BY DEF TotalWeight
<1>3. R = {r \in 0 .. A(L) - 1 : A(i - 1) <= r /\ r < A(i)} BY <1>2, PickIsInterval
<1>4. /\ A(i) = A(i - 1) + Gain(w, i) /\ A(i) \in Nat /\ A(i - 1) \in Nat /\ A(L) \in Nat
      /\ A(i) <= A(L)
  BY <1>1, AccumulatedGrows
<1> HIDE DEF A, L, R
<1>5. R = A(i - 1) .. (A(i) - 1) BY <1>3, <1>4
<1>6. Gain(w, i) = A(i) - A(i - 1) BY <1>1, <1>4 DEF Gain
<1>7. Cardinality(R) = IF A(i - 1) > A(i) - 1 THEN 0 ELSE (A(i) - 1) - A(i - 1) + 1
  <2> DEFINE low == A(i - 1)
             high == A(i) - 1
  <2>1. low \in Int /\ high \in Int /\ R = low .. high BY <1>4, <1>5
  <2> HIDE DEF low, high
  <2>2. Cardinality(low .. high) = IF low > high THEN 0 ELSE high - low + 1 BY <2>1, FS_Interval
  <2>3. Cardinality(R) = IF low > high THEN 0 ELSE high - low + 1 BY <2>1, <2>2
  <2> QED BY <2>3 DEF low, high
<1>8. Cardinality(R) = Gain(w, i) BY <1>1, <1>4, <1>6, <1>7 DEF Gain
<1> QED BY <1>8 DEF R, Gain

\* A request draws from the list of items it has read, and forgets it when it has drawn.
ItemsRead == \A t \in Multi : mine[t].items \in Masters \cup {<<>>}
DrawInv == IndInv /\ ItemsRead

LEMMA ItemsReadKept ==
  ASSUME ItemsRead, NEW t \in Tx, \A o \in Tx \ {t} : Same(o),
         t \in Multi => mine'[t].items \in Masters \cup {<<>>}
  PROVE  ItemsRead'
BY DEF ItemsRead, Same, Tx

LEMMA DrawInvNext == DrawInv /\ [Next]_vars => DrawInv'
<1> SUFFICES ASSUME DrawInv, [Next]_vars PROVE ItemsRead' BY IndInvNext DEF DrawInv
<1>0. IndInv /\ TypeOK /\ ItemsRead BY DEF DrawInv, IndInv
<1>1. \A t \in Tx : \A code, value : Reply(t, code, value) => ItemsRead'
  BY <1>0, ReplyFrame, ItemsReadKept DEF Nothing
<1>2. \A t \in Tx : \A code : EndWith(t, code) => ItemsRead' BY <1>1 DEF EndWith
<1>3. \A t \in Tx : \A s, locks, m : Enter(t, s, locks, m) /\ (t \in Multi => m.items \in Masters \cup {<<>>})
        => ItemsRead'
  BY <1>0, EnterFrame, ItemsReadKept
<1>4. ASSUME NEW t \in Multi, MultiNext(t) PROVE ItemsRead'
  <2>1. t \in Tx BY DEF Tx
  <2>2. ASSUME NEW q \in MultiInput, NEW items \in Masters, RefuseMulti(t, q, items)
        PROVE  ItemsRead'
    BY <1>2, <2>1, <2>2 DEF RefuseMulti
  <2>3. ASSUME NEW q \in MultiInput, NEW items \in Masters, BeginMulti(t, q, items)
        PROVE  ItemsRead'
    <3> DEFINE m == [Nothing EXCEPT !.user = q.user, !.amount = q.pulls, !.items = items]
    <3>1. Enter(t, "user", UserForUpdate(q.user), m) BY <2>3 DEF BeginMulti
    <3>2. m.items = items BY DEF Nothing
    <3> HIDE DEF m
    <3> QED BY <1>3, <2>1, <3>1, <3>2
  <2>4. CASE RefuseDraw(t) BY <1>2, <2>1, <2>4 DEF RefuseDraw
  <2>5. CASE Draw(t)
    <3>1. PICK locks, drawn, result :
            Enter(t, "commit", locks, [mine[t] EXCEPT !.items = <<>>, !.drawn = drawn, !.result = result])
      BY <2>5 DEF Draw
    <3> DEFINE m == [mine[t] EXCEPT !.items = <<>>, !.drawn = drawn, !.result = result]
    <3>2. m.items = <<>> BY <1>0, <2>1 DEF TypeOK, Nothing
    <3>3. Enter(t, "commit", locks, m) BY <3>1
    <3> HIDE DEF m
    <3> QED BY <1>3, <2>1, <3>2, <3>3
  <2>6. CASE CommitMulti(t)
    <3>1. PICK code \in Told : Reply(t, code, mine[t].result) BY <2>6 DEF CommitMulti
    <3> QED BY <1>1, <2>1, <3>1
  <2> QED BY <1>4, <2>2, <2>3, <2>4, <2>5, <2>6 DEF MultiNext
<1>5. ASSUME NEW t \in Add, AddNext(t) PROVE ItemsRead'
  <2>1. t \in Tx /\ t \notin Multi BY DisjointTx DEF Tx
  <2>2. ASSUME NEW q \in AddInput, RefuseAdd(t, q) \/ BeginAdd(t, q) PROVE ItemsRead'
    BY <1>2, <1>3, <2>1, <2>2 DEF RefuseAdd, BeginAdd
  <2>3. CASE ReadBack(t)
    <3>1. \A o \in Tx \ {t} : Same(o) BY <1>0, <2>3 DEF ReadBack, TypeOK, Same
    <3> QED BY <1>0, <2>1, <3>1, ItemsReadKept
  <2>4. CASE CommitAdd(t)
    <3>1. PICK code \in Told : Reply(t, code, mine[t].result) BY <2>4 DEF CommitAdd
    <3> QED BY <1>1, <2>1, <3>1
  <2>5. CASE FindNoRow(t) BY <1>2, <2>1, <2>5 DEF FindNoRow
  <2> QED BY <1>5, <2>2, <2>3, <2>4, <2>5 DEF AddNext
<1>6. ASSUME NEW t \in Batch, BatchNext(t) PROVE ItemsRead'
  <2>1. t \in Tx /\ t \notin Multi BY DisjointTx DEF Tx
  <2> QED BY <1>2, <1>3, <1>6, <2>1 DEF BatchNext, BeginBatch, CommitBatch
<1>7. ASSUME NEW t \in Tx, GrantLock(t) \/ Fail(t) PROVE ItemsRead'
  <2>1. GrantLock(t) => ItemsRead' BY <1>0 DEF GrantLock, ItemsRead
  <2> QED BY <1>2, <1>7, <2>1 DEF Fail
<1>8. CASE UNCHANGED vars BY <1>0, <1>8 DEF vars, ItemsRead
<1> QED BY <1>4, <1>5, <1>6, <1>7, <1>8 DEF Next, Terminated

\* Every request draws in proportion to the weights it has read, for every list of items,
\* with weights of zero or below too (draw of the gacha use case).
THEOREM DrawIsWeightedHolds == Spec => []DrawIsWeighted
<1>1. Init => DrawInv BY IndInvInit DEF DrawInv, ItemsRead, Init, Nothing, Tx
<1>2. DrawInv => DrawIsWeighted
  <2> SUFFICES ASSUME DrawInv, NEW t \in Multi, NEW i \in DOMAIN mine[t].items
               PROVE  Cardinality({r \in 0 .. TotalWeight(mine[t].items) - 1 : Pick(mine[t].items, r) = i})
                        = IF mine[t].items[i] > 0 THEN mine[t].items[i] ELSE 0
    BY DEF DrawIsWeighted
  <2>1. mine[t].items \in Seq(Int)
    <3>1. mine[t].items \in Masters \/ mine[t].items = <<>> BY DEF DrawInv, ItemsRead
    <3>2. \A w \in Masters : w \in Seq(Int) BY DataAssumption
    <3>3. <<>> \in Seq(Int) OBVIOUS
    <3> QED BY <3>1, <3>2, <3>3
  <2> QED BY <2>1, PickIsWeighted
<1> QED BY <1>1, <1>2, DrawInvNext, PTL DEF Spec

-----------------------------------------------------------------------------
(* Nobody waits in a circle: which locks a transaction holds and still     *)
(* needs at each of its statements.                                        *)

LocksOfMulti(t) ==
  LET row == XLock(<<"users", mine[t].user>>)
      IsItem(l) == l = XLock(<<"user_items", mine[t].user, l.row[3]>>)
  IN /\ stage[t] = "user" => \/ todo[t] = <<row>> /\ held[t] = {}
                             \/ todo[t] = <<>> /\ held[t] = {row}
     /\ stage[t] = "commit" => /\ IsSequence(todo[t]) /\ \A k \in DOMAIN todo[t] : IsItem(todo[t][k])
                               /\ row \in held[t] /\ \A l \in held[t] : l = row \/ IsItem(l)

LocksOfAdd(t) ==
  LET user == SLock(<<"users", mine[t].user>>)
      row == XLock(<<"user_points", mine[t].user>>)
  IN /\ stage[t] = "increment" => \/ todo[t] = <<user, row>> /\ held[t] = {}
                                  \/ todo[t] = <<row>> /\ held[t] = {user}
                                  \/ todo[t] = <<>>
     /\ stage[t] = "commit" => todo[t] = <<>>

\* A worker has locked the first n rows of its window.
LocksOfBatch(t) ==
  /\ stage[t] \in {"new", "commit", "done"}
  /\ stage[t] = "commit" =>
       \E events \in BatchInput :
         LET rows == ScoreRows(events) \o HistoryRows(events)
         IN \E n \in 0 .. Len(rows) :
              /\ IsSequence(todo[t]) /\ Len(todo[t]) = Len(rows) - n
              /\ \A k \in DOMAIN todo[t] : todo[t][k] = rows[n + k]
              /\ held[t] = {rows[k] : k \in 1 .. n}

LocksOf(t) ==
  /\ stage[t] \in {"new", "done"} => todo[t] = <<>> /\ held[t] = {}
  /\ t \in Multi => LocksOfMulti(t)
  /\ t \in Add => LocksOfAdd(t)
  /\ t \in Batch => LocksOfBatch(t)

LocksInv == IndInv /\ \A t \in Tx : LocksOf(t)

LEMMA ListedIn ==
  ASSUME NEW A, NEW q \in Seq(A) PROVE \A k \in DOMAIN q : q[k] \in A
OBVIOUS

\* The rows a worker locks: its guilds in ascending order, then one user per event.
LEMMA WindowRows ==
  ASSUME NEW events \in BatchInput
  PROVE  LET p == ScoreRows(events)
             q == HistoryRows(events)
         IN /\ IsSequence(p) /\ IsSequence(q)
            /\ \A k \in DOMAIN p : \E g \in Guild : p[k] = XLock(<<"guild_scores", g>>)
            /\ \A j, k \in DOMAIN p : j < k =>
                 \E g, h \in Guild : /\ g < h /\ p[j] = XLock(<<"guild_scores", g>>)
                                     /\ p[k] = XLock(<<"guild_scores", h>>)
            /\ \A k \in DOMAIN q : \E u \in User :
                 /\ q[k] = SLock(<<"users", u>>)
                 /\ \E j \in DOMAIN p : p[j] = XLock(<<"guild_scores", GuildOf[u]>>)
<1> DEFINE guild == [k \in DOMAIN events |-> events[k].guild]
           ids == {events[k].guild : k \in DOMAIN events}
           a == Ascending(ids)
           p == ScoreRows(events)
           q == HistoryRows(events)
<1>1. events \in Seq([user : User, guild : Guild]) BY InputAssumption
<1>2. /\ IsSequence(events) /\ DOMAIN events = 1 .. Len(events) /\ Len(events) \in Nat
      /\ \A k \in DOMAIN events : events[k].user \in User /\ events[k].guild \in Guild
  <2>1. IsSequence(events) BY <1>1, SeqIsSequence
  <2>2. DOMAIN events = 1 .. Len(events) /\ Len(events) \in Nat BY <1>1
  <2>3. \A k \in DOMAIN events : events[k] \in [user : User, guild : Guild]
    BY <1>1, ListedIn
  <2> QED BY <2>1, <2>2, <2>3
<1>3. ids \in SUBSET Guild /\ ids \in SUBSET Int
  <2>1. ids \subseteq Guild BY <1>2
  <2>2. Guild \subseteq Int BY InputAssumption
  <2> QED BY <2>1, <2>2
<1>4. IsFiniteSet(ids) BY <1>3, InputAssumption, FS_Subset
<1>5. /\ IsSequence(a) /\ \A k \in DOMAIN a : a[k] \in ids
      /\ \A x \in ids : \E k \in DOMAIN a : a[k] = x
      /\ \A j, k \in DOMAIN a : j < k => a[j] < a[k]
  <2> HIDE DEF ids
  <2> QED BY <1>3, <1>4, AscendingSorts
<1>6. p = [k \in DOMAIN a |-> XLock(<<"guild_scores", a[k]>>)] BY DEF ScoreRows
<1>7. q = [k \in DOMAIN events |-> SLock(<<"users", events[k].user>>)] BY DEF HistoryRows
<1> HIDE DEF a, p, q
<1>8. DOMAIN p = DOMAIN a /\ \A k \in DOMAIN a : p[k] = XLock(<<"guild_scores", a[k]>>) BY <1>6
<1>9. IsSequence(p) BY <1>5, <1>6 DEF IsSequence
<1>10. IsSequence(q) BY <1>2, <1>7 DEF IsSequence
<1>11. \A k \in DOMAIN a : a[k] \in Guild BY <1>3, <1>5
<1>12. \A j, k \in DOMAIN p : j < k =>
         \E g, h \in Guild : /\ g < h /\ p[j] = XLock(<<"guild_scores", g>>)
                             /\ p[k] = XLock(<<"guild_scores", h>>)
  BY <1>5, <1>8, <1>11
<1>13. ASSUME NEW k \in DOMAIN q
       PROVE  \E u \in User :
                /\ q[k] = SLock(<<"users", u>>)
                /\ \E j \in DOMAIN p : p[j] = XLock(<<"guild_scores", GuildOf[u]>>)
  <2>1. k \in DOMAIN events /\ q[k] = SLock(<<"users", events[k].user>>) BY <1>7
  <2>2. events[k].guild \in ids /\ events[k].guild = GuildOf[events[k].user]
    BY <2>1, MembershipAssumption
  <2>3. PICK j \in DOMAIN a : a[j] = GuildOf[events[k].user] BY <1>5, <2>2
  <2> QED BY <1>2, <1>8, <2>1, <2>3
<1> QED BY <1>8, <1>9, <1>10, <1>11, <1>12, <1>13 DEF p, q

LEMMA LocksKeptBy ==
  ASSUME NEW o, LocksOf(o), Same(o) PROVE LocksOf(o)'
<1>1. ASSUME o \in Batch, LocksOfBatch(o) PROVE LocksOfBatch(o)'
  BY <1>1 DEF LocksOfBatch, Same
<1> QED BY <1>1 DEF LocksOf, LocksOfMulti, LocksOfAdd, Same

LEMMA LocksInvFrom ==
  ASSUME LocksInv, NEW t \in Tx, IndInv', \A o \in Tx \ {t} : Same(o), LocksOf(t)'
  PROVE  LocksInv'
BY LocksKeptBy DEF LocksInv

\* The end of a transaction.
LEMMA LocksDropped ==
  ASSUME LocksInv, IndInv', NEW t \in Tx, NEW code, NEW value, Reply(t, code, value)
  PROVE  LocksInv'
<1>1. todo'[t] = <<>> BY DEF Reply, LocksInv, IndInv, TypeOK
<1>2. stage'[t] = "done" /\ held'[t] = {} /\ \A o \in Tx \ {t} : Same(o)
  BY ReplyFrame DEF LocksInv, IndInv
<1>3. LocksOf(t)' BY <1>1, <1>2 DEF LocksOf, LocksOfMulti, LocksOfAdd, LocksOfBatch
<1> QED BY <1>2, <1>3, LocksInvFrom

LEMMA LocksOfBeginMulti ==
  ASSUME LocksInv, IndInv', NEW t \in Multi, stage[t] = "new",
         NEW q, NEW items, BeginMulti(t, q, items)
  PROVE  LocksInv'
<1> DEFINE m == [Nothing EXCEPT !.user = q.user, !.amount = q.pulls, !.items = items]
<1>1. t \in Tx /\ t \notin Add /\ t \notin Batch BY TxAssumption DEF Tx
<1>2. Enter(t, "user", <<XLock(<<"users", q.user>>)>>, m) BY DEF BeginMulti, UserForUpdate
<1>3. m.user = q.user BY DEF Nothing
<1> HIDE DEF m
<1>4. /\ stage'[t] = "user" /\ todo'[t] = <<XLock(<<"users", q.user>>)>> /\ mine'[t] = m
      /\ held' = held /\ \A o \in Tx \ {t} : Same(o)
  BY <1>1, <1>2, EnterFrame DEF LocksInv, IndInv
<1>5. held[t] = {} BY <1>1 DEF LocksInv, LocksOf
<1>6. LocksOf(t)' BY <1>1, <1>3, <1>4, <1>5 DEF LocksOf, LocksOfMulti
<1> QED BY <1>1, <1>4, <1>6, LocksInvFrom

LEMMA LocksOfDraw ==
  ASSUME LocksInv, IndInv', NEW t \in Multi, Draw(t) PROVE LocksInv'
<1> DEFINE u == mine[t].user
           n == mine[t].amount
<1>1. t \in Tx /\ t \notin Add /\ t \notin Batch BY TxAssumption DEF Tx
<1>2. PICK r \in [1 .. n -> 0 .. TotalWeight(mine[t].items) - 1] :
        LET drawn == [k \in 1 .. n |-> Pick(mine[t].items, r[k])]
        IN Enter(t, "commit", ItemRows(u, drawn),
                 [mine[t] EXCEPT !.items = <<>>, !.drawn = drawn, !.result = gems[u] - GemCostFor(n)])
  BY DEF Draw
<1> DEFINE drawn == [k \in 1 .. n |-> Pick(mine[t].items, r[k])]
           m == [mine[t] EXCEPT !.items = <<>>, !.drawn = drawn, !.result = gems[u] - GemCostFor(n)]
           ids == {drawn[k] : k \in DOMAIN drawn}
           rows == ItemRows(u, drawn)
<1>3. Enter(t, "commit", rows, m) BY <1>2
<1>4. m.user = u BY <1>1 DEF LocksInv, IndInv, TypeOK, Nothing
<1>5. n \in Nat BY PerTransaction DEF LocksInv, IndInv, BalanceOf, Draw, At
<1>6. IsSequence(drawn) BY <1>5 DEF IsSequence
<1> HIDE DEF drawn, m
<1>7. IsFiniteSet(ids) BY <1>6, ListedFinite
<1>8. IsSequence(rows) /\ \A k \in DOMAIN rows :
        rows[k] = XLock(<<"user_items", u, Ascending(ids)[k]>>)
  <2>1. rows = [k \in DOMAIN Ascending(ids) |-> XLock(<<"user_items", u, Ascending(ids)[k]>>)]
    BY DEF ItemRows
  <2>2. Cardinality(ids) \in Nat BY <1>7, FS_CardinalityType
  <2>3. DOMAIN Ascending(ids) = 1 .. Cardinality(ids) BY DEF Ascending
  <2> HIDE DEF rows, ids
  <2> QED BY <2>1, <2>2, <2>3 DEF IsSequence
<1> HIDE DEF rows, ids
<1>9. /\ stage'[t] = "commit" /\ todo'[t] = rows /\ mine'[t] = m
      /\ held' = held /\ \A o \in Tx \ {t} : Same(o)
  BY <1>1, <1>3, EnterFrame DEF LocksInv, IndInv
<1>10. held[t] = {XLock(<<"users", u>>)}
  <2>1. LocksOfMulti(t) /\ stage[t] = "user" /\ todo[t] = <<>>
    BY <1>1 DEF LocksInv, LocksOf, Draw, At
  <2> QED BY <2>1, NotEmpty DEF LocksOfMulti
<1>11. \A k \in DOMAIN rows : rows[k] = XLock(<<"user_items", u, rows[k].row[3]>>)
  BY <1>8 DEF XLock
<1> HIDE DEF u, n
<1>12. LocksOf(t)' BY <1>1, <1>4, <1>8, <1>9, <1>10, <1>11 DEF LocksOf, LocksOfMulti, IsSequence
<1> QED BY <1>1, <1>9, <1>12, LocksInvFrom

LEMMA LocksOfBeginAdd ==
  ASSUME LocksInv, IndInv', NEW t \in Add, stage[t] = "new", NEW q, BeginAdd(t, q)
  PROVE  LocksInv'
<1> DEFINE read == IF q.user \in scored THEN {points[q.user]} ELSE {}
           m == [Nothing EXCEPT !.user = q.user, !.amount = q.points, !.seen = read]
           locks == <<SLock(<<"users", q.user>>), XLock(<<"user_points", q.user>>)>>
<1>1. t \in Tx /\ t \notin Multi /\ t \notin Batch BY TxAssumption DEF Tx
<1>2. Enter(t, "increment", locks, m) BY DEF BeginAdd
<1>3. m.user = q.user BY DEF Nothing
<1> HIDE DEF m, locks, read
<1>4. /\ stage'[t] = "increment" /\ todo'[t] = locks /\ mine'[t] = m
      /\ held' = held /\ \A o \in Tx \ {t} : Same(o)
  BY <1>1, <1>2, EnterFrame DEF LocksInv, IndInv
<1>5. held[t] = {} BY <1>1 DEF LocksInv, LocksOf
<1>6. LocksOf(t)' BY <1>1, <1>3, <1>4, <1>5 DEF LocksOf, LocksOfAdd, locks
<1> QED BY <1>1, <1>4, <1>6, LocksInvFrom

LEMMA LocksOfReadBack ==
  ASSUME LocksInv, IndInv', NEW t \in Add, ReadBack(t) PROVE LocksInv'
<1>1. t \in Tx /\ t \notin Multi /\ t \notin Batch BY TxAssumption DEF Tx
<1>2. stage'[t] = "commit" /\ todo'[t] = <<>> /\ \A o \in Tx \ {t} : Same(o)
  BY <1>1 DEF ReadBack, At, LocksInv, IndInv, TypeOK, Same
<1>3. LocksOf(t)' BY <1>1, <1>2 DEF LocksOf, LocksOfAdd
<1> QED BY <1>1, <1>2, <1>3, LocksInvFrom

LEMMA LocksOfBeginBatch ==
  ASSUME LocksInv, IndInv', NEW t \in Batch, stage[t] = "new",
         NEW events \in BatchInput, BeginBatch(t, events)
  PROVE  LocksInv'
<1> DEFINE rows == ScoreRows(events) \o HistoryRows(events)
<1>1. t \in Tx /\ t \notin Multi /\ t \notin Add BY TxAssumption DEF Tx
<1>2. Enter(t, "commit", rows, Nothing) BY DEF BeginBatch
<1>3. IsSequence(rows) /\ Len(rows) \in Nat BY WindowRows, LengthAdds DEF IsSequence
<1>4. /\ stage'[t] = "commit" /\ todo'[t] = rows
      /\ held' = held /\ \A o \in Tx \ {t} : Same(o)
  BY <1>1, <1>2, EnterFrame DEF LocksInv, IndInv
<1>5. held[t] = {} BY <1>1 DEF LocksInv, LocksOf
<1>6. \E n \in 0 .. Len(rows) :
        /\ IsSequence(todo'[t]) /\ Len(todo'[t]) = Len(rows) - n
        /\ \A k \in DOMAIN todo'[t] : todo'[t][k] = rows[n + k]
        /\ held'[t] = {rows[k] : k \in 1 .. n}
  <2> HIDE DEF rows
  <2>1. DOMAIN rows = 1 .. Len(rows) BY <1>3 DEF IsSequence
  <2>2. \A k \in DOMAIN rows : rows[0 + k] = rows[k] BY <1>3, <2>1
  <2>3. {rows[k] : k \in 1 .. 0} = {} OBVIOUS
  <2> WITNESS 0 \in 0 .. Len(rows)
  <2> QED BY <1>3, <1>4, <1>5, <2>2, <2>3
<1>7. LocksOfBatch(t)' BY <1>4, <1>6 DEF LocksOfBatch, IsSequence
<1>8. LocksOf(t)' BY <1>1, <1>4, <1>7 DEF LocksOf
<1> QED BY <1>1, <1>4, <1>8, LocksInvFrom

LEMMA GrantedLock ==
  ASSUME IndInv, NEW t \in Tx, GrantLock(t)
  PROVE  /\ todo[t] # <<>> /\ stage'[t] = stage[t] /\ mine'[t] = mine[t]
         /\ held'[t] = held[t] \cup {Head(todo[t])} /\ todo'[t] = Tail(todo[t])
         /\ \A o \in Tx \ {t} : Same(o)
BY DEF GrantLock, IndInv, TypeOK, Same

LEMMA MultiGrant ==
  ASSUME LocksInv, NEW t \in Multi, GrantLock(t) PROVE LocksOfMulti(t)'
<1> DEFINE row == XLock(<<"users", mine[t].user>>)
<1>1. t \in Tx BY DEF Tx
<1>2. /\ todo[t] # <<>> /\ stage'[t] = stage[t] /\ mine'[t] = mine[t]
      /\ held'[t] = held[t] \cup {Head(todo[t])} /\ todo'[t] = Tail(todo[t])
  BY <1>1, GrantedLock DEF LocksInv
<1>3. LocksOfMulti(t) BY <1>1 DEF LocksInv, LocksOf
<1>4. CASE stage[t] = "user"
  <2>1. todo[t] = <<row>> /\ held[t] = {} BY <1>2, <1>3, <1>4 DEF LocksOfMulti
  <2>2. Head(todo[t]) = row /\ Tail(todo[t]) = <<>>
    <3> HIDE DEF row
    <3>1. Head(<<row>>) = row /\ Tail(<<row>>) = <<>> BY HeadTail, Zenon
    <3> QED BY <2>1, <3>1, Zenon
  <2>3. todo'[t] = <<>> /\ held'[t] = {row} BY <1>2, <2>1, <2>2
  <2> QED BY <1>2, <1>4, <2>3 DEF LocksOfMulti
<1>5. CASE stage[t] = "commit"
  <2> DEFINE IsItem(l) == l = XLock(<<"user_items", mine[t].user, l.row[3]>>)
  <2>1. /\ IsSequence(todo[t]) /\ \A k \in DOMAIN todo[t] : IsItem(todo[t][k])
        /\ row \in held[t] /\ \A l \in held[t] : l = row \/ IsItem(l)
    BY <1>3, <1>5 DEF LocksOfMulti
  <2> HIDE DEF IsItem, row
  <2>2. /\ Head(todo[t]) = todo[t][1] /\ 1 \in DOMAIN todo[t]
        /\ IsSequence(Tail(todo[t]))
        /\ \A k \in DOMAIN Tail(todo[t]) : Tail(todo[t])[k] = todo[t][k + 1] /\ k + 1 \in DOMAIN todo[t]
    BY <1>2, <2>1, SequenceEnds
  <2>3. /\ IsSequence(todo'[t]) /\ \A k \in DOMAIN todo'[t] : IsItem(todo'[t][k])
        /\ row \in held'[t] /\ \A l \in held'[t] : l = row \/ IsItem(l)
    BY <1>2, <2>1, <2>2 DEF IsSequence
  <2> QED BY <1>2, <1>5, <2>3 DEF LocksOfMulti, IsItem, row, IsSequence
<1>6. CASE stage[t] \notin {"user", "commit"} BY <1>2, <1>6 DEF LocksOfMulti
<1> QED BY <1>4, <1>5, <1>6

LEMMA AddGrant ==
  ASSUME LocksInv, NEW t \in Add, GrantLock(t) PROVE LocksOfAdd(t)'
<1> DEFINE user == SLock(<<"users", mine[t].user>>)
           row == XLock(<<"user_points", mine[t].user>>)
<1>1. t \in Tx BY DEF Tx
<1>2. /\ todo[t] # <<>> /\ stage'[t] = stage[t] /\ mine'[t] = mine[t]
      /\ held'[t] = held[t] \cup {Head(todo[t])} /\ todo'[t] = Tail(todo[t])
  BY <1>1, GrantedLock DEF LocksInv
<1>3. LocksOfAdd(t) BY <1>1 DEF LocksInv, LocksOf
<1>4. stage[t] # "commit" BY <1>2, <1>3 DEF LocksOfAdd
<1>5. CASE stage[t] = "increment"
  <2>1. \/ todo[t] = <<user, row>> /\ held[t] = {}
        \/ todo[t] = <<row>> /\ held[t] = {user}
    BY <1>2, <1>3, <1>5 DEF LocksOfAdd
  <2> HIDE DEF user, row
  <2>2. CASE todo[t] = <<user, row>> /\ held[t] = {}
    <3>1. Head(<<user, row>>) = user /\ Tail(<<user, row>>) = <<row>> BY HeadTail, Zenon
    <3>2. Head(todo[t]) = user /\ Tail(todo[t]) = <<row>> BY <2>2, <3>1, Zenon
    <3>3. todo'[t] = <<row>> /\ held'[t] = {user} BY <1>2, <2>2, <3>2
    <3> QED BY <1>2, <1>4, <1>5, <3>3 DEF LocksOfAdd, user, row
  <2>3. CASE todo[t] = <<row>>
    <3>1. Tail(<<row>>) = <<>> BY HeadTail, Zenon
    <3>2. todo'[t] = <<>> BY <1>2, <2>3, <3>1, Zenon
    <3> QED BY <1>2, <1>4, <1>5, <3>2 DEF LocksOfAdd
  <2> QED BY <2>1, <2>2, <2>3
<1>6. CASE stage[t] # "increment" BY <1>2, <1>4, <1>6 DEF LocksOfAdd
<1> QED BY <1>5, <1>6

LEMMA BatchGrant ==
  ASSUME LocksInv, NEW t \in Batch, GrantLock(t) PROVE LocksOfBatch(t)'
<1>1. t \in Tx BY DEF Tx
<1>2. /\ todo[t] # <<>> /\ stage'[t] = stage[t] /\ mine'[t] = mine[t]
      /\ held'[t] = held[t] \cup {Head(todo[t])} /\ todo'[t] = Tail(todo[t])
  BY <1>1, GrantedLock DEF LocksInv
<1>3. LocksOfBatch(t) /\ stage[t] = "commit"
  BY <1>1, <1>2 DEF LocksInv, LocksOf, LocksOfBatch
<1>4. PICK events \in BatchInput :
        LET rows == ScoreRows(events) \o HistoryRows(events)
        IN \E n \in 0 .. Len(rows) :
             /\ IsSequence(todo[t]) /\ Len(todo[t]) = Len(rows) - n
             /\ \A k \in DOMAIN todo[t] : todo[t][k] = rows[n + k]
             /\ held[t] = {rows[k] : k \in 1 .. n}
  BY <1>3 DEF LocksOfBatch
<1> DEFINE rows == ScoreRows(events) \o HistoryRows(events)
<1>5. IsSequence(rows) /\ Len(rows) \in Nat BY WindowRows, LengthAdds DEF IsSequence
<1>6. PICK n \in 0 .. Len(rows) :
        /\ IsSequence(todo[t]) /\ Len(todo[t]) = Len(rows) - n
        /\ \A k \in DOMAIN todo[t] : todo[t][k] = rows[n + k]
        /\ held[t] = {rows[k] : k \in 1 .. n}
  BY <1>4
<1> HIDE DEF rows
<1>7. /\ Head(todo[t]) = todo[t][1] /\ Len(todo[t]) \in Nat \ {0} /\ DOMAIN todo[t] = 1 .. Len(todo[t])
      /\ IsSequence(Tail(todo[t])) /\ Len(Tail(todo[t])) = Len(todo[t]) - 1
      /\ \A k \in DOMAIN Tail(todo[t]) : Tail(todo[t])[k] = todo[t][k + 1] /\ k + 1 \in DOMAIN todo[t]
  BY <1>2, <1>6, SequenceEnds
<1>8. n + 1 \in 0 .. Len(rows) /\ Head(todo[t]) = rows[n + 1] BY <1>5, <1>6, <1>7
<1>9. held'[t] = {rows[k] : k \in 1 .. (n + 1)}
  <2>1. 1 .. (n + 1) = (1 .. n) \cup {n + 1} BY <1>5, <1>6
  <2> QED BY <1>2, <1>6, <1>8, <2>1
<1>10. \A k \in DOMAIN todo'[t] : todo'[t][k] = rows[(n + 1) + k]
  <2> TAKE k \in DOMAIN todo'[t]
  <2>1. k \in 1 .. Len(Tail(todo[t])) BY <1>2, <1>7 DEF IsSequence
  <2>2. todo'[t][k] = rows[n + (k + 1)] BY <1>2, <1>6, <1>7
  <2>3. n + (k + 1) = (n + 1) + k BY <1>5, <1>6, <1>7, <2>1
  <2> QED BY <2>2, <2>3
<1>11. IsSequence(todo'[t]) /\ Len(todo'[t]) = Len(rows) - (n + 1)
  BY <1>2, <1>5, <1>6, <1>7 DEF IsSequence
<1>12. \E j \in 0 .. Len(rows) :
         /\ IsSequence(todo'[t]) /\ Len(todo'[t]) = Len(rows) - j
         /\ \A k \in DOMAIN todo'[t] : todo'[t][k] = rows[j + k]
         /\ held'[t] = {rows[k] : k \in 1 .. j}
  <2> WITNESS n + 1 \in 0 .. Len(rows)
  <2> QED BY <1>9, <1>10, <1>11
<1> QED BY <1>2, <1>3, <1>12 DEF LocksOfBatch, IsSequence, rows

LEMMA LocksOfGrant ==
  ASSUME LocksInv, IndInv', NEW t \in Tx, GrantLock(t) PROVE LocksInv'
<1>1. /\ todo[t] # <<>> /\ stage'[t] = stage[t] /\ \A o \in Tx \ {t} : Same(o)
  BY GrantedLock DEF LocksInv
<1>2. stage[t] \notin {"new", "done"} BY <1>1 DEF LocksInv, LocksOf
<1>3. LocksOf(t)' BY <1>1, <1>2, MultiGrant, AddGrant, BatchGrant DEF LocksOf
<1> QED BY <1>1, <1>3, LocksInvFrom

LEMMA LocksInvInit == Init => LocksInv
<1> SUFFICES ASSUME Init PROVE LocksInv OBVIOUS
<1>1. ASSUME NEW t \in Tx PROVE LocksOf(t)
  BY DEF Init, LocksOf, LocksOfMulti, LocksOfAdd, LocksOfBatch
<1> QED BY <1>1, IndInvInit DEF LocksInv

LEMMA LocksInvNext == LocksInv /\ [Next]_vars => LocksInv'
<1> SUFFICES ASSUME LocksInv, [Next]_vars PROVE LocksInv' OBVIOUS
<1>1. IndInv' BY IndInvNext DEF LocksInv
<1>2. \A t \in Tx : \A code : EndWith(t, code) => LocksInv' BY <1>1, LocksDropped DEF EndWith
<1>3. ASSUME NEW t \in Multi, MultiNext(t) PROVE LocksInv'
  <2>1. t \in Tx BY DEF Tx
  <2>2. ASSUME NEW q \in MultiInput, NEW items \in Masters, stage[t] = "new",
               RefuseMulti(t, q, items) \/ BeginMulti(t, q, items)
        PROVE  LocksInv'
    BY <1>1, <1>2, <2>1, <2>2, LocksOfBeginMulti DEF RefuseMulti
  <2>3. CASE RefuseDraw(t) BY <1>2, <2>1, <2>3 DEF RefuseDraw
  <2>4. CASE Draw(t) BY <1>1, <2>4, LocksOfDraw
  <2>5. CASE CommitMulti(t)
    <3>1. PICK code \in Told : Reply(t, code, mine[t].result) BY <2>5 DEF CommitMulti
    <3> QED BY <1>1, <2>1, <3>1, LocksDropped
  <2> QED BY <1>3, <2>2, <2>3, <2>4, <2>5 DEF MultiNext
<1>4. ASSUME NEW t \in Add, AddNext(t) PROVE LocksInv'
  <2>1. t \in Tx BY DEF Tx
  <2>2. ASSUME NEW q \in AddInput, stage[t] = "new", RefuseAdd(t, q) \/ BeginAdd(t, q)
        PROVE  LocksInv'
    BY <1>1, <1>2, <2>1, <2>2, LocksOfBeginAdd DEF RefuseAdd
  <2>3. CASE ReadBack(t) BY <1>1, <2>3, LocksOfReadBack
  <2>4. CASE CommitAdd(t)
    <3>1. PICK code \in Told : Reply(t, code, mine[t].result) BY <2>4 DEF CommitAdd
    <3> QED BY <1>1, <2>1, <3>1, LocksDropped
  <2>5. CASE FindNoRow(t) BY <1>2, <2>1, <2>5 DEF FindNoRow
  <2> QED BY <1>4, <2>2, <2>3, <2>4, <2>5 DEF AddNext
<1>5. ASSUME NEW t \in Batch, BatchNext(t) PROVE LocksInv'
  <2>1. t \in Tx BY DEF Tx
  <2>2. CommitBatch(t) => LocksInv' BY <1>2, <2>1 DEF CommitBatch
  <2> QED BY <1>1, <1>5, <2>2, LocksOfBeginBatch DEF BatchNext
<1>6. ASSUME NEW t \in Tx, GrantLock(t) \/ Fail(t) PROVE LocksInv'
  BY <1>1, <1>2, <1>6, LocksOfGrant DEF Fail
<1>7. CASE UNCHANGED vars
  <2>1. \A t : Same(t) BY <1>7 DEF vars, Same
  <2> QED BY <1>1, <2>1, LocksKeptBy DEF LocksInv
<1> QED BY <1>3, <1>4, <1>5, <1>6, <1>7 DEF Next, Terminated

-----------------------------------------------------------------------------
(* What a transaction waits for, and what it keeps others from meanwhile.  *)
UserLock(u) == XLock(<<"users", u>>)
UserShared(u) == SLock(<<"users", u>>)
GuildLock(g) == XLock(<<"guild_scores", g>>)

Wants(t, l) == todo[t] # <<>> /\ Head(todo[t]) = l
ForBalance(t) == \E u : Wants(t, UserLock(u)) /\ held[t] = {}
ForItem(t) ==
  \E u, i : /\ Wants(t, XLock(<<"user_items", u, i>>)) /\ UserLock(u) \in held[t]
            /\ \A l \in held[t] : l = UserLock(u) \/ \E j : l = XLock(<<"user_items", u, j>>)
ForUser(t) == \E u : Wants(t, UserShared(u)) /\ held[t] = {}
ForPoints(t) == \E u : Wants(t, XLock(<<"user_points", u>>)) /\ held[t] = {UserShared(u)}
ForGuild(t) ==
  \E g \in Guild : Wants(t, GuildLock(g)) /\ \A l \in held[t] : \E h \in Guild : h < g /\ l = GuildLock(h)
\* Every user whose events are in the window has its guild locked.
ForHistory(t) ==
  \E u \in User :
    /\ Wants(t, UserShared(u)) /\ GuildLock(GuildOf[u]) \in held[t]
    /\ \A l \in held[t] : \/ \E h : l = GuildLock(h)
                          \/ \E v : l = UserShared(v) /\ GuildLock(GuildOf[v]) \in held[t]

LEMMA MultiWaits ==
  ASSUME LocksInv, NEW t \in Multi, todo[t] # <<>> PROVE ForBalance(t) \/ ForItem(t)
<1> DEFINE u == mine[t].user
<1>1. t \in Tx BY DEF Tx
<1>2. LocksOfMulti(t) /\ stage[t] \notin {"new", "done"} BY <1>1 DEF LocksInv, LocksOf
<1>3. BalanceOf(t) BY PerTransaction DEF LocksInv, IndInv
<1>4. CASE stage[t] = "user"
  <2>1. todo[t] = <<UserLock(u)>> /\ held[t] = {} BY <1>2, <1>4 DEF LocksOfMulti, UserLock
  <2>2. Head(todo[t]) = UserLock(u)
    <3>1. Head(<<UserLock(u)>>) = UserLock(u) BY HeadTail, Zenon
    <3> QED BY <2>1, <3>1, Zenon
  <2> QED BY <2>1, <2>2 DEF ForBalance, Wants
<1>5. CASE stage[t] = "commit"
  <2> DEFINE i == Head(todo[t]).row[3]
  <2>1. /\ IsSequence(todo[t]) /\ UserLock(u) \in held[t]
        /\ \A k \in DOMAIN todo[t] : todo[t][k] = XLock(<<"user_items", u, todo[t][k].row[3]>>)
        /\ \A l \in held[t] : l = UserLock(u) \/ l = XLock(<<"user_items", u, l.row[3]>>)
    BY <1>2, <1>5 DEF LocksOfMulti, UserLock
  <2>2. Head(todo[t]) = todo[t][1] /\ 1 \in DOMAIN todo[t] BY <2>1, SequenceEnds
  <2>3. Head(todo[t]) = XLock(<<"user_items", u, i>>) BY <2>1, <2>2
  <2> HIDE DEF u, i
  <2>4. \A l \in held[t] : l = UserLock(u) \/ \E j : l = XLock(<<"user_items", u, j>>) BY <2>1
  <2> QED BY <2>1, <2>3, <2>4 DEF ForItem, Wants
<1> QED BY <1>2, <1>3, <1>4, <1>5 DEF BalanceOf

LEMMA AddWaits ==
  ASSUME LocksInv, NEW t \in Add, todo[t] # <<>> PROVE ForUser(t) \/ ForPoints(t)
<1> DEFINE u == mine[t].user
           row == XLock(<<"user_points", u>>)
<1>1. t \in Tx BY DEF Tx
<1>2. LocksOfAdd(t) /\ stage[t] \notin {"new", "done"} BY <1>1 DEF LocksInv, LocksOf
<1>3. TotalOf(t) BY PerTransaction DEF LocksInv, IndInv
<1>4. \/ todo[t] = <<UserShared(u), row>> /\ held[t] = {}
      \/ todo[t] = <<row>> /\ held[t] = {UserShared(u)}
  BY <1>2, <1>3 DEF LocksOfAdd, TotalOf, UserShared
<1>5. CASE todo[t] = <<UserShared(u), row>> /\ held[t] = {}
  <2>1. Head(<<UserShared(u), row>>) = UserShared(u) BY HeadTail, Zenon
  <2>2. Head(todo[t]) = UserShared(u) BY <1>5, <2>1, Zenon
  <2> QED BY <1>5, <2>2 DEF ForUser, Wants
<1>6. CASE todo[t] = <<row>> /\ held[t] = {UserShared(u)}
  <2>1. Head(<<row>>) = row BY HeadTail, Zenon
  <2>2. Head(todo[t]) = row BY <1>6, <2>1, Zenon
  <2> QED BY <1>6, <2>2 DEF ForPoints, Wants
<1> QED BY <1>4, <1>5, <1>6

LEMMA BatchWaits ==
  ASSUME LocksInv, NEW t \in Batch, todo[t] # <<>> PROVE ForGuild(t) \/ ForHistory(t)
<1>1. t \in Tx BY DEF Tx
<1>2. LocksOfBatch(t) /\ stage[t] = "commit" BY <1>1 DEF LocksInv, LocksOf, LocksOfBatch
<1>3. PICK events \in BatchInput :
        LET rows == ScoreRows(events) \o HistoryRows(events)
        IN \E n \in 0 .. Len(rows) :
             /\ IsSequence(todo[t]) /\ Len(todo[t]) = Len(rows) - n
             /\ \A k \in DOMAIN todo[t] : todo[t][k] = rows[n + k]
             /\ held[t] = {rows[k] : k \in 1 .. n}
  BY <1>2 DEF LocksOfBatch
<1> DEFINE p == ScoreRows(events)
           q == HistoryRows(events)
           rows == p \o q
<1>4. PICK n \in 0 .. Len(rows) :
        /\ IsSequence(todo[t]) /\ Len(todo[t]) = Len(rows) - n
        /\ \A k \in DOMAIN todo[t] : todo[t][k] = rows[n + k]
        /\ held[t] = {rows[k] : k \in 1 .. n}
  BY <1>3
<1>5. /\ IsSequence(p) /\ IsSequence(q)
      /\ \A k \in DOMAIN p : \E g \in Guild : p[k] = GuildLock(g)
      /\ \A j, k \in DOMAIN p : j < k =>
           \E g, h \in Guild : g < h /\ p[j] = GuildLock(g) /\ p[k] = GuildLock(h)
      /\ \A k \in DOMAIN q : \E u \in User :
           q[k] = UserShared(u) /\ \E j \in DOMAIN p : p[j] = GuildLock(GuildOf[u])
  BY WindowRows DEF GuildLock, UserShared
<1> HIDE DEF p, q
<1>6. /\ DOMAIN p = 1 .. Len(p) /\ DOMAIN q = 1 .. Len(q)
      /\ Len(p) \in Nat /\ Len(q) \in Nat /\ Len(rows) = Len(p) + Len(q)
      /\ \A k \in 1 .. Len(p) : rows[k] = p[k]
      /\ \A k \in (Len(p) + 1) .. (Len(p) + Len(q)) : rows[k] = q[k - Len(p)]
  BY <1>5, Joined DEF IsSequence
<1> HIDE DEF rows
<1>7. Head(todo[t]) = rows[n + 1] /\ n < Len(rows) /\ n \in Nat
  <2>1. Head(todo[t]) = todo[t][1] /\ Len(todo[t]) \in Nat \ {0} /\ DOMAIN todo[t] = 1 .. Len(todo[t])
    BY <1>4, SequenceEnds
  <2>2. Len(rows) \in Nat BY <1>6
  <2>3. n \in Nat /\ n < Len(rows) BY <1>4, <2>1, <2>2
  <2>4. todo[t][1] = rows[n + 1] BY <1>4, <2>1
  <2> QED BY <2>1, <2>3, <2>4
<1>8. CASE n < Len(p)
  <2>1. n + 1 \in DOMAIN p /\ Head(todo[t]) = p[n + 1] BY <1>6, <1>7, <1>8
  <2>2. PICK g \in Guild : p[n + 1] = GuildLock(g) BY <1>5, <2>1
  <2>3. ASSUME NEW l \in held[t] PROVE \E h \in Guild : h < g /\ l = GuildLock(h)
    <3>1. PICK k \in 1 .. n : l = rows[k] BY <1>4
    <3>2. k \in DOMAIN p /\ k < n + 1 /\ l = p[k] BY <1>6, <1>7, <1>8, <3>1
    <3>3. PICK h, f \in Guild : h < f /\ p[k] = GuildLock(h) /\ p[n + 1] = GuildLock(f)
      BY <1>5, <2>1, <3>2
    <3>4. f = g BY <2>2, <3>3 DEF GuildLock, XLock
    <3> QED BY <3>2, <3>3, <3>4
  <2> QED BY <2>1, <2>2, <2>3 DEF ForGuild, Wants
<1>9. CASE n >= Len(p)
  <2>1. \A j \in DOMAIN p : p[j] \in held[t]
    <3> TAKE j \in DOMAIN p
    <3>1. j \in 1 .. n /\ rows[j] = p[j] BY <1>6, <1>7, <1>9
    <3> QED BY <1>4, <3>1
  <2>2. \A k \in DOMAIN q : \E u \in User : q[k] = UserShared(u) /\ GuildLock(GuildOf[u]) \in held[t]
    BY <1>5, <2>1
  <2>3. (n + 1) - Len(p) \in DOMAIN q /\ Head(todo[t]) = q[(n + 1) - Len(p)] BY <1>6, <1>7, <1>9
  <2>4. ASSUME NEW l \in held[t]
        PROVE  \/ \E h : l = GuildLock(h)
               \/ \E v : l = UserShared(v) /\ GuildLock(GuildOf[v]) \in held[t]
    <3>1. PICK k \in 1 .. n : l = rows[k] BY <1>4
    <3>2. CASE k <= Len(p)
      <4>1. k \in DOMAIN p /\ l = p[k] BY <1>6, <3>1, <3>2
      <4> QED BY <1>5, <4>1
    <3>3. CASE k > Len(p)
      <4>1. k - Len(p) \in DOMAIN q /\ l = q[k - Len(p)] BY <1>6, <1>7, <3>1, <3>3
      <4> QED BY <2>2, <4>1
    <3> QED BY <1>6, <3>2, <3>3
  <2> QED BY <2>2, <2>3, <2>4 DEF ForHistory, Wants
<1> QED BY <1>6, <1>7, <1>8, <1>9

LEMMA EachWaits ==
  ASSUME LocksInv, NEW t \in Tx, todo[t] # <<>>
  PROVE  \/ ForBalance(t) \/ ForItem(t) \/ ForUser(t) \/ ForPoints(t) \/ ForGuild(t) \/ ForHistory(t)
BY MultiWaits, AddWaits, BatchWaits DEF Tx

LEMMA RowsDiffer ==
  /\ \A u, v : <<"users", u>> # <<"user_points", v>> /\ <<"users", u>> # <<"guild_scores", v>>
               /\ <<"user_points", u>> # <<"guild_scores", v>>
  /\ \A u, v, i : <<"users", u>> # <<"user_items", v, i>> /\ <<"user_points", u>> # <<"user_items", v, i>>
                  /\ <<"guild_scores", u>> # <<"user_items", v, i>>
  /\ \A u, v : <<"users", u>> = <<"users", v>> => u = v
  /\ \A g, h : <<"guild_scores", g>> = <<"guild_scores", h>> => g = h
  /\ \A u, v, i, j : <<"user_items", u, i>> = <<"user_items", v, j>> => u = v
OBVIOUS

LEMMA LockRows ==
  /\ \A u : UserLock(u).row = <<"users", u>> /\ UserLock(u).mode = "X"
  /\ \A u : UserShared(u).row = <<"users", u>> /\ UserShared(u).mode = "S"
  /\ \A g : GuildLock(g).row = <<"guild_scores", g>> /\ GuildLock(g).mode = "X"
  /\ \A row : XLock(row).row = row /\ XLock(row).mode = "X"
BY DEF UserLock, UserShared, GuildLock, XLock, SLock

\* What the transactions hold that wait.
LEMMA HeldWaiting ==
  ASSUME NEW o
  PROVE  /\ ForBalance(o) \/ ForUser(o) => held[o] = {}
         /\ ForPoints(o) => \A k \in held[o] : \E u : k = UserShared(u)
         /\ ForGuild(o) => \A k \in held[o] : \E g : k = GuildLock(g)
         /\ ForHistory(o) => \A k \in held[o] : (\E g : k = GuildLock(g)) \/ \E u : k = UserShared(u)
BY DEF ForBalance, ForUser, ForPoints, ForGuild, ForHistory

\* The transactions of ts wait, each for another one of ts.
Stuck(ts) ==
  /\ ts \subseteq Tx /\ \A t \in ts : todo[t] # <<>> /\ Head(todo[t]) \notin held[t]
  /\ \A t \in ts : \E o \in ts : WaitsFor(t, o)

\* Whose lock is in the way of t, or who is in the queue before it.
LEMMA InTheWay ==
  ASSUME LocksInv, NEW ts, Stuck(ts), NEW t \in ts, NEW l, Wants(t, l)
  PROVE  \E o \in ts :
           /\ o # t /\ o \in Tx /\ t \in Tx
           /\ \/ ForBalance(o) \/ ForItem(o) \/ ForUser(o) \/ ForPoints(o) \/ ForGuild(o) \/ ForHistory(o)
           /\ \/ \E k \in held[o] : k.row = l.row /\ "X" \in {k.mode, l.mode}
              \/ l.mode = "S" /\ Wants(o, XLock(l.row))
<1>1. PICK o \in ts : WaitsFor(t, o) BY DEF Stuck
<1>2. o \in Tx /\ t \in Tx /\ todo[o] # <<>> BY DEF Stuck
<1> QED BY <1>1, <1>2, EachWaits DEF WaitsFor, Wants, Conflict

LEMMA NobodyForItems ==
  ASSUME LocksInv, NEW ts, Stuck(ts), NEW t \in ts PROVE ~ForItem(t)
<1> SUFFICES ASSUME ForItem(t) PROVE FALSE OBVIOUS
<1>1. PICK u, i : /\ Wants(t, XLock(<<"user_items", u, i>>)) /\ UserLock(u) \in held[t]
  BY DEF ForItem
<1>2. PICK o \in ts :
        /\ o # t /\ o \in Tx /\ t \in Tx
        /\ \/ ForBalance(o) \/ ForItem(o) \/ ForUser(o) \/ ForPoints(o) \/ ForGuild(o) \/ ForHistory(o)
        /\ \E k \in held[o] : k.row = <<"user_items", u, i>>
  BY <1>1, InTheWay DEF XLock
<1>3. PICK k \in held[o] : k.row = <<"user_items", u, i>> BY <1>2
<1>4. ForItem(o)
  <2>1. (\A v : k # UserShared(v)) /\ (\A g : k # GuildLock(g)) BY <1>3, LockRows, RowsDiffer
  <2> QED BY <1>2, <2>1, HeldWaiting
<1>5. PICK v : /\ UserLock(v) \in held[o]
               /\ \A l \in held[o] : l = UserLock(v) \/ \E j : l = XLock(<<"user_items", v, j>>)
  BY <1>4 DEF ForItem
<1>6. v = u BY <1>3, <1>5, RowsDiffer DEF UserLock, XLock
<1> QED BY <1>1, <1>2, <1>5, <1>6, Exclusive DEF UserLock, LocksInv, IndInv

LEMMA NobodyForPoints ==
  ASSUME LocksInv, NEW ts, Stuck(ts), NEW t \in ts PROVE ~ForPoints(t)
<1> SUFFICES ASSUME ForPoints(t) PROVE FALSE OBVIOUS
<1>1. PICK u : Wants(t, XLock(<<"user_points", u>>)) BY DEF ForPoints
<1>2. PICK o \in ts :
        /\ \/ ForBalance(o) \/ ForItem(o) \/ ForUser(o) \/ ForPoints(o) \/ ForGuild(o) \/ ForHistory(o)
        /\ \E k \in held[o] : k.row = <<"user_points", u>>
  BY <1>1, InTheWay DEF XLock
<1>3. PICK k \in held[o] : k.row = <<"user_points", u>> BY <1>2
<1>4. (\A v : k # UserShared(v)) /\ (\A g : k # GuildLock(g)) BY <1>3, LockRows, RowsDiffer
<1>5. ForItem(o) BY <1>2, <1>4, HeldWaiting
<1> QED BY <1>5, NobodyForItems

\* Who wants to share the row of a user waits for a request that wants to write it.
LEMMA SharedBehindBalance ==
  ASSUME LocksInv, NEW ts, Stuck(ts), NEW t \in ts, NEW u, Wants(t, UserShared(u))
  PROVE  \E o \in ts : ForBalance(o) /\ Wants(o, UserLock(u))
<1>1. PICK o \in ts :
        /\ \/ ForBalance(o) \/ ForItem(o) \/ ForUser(o) \/ ForPoints(o) \/ ForGuild(o) \/ ForHistory(o)
        /\ \/ \E k \in held[o] : k.row = <<"users", u>> /\ k.mode = "X"
           \/ Wants(o, UserLock(u))
  BY InTheWay DEF XLock, SLock, UserShared, UserLock
<1>2. ~ForItem(o) /\ ~ForPoints(o) BY NobodyForItems, NobodyForPoints
<1>3. ~ \E k \in held[o] : k.row = <<"users", u>> /\ k.mode = "X"
  <2> SUFFICES ASSUME NEW k \in held[o], k.row = <<"users", u>>, k.mode = "X" PROVE FALSE OBVIOUS
  <2>1. (\A v : k # UserShared(v)) /\ (\A g : k # GuildLock(g)) BY LockRows, RowsDiffer
  <2> QED BY <1>1, <1>2, <2>1, HeldWaiting
<1>4. Wants(o, UserLock(u)) BY <1>1, <1>3
<1>5. ForBalance(o)
  <2>1. Head(todo[o]).row = <<"users", u>> /\ Head(todo[o]).mode = "X"
    BY <1>4, LockRows DEF Wants
  <2>2. (\A v : Head(todo[o]) # UserShared(v)) /\ (\A g : Head(todo[o]) # GuildLock(g))
    BY <2>1, LockRows, RowsDiffer
  <2> QED BY <1>1, <1>2, <2>2 DEF ForUser, ForGuild, ForHistory, Wants
<1> QED BY <1>4, <1>5

\* Who wants to write it waits for a worker that shares it and has its guild locked.
LEMMA BalanceBehindHistory ==
  ASSUME LocksInv, NEW ts, Stuck(ts), NEW t \in ts, NEW u, Wants(t, UserLock(u))
  PROVE  \E o \in ts : /\ ForHistory(o) /\ UserShared(u) \in held[o] /\ GuildLock(GuildOf[u]) \in held[o]
<1>1. PICK o \in ts :
        /\ \/ ForBalance(o) \/ ForItem(o) \/ ForUser(o) \/ ForPoints(o) \/ ForGuild(o) \/ ForHistory(o)
        /\ \E k \in held[o] : k.row = <<"users", u>>
  BY InTheWay DEF XLock, UserLock
<1>2. ~ForItem(o) /\ ~ForPoints(o) BY NobodyForItems, NobodyForPoints
<1>3. PICK k \in held[o] : k.row = <<"users", u>> BY <1>1
<1>4. ForHistory(o)
  <2>1. \A g : k # GuildLock(g) BY <1>3, LockRows, RowsDiffer
  <2> QED BY <1>1, <1>2, <2>1, HeldWaiting
<1>5. \/ \E h : k = GuildLock(h)
      \/ \E v : k = UserShared(v) /\ GuildLock(GuildOf[v]) \in held[o]
  BY <1>4 DEF ForHistory
<1>6. PICK v : k = UserShared(v) /\ GuildLock(GuildOf[v]) \in held[o]
  BY <1>3, <1>5, LockRows, RowsDiffer
<1>7. v = u BY <1>3, <1>6, LockRows, RowsDiffer
<1> QED BY <1>4, <1>6, <1>7

\* Two workers that share a user's row in turn would both have its guild locked.
LEMMA NobodyForHistory ==
  ASSUME LocksInv, NEW ts, Stuck(ts), NEW b \in ts PROVE ~ForHistory(b)
<1> SUFFICES ASSUME ForHistory(b) PROVE FALSE OBVIOUS
<1>1. PICK u \in User : Wants(b, UserShared(u)) /\ GuildLock(GuildOf[u]) \in held[b]
  BY DEF ForHistory
<1>2. PICK m \in ts : Wants(m, UserLock(u)) BY <1>1, SharedBehindBalance
<1>3. PICK o \in ts : UserShared(u) \in held[o] /\ GuildLock(GuildOf[u]) \in held[o]
  BY <1>2, BalanceBehindHistory
<1>4. UserShared(u) \notin held[b] BY <1>1 DEF Stuck, Wants
<1>5. o # b /\ o \in Tx /\ b \in Tx BY <1>3, <1>4 DEF Stuck
<1> QED BY <1>1, <1>3, <1>5, Exclusive DEF GuildLock, LocksInv, IndInv

LEMMA OnlyForGuilds ==
  ASSUME LocksInv, NEW ts, Stuck(ts), NEW t \in ts PROVE ForGuild(t)
<1>1. t \in Tx /\ todo[t] # <<>> BY DEF Stuck
<1>2. ~ForItem(t) /\ ~ForPoints(t) /\ ~ForHistory(t)
  BY NobodyForItems, NobodyForPoints, NobodyForHistory
<1>3. ~ForBalance(t) BY BalanceBehindHistory, NobodyForHistory DEF ForBalance
<1>4. ~ForUser(t)
  <2> SUFFICES ASSUME ForUser(t) PROVE FALSE OBVIOUS
  <2>1. PICK u : Wants(t, UserShared(u)) BY DEF ForUser
  <2>2. PICK o \in ts : Wants(o, UserLock(u)) BY <2>1, SharedBehindBalance
  <2> QED BY <2>2, BalanceBehindHistory, NobodyForHistory
<1> QED BY <1>1, <1>2, <1>3, <1>4, EachWaits

\* The guilds are locked in ascending order: the largest one waited for is free.
LEMMA NobodyStuck ==
  ASSUME LocksInv, NEW ts, Stuck(ts) PROVE ts = {}
<1> DEFINE G == {g \in Guild : \E t \in ts : Wants(t, GuildLock(g))}
<1>1. IsFiniteSet(G) /\ G \in SUBSET Int
  <2>1. G \in SUBSET Guild /\ IsFiniteSet(Guild) /\ Guild \subseteq Int BY InputAssumption
  <2> HIDE DEF G
  <2> QED BY <2>1, FS_Subset
<1>2. \A t \in ts : \E g \in G : Wants(t, GuildLock(g)) BY OnlyForGuilds DEF ForGuild
<1>3. ASSUME NEW g \in G PROVE \E h \in G : g < h
  <2>1. PICK t \in ts : Wants(t, GuildLock(g)) OBVIOUS
  <2>2. PICK o \in ts : \E k \in held[o] : k.row = <<"guild_scores", g>>
    BY <2>1, InTheWay DEF GuildLock, XLock
  <2>3. PICK h \in Guild :
          Wants(o, GuildLock(h)) /\ \A l \in held[o] : \E f \in Guild : f < h /\ l = GuildLock(f)
    BY OnlyForGuilds DEF ForGuild
  <2>4. g < h BY <2>2, <2>3, RowsDiffer DEF GuildLock, XLock
  <2> QED BY <2>3, <2>4
<1>4. G = {}
  <2> HIDE DEF G
  <2> SUFFICES ASSUME G # {} PROVE FALSE OBVIOUS
  <2>1. PICK x \in G : \A y \in G : y <= x BY <1>1, LargestOf
  <2>2. PICK h \in G : x < h BY <1>3
  <2> QED BY <1>1, <2>1, <2>2
<1> QED BY <1>2, <1>4

LEMMA CircleFree == LocksInv => NoDeadlock
<1> SUFFICES ASSUME LocksInv, NEW ts \in SUBSET {t \in Tx : \E o \in Tx : WaitsFor(t, o)}, ts # {},
                    \A t \in ts : \E o \in ts : WaitsFor(t, o)
             PROVE  FALSE
  BY DEF NoDeadlock
<1>1. Stuck(ts) BY DEF Stuck, WaitsFor
<1> QED BY <1>1, NobodyStuck

\* Whatever requests and workers run at the same time, some transaction that waits does
\* not wait for the others (BulkIncrementGuildScores sorts the guilds it locks, a gacha
\* request locks its user before its items, a point addition leaves the guild alone).
THEOREM NoDeadlockHolds == Spec => []NoDeadlock
BY LocksInvInit, LocksInvNext, CircleFree, PTL DEF Spec

-----------------------------------------------------------------------------
(* Requests take effect one at a time on the accounts.                     *)

\* What is drawn has a weight; without a sum of weights there is nothing to draw.
LEMMA PickDraws ==
  ASSUME NEW w \in Seq(Int), NEW r \in 0 .. TotalWeight(w) - 1
  PROVE  Pick(w, r) \in DOMAIN w /\ w[Pick(w, r)] > 0
<1>1. PICK x \in DOMAIN w : Accumulated(w, x - 1) <= r /\ r < Accumulated(w, x) BY IntervalOf
<1>2. Pick(w, r) = x BY <1>1, PickIsInterval
<1>3. /\ x \in 1 .. Len(w) /\ x - 1 \in 0 .. Len(w) /\ Len(w) \in Nat /\ w[x] \in Int
      /\ r \in Int
  OBVIOUS
<1>4. Accumulated(w, x) = Accumulated(w, x - 1) + Gain(w, x) /\ Accumulated(w, x - 1) \in Nat
  BY <1>3, AccumulatedGrows
<1>5. w[x] > 0 BY <1>1, <1>3, <1>4 DEF Gain
<1> QED BY <1>2, <1>5

LEMMA NoWeights ==
  ASSUME NEW w \in Seq(Int), TotalWeight(w) <= 0
  PROVE  \A i \in DOMAIN w : w[i] <= 0
<1> SUFFICES ASSUME NEW i \in DOMAIN w, ~(w[i] <= 0) PROVE FALSE OBVIOUS
<1>1. /\ i \in 1 .. Len(w) /\ i \in 0 .. Len(w) /\ i - 1 \in 0 .. Len(w) /\ Len(w) \in 0 .. Len(w)
      /\ i <= Len(w) /\ w[i] \in Int
  OBVIOUS
<1>2. /\ Accumulated(w, i) = Accumulated(w, i - 1) + Gain(w, i)
      /\ Accumulated(w, i - 1) \in Nat /\ Accumulated(w, i) \in Nat /\ TotalWeight(w) \in Nat
      /\ Accumulated(w, i) <= TotalWeight(w)
  BY <1>1, AccumulatedGrows DEF TotalWeight
<1>3. Gain(w, i) = w[i] /\ w[i] > 0 BY <1>1 DEF Gain
<1> QED BY <1>1, <1>2, <1>3

\* A request within its transaction has passed the checks before it, and has drawn from the
\* list it has read.
CheckedMulti(t) ==
  /\ stage[t] = "user" => IsValidPullCount(mine[t].amount) /\ mine[t].items \in Masters
  /\ stage[t] = "commit" =>
       /\ IsValidPullCount(mine[t].amount)
       /\ mine[t].drawn \in [1 .. mine[t].amount -> Item] /\ Books!Drawable(mine[t].drawn)

CheckedAdd(t) ==
  stage[t] \in {"increment", "commit"} => IsValidScore(mine[t].amount) /\ GuildOf[mine[t].user] # 0

Checked == (\A t \in Multi : CheckedMulti(t)) /\ (\A t \in Add : CheckedAdd(t))
BooksInv == ItemsInv /\ Checked

LEMMA CheckedKept ==
  ASSUME Checked, NEW t \in Tx, \A o \in Tx \ {t} : Same(o),
         t \in Multi => CheckedMulti(t)', t \in Add => CheckedAdd(t)'
  PROVE  Checked'
<1>1. ASSUME NEW o \in Multi PROVE CheckedMulti(o)'
  <2>1. CASE o = t BY <2>1
  <2>2. CASE o # t
    <3>1. CheckedMulti(o) /\ stage'[o] = stage[o] /\ mine'[o] = mine[o]
      BY <2>2 DEF Checked, Same, Tx
    <3> QED BY <3>1 DEF CheckedMulti
  <2> QED BY <2>1, <2>2
<1>2. ASSUME NEW o \in Add PROVE CheckedAdd(o)'
  <2>1. CASE o = t BY <2>1
  <2>2. CASE o # t
    <3>1. CheckedAdd(o) /\ stage'[o] = stage[o] /\ mine'[o] = mine[o]
      BY <2>2 DEF Checked, Same, Tx
    <3> QED BY <3>1 DEF CheckedAdd
  <2> QED BY <2>1, <2>2
<1> QED BY <1>1, <1>2 DEF Checked, CheckedMulti, CheckedAdd

LEMMA CheckedDraw ==
  ASSUME BooksInv, NEW t \in Multi, Draw(t) PROVE Checked'
<1> DEFINE w == mine[t].items
           n == mine[t].amount
           u == mine[t].user
<1>1. t \in Tx /\ t \notin Add /\ TypeOK BY DisjointTx DEF Tx, BooksInv, ItemsInv, IndInv
<1>2. PICK r \in [1 .. n -> 0 .. TotalWeight(w) - 1] :
        LET drawn == [k \in 1 .. n |-> Pick(w, r[k])]
        IN Enter(t, "commit", ItemRows(u, drawn),
                 [mine[t] EXCEPT !.items = <<>>, !.drawn = drawn, !.result = gems[u] - GemCostFor(n)])
  BY DEF Draw
<1> DEFINE drawn == [k \in 1 .. n |-> Pick(w, r[k])]
           m == [mine[t] EXCEPT !.items = <<>>, !.drawn = drawn, !.result = gems[u] - GemCostFor(n)]
<1>3. Enter(t, "commit", ItemRows(u, drawn), m) BY <1>2
<1>4. w \in Masters /\ IsValidPullCount(n) BY DEF BooksInv, Checked, CheckedMulti, Draw, At
<1>5. w \in Seq(Int) /\ DOMAIN w \subseteq Item BY <1>4, DataAssumption
<1>6. ASSUME NEW k \in 1 .. n PROVE Pick(w, r[k]) \in DOMAIN w /\ w[Pick(w, r[k])] > 0
  <2>1. r[k] \in 0 .. TotalWeight(w) - 1 BY <1>2
  <2> HIDE DEF w
  <2> QED BY <1>5, <2>1, PickDraws
<1>7. m.drawn = drawn /\ m.amount = n BY <1>1 DEF TypeOK, Nothing
<1> HIDE DEF w, m
<1>8. drawn \in [1 .. n -> Item] /\ DOMAIN drawn = 1 .. n BY <1>5, <1>6
<1>9. Books!Drawable(drawn) BY <1>4, <1>6, <1>8 DEF Books!Drawable
<1>10. stage'[t] = "commit" /\ mine'[t] = m /\ \A o \in Tx \ {t} : Same(o) BY <1>1, <1>3, EnterFrame
<1> HIDE DEF drawn, n
<1>11. CheckedMulti(t)' BY <1>4, <1>7, <1>8, <1>9, <1>10 DEF CheckedMulti
<1> QED BY <1>1, <1>10, <1>11, CheckedKept DEF BooksInv

LEMMA BooksInvNext == BooksInv /\ [Next]_vars => BooksInv'
<1> SUFFICES ASSUME BooksInv, [Next]_vars PROVE Checked' BY ItemsInvNext DEF BooksInv
<1>0. TypeOK /\ Checked BY DEF BooksInv, ItemsInv, IndInv
<1>1. \A t \in Tx : \A code, value : Reply(t, code, value) => Checked'
  BY <1>0, ReplyFrame, CheckedKept DEF CheckedMulti, CheckedAdd
<1>2. \A t \in Tx : \A code : EndWith(t, code) => Checked' BY <1>1 DEF EndWith
<1>3. ASSUME NEW t \in Multi, MultiNext(t) PROVE Checked'
  <2>1. t \in Tx /\ t \notin Add BY DisjointTx DEF Tx
  <2>2. ASSUME NEW q \in MultiInput, NEW items \in Masters, RefuseMulti(t, q, items) PROVE Checked'
    BY <1>2, <2>1, <2>2 DEF RefuseMulti
  <2>3. ASSUME NEW q \in MultiInput, NEW items \in Masters, BeginMulti(t, q, items) PROVE Checked'
    <3> DEFINE m == [Nothing EXCEPT !.user = q.user, !.amount = q.pulls, !.items = items]
    <3>1. Enter(t, "user", UserForUpdate(q.user), m) /\ IsValidPullCount(q.pulls)
      BY <2>3 DEF BeginMulti
    <3>2. m.items = items /\ m.amount = q.pulls BY DEF Nothing
    <3> HIDE DEF m
    <3>3. stage'[t] = "user" /\ mine'[t] = m /\ \A o \in Tx \ {t} : Same(o)
      BY <1>0, <2>1, <3>1, EnterFrame
    <3>4. CheckedMulti(t)' BY <3>1, <3>2, <3>3 DEF CheckedMulti
    <3> QED BY <1>0, <2>1, <3>3, <3>4, CheckedKept
  <2>4. CASE RefuseDraw(t) BY <1>2, <2>1, <2>4 DEF RefuseDraw
  <2>5. CASE Draw(t) BY <2>5, CheckedDraw
  <2>6. CASE CommitMulti(t)
    <3>1. PICK code \in Told : Reply(t, code, mine[t].result) BY <2>6 DEF CommitMulti
    <3> QED BY <1>1, <2>1, <3>1
  <2> QED BY <1>3, <2>2, <2>3, <2>4, <2>5, <2>6 DEF MultiNext
<1>4. ASSUME NEW t \in Add, AddNext(t) PROVE Checked'
  <2>1. t \in Tx /\ t \notin Multi BY DisjointTx DEF Tx
  <2>2. ASSUME NEW q \in AddInput, RefuseAdd(t, q) PROVE Checked'
    BY <1>2, <2>1, <2>2 DEF RefuseAdd
  <2>3. ASSUME NEW q \in AddInput, BeginAdd(t, q) PROVE Checked'
    <3> DEFINE m == [Nothing EXCEPT !.user = q.user, !.amount = q.points,
                                    !.seen = IF q.user \in scored THEN {points[q.user]} ELSE {}]
    <3>1. PICK locks : Enter(t, "increment", locks, m) BY <2>3 DEF BeginAdd
    <3>2. IsValidScore(q.points) /\ GuildOf[q.user] # 0 BY <2>3 DEF BeginAdd
    <3>3. m.user = q.user /\ m.amount = q.points BY DEF Nothing
    <3> HIDE DEF m
    <3>4. mine'[t] = m /\ \A o \in Tx \ {t} : Same(o) BY <1>0, <2>1, <3>1, EnterFrame
    <3>5. CheckedAdd(t)' BY <3>2, <3>3, <3>4 DEF CheckedAdd
    <3> QED BY <1>0, <2>1, <3>4, <3>5, CheckedKept
  <2>4. CASE ReadBack(t)
    <3>1. \A o \in Tx \ {t} : Same(o) BY <1>0, <2>4 DEF ReadBack, TypeOK, Same
    <3>2. mine'[t].user = mine[t].user /\ mine'[t].amount = mine[t].amount /\ stage[t] = "increment"
      BY <1>0, <2>1, <2>4 DEF ReadBack, TypeOK, Nothing, At
    <3>3. CheckedAdd(t)' BY <1>0, <3>2 DEF Checked, CheckedAdd
    <3> QED BY <1>0, <2>1, <3>1, <3>3, CheckedKept
  <2>5. CASE CommitAdd(t)
    <3>1. PICK code \in Told : Reply(t, code, mine[t].result) BY <2>5 DEF CommitAdd
    <3> QED BY <1>1, <2>1, <3>1
  <2>6. CASE FindNoRow(t) BY <1>2, <2>1, <2>6 DEF FindNoRow
  <2> QED BY <1>4, <2>2, <2>3, <2>4, <2>5, <2>6 DEF AddNext
<1>5. ASSUME NEW t \in Batch, BatchNext(t) PROVE Checked'
  <2>1. t \in Tx /\ t \notin Multi /\ t \notin Add BY DisjointTx DEF Tx
  <2>2. \A s, locks, m : Enter(t, s, locks, m) => Checked'
    BY <1>0, <2>1, EnterFrame, CheckedKept
  <2> QED BY <1>2, <1>5, <2>1, <2>2 DEF BatchNext, BeginBatch, CommitBatch
<1>6. ASSUME NEW t \in Tx, GrantLock(t) \/ Fail(t) PROVE Checked'
  <2>1. GrantLock(t) => Checked' BY <1>0 DEF GrantLock, Checked, CheckedMulti, CheckedAdd
  <2> QED BY <1>2, <1>6, <2>1 DEF Fail
<1>7. CASE UNCHANGED vars BY <1>0, <1>7 DEF vars, Checked, CheckedMulti, CheckedAdd
<1> QED BY <1>3, <1>4, <1>5, <1>6, <1>7 DEF Next, Terminated

LEMMA BooksInvInit == Init => BooksInv
BY ItemsInvInit DEF BooksInv, Checked, CheckedMulti, CheckedAdd, Init, Tx

\* The state of the accounts' requests in terms of the transactions.
Phase == [t \in Multi \cup Add |-> IF stage[t] \in {"new", "done"} THEN stage[t] ELSE "open"]
Wish ==
  [t \in Multi \cup Add |-> [user |-> mine[t].user, amount |-> mine[t].amount, seen |-> mine[t].seen]]
ToldTo == IF answer.code # "none" /\ answer.to \in Batch THEN NoAnswer ELSE answer

\* A transaction that replies is a request that is told its answer.
LEMMA ReplyTells ==
  ASSUME TypeOK, NEW t \in Multi \cup Add, NEW code, NEW value, Reply(t, code, value)
  PROVE  Books!Tell(t, code, value)
<1>1. t \in Tx /\ t \notin Batch BY TxAssumption DEF Tx
<1>2. stage'[t] = "done" /\ mine'[t] = Nothing /\ \A o \in Tx \ {t} : Same(o) BY <1>1, ReplyFrame
<1>3. ToldTo' = [to |-> t, code |-> code, value |-> value] BY <1>1 DEF ToldTo, Reply
<1>4. Phase' = [Phase EXCEPT ![t] = "done"] BY <1>2 DEF Phase, Same, Tx
<1>5. [user |-> mine'[t].user, amount |-> mine'[t].amount, seen |-> mine'[t].seen] = Books!NoWish
  BY <1>2 DEF Nothing, Books!NoWish
<1>6. Wish' = [Wish EXCEPT ![t] = Books!NoWish] BY <1>2, <1>5 DEF Wish, Same, Tx
<1> QED BY <1>3, <1>4, <1>6 DEF ToldTo, Phase, Wish, Books!Tell

\* A step within a transaction is nothing, or the request says what it wants.
LEMMA EnterOpens ==
  ASSUME TypeOK, NEW t \in Multi \cup Add, NEW s, s \notin {"new", "done"}, NEW locks, NEW m,
         Enter(t, s, locks, m), NEW q, q = [user |-> m.user, amount |-> m.amount, seen |-> m.seen]
  PROVE  /\ ToldTo' = Books!Silence
         /\ Phase' = [Phase EXCEPT ![t] = "open"]
         /\ Wish' = [Wish EXCEPT ![t] = q]
<1>1. t \in Tx BY DEF Tx
<1>2. stage'[t] = s /\ mine'[t] = m /\ \A o \in Tx \ {t} : Same(o) BY <1>1, EnterFrame
<1>3. ToldTo' = Books!Silence BY DEF ToldTo, Enter, NoAnswer, Books!Silence
<1>4. Phase' = [Phase EXCEPT ![t] = "open"] BY <1>2 DEF Phase, Same, Tx
<1>5. Wish' = [Wish EXCEPT ![t] = q] BY <1>2 DEF Wish, Same, Tx
<1> QED BY <1>3, <1>4, <1>5

LEMMA QuietBooks ==
  ASSUME UNCHANGED data, ToldTo' = Books!Silence, Phase' = Phase, Wish' = Wish
  PROVE  Books!Next
BY DEF Books!Next, Books!Quiet, Books!accounts, ToldTo, Phase, Wish, data

\* What an open request wants is what its transaction works on.
LEMMA OpenWishes ==
  ASSUME NEW t \in Multi \cup Add, stage[t] \notin {"new", "done"}
  PROVE  Books!Wishes(t) = {[user |-> mine[t].user, amount |-> mine[t].amount, seen |-> mine[t].seen]}
BY DEF Books!Wishes

LEMMA NewWishes ==
  ASSUME NEW t \in Multi \cup Add, stage[t] = "new"
  PROVE  /\ t \in Multi =>
              \A q \in MultiInput : [user |-> q.user, amount |-> q.pulls, seen |-> {}] \in Books!Wishes(t)
         /\ t \in Add =>
              \A q \in AddInput :
                [user |-> q.user, amount |-> q.points, seen |-> Books!TotalOf(q.user)] \in Books!Wishes(t)
<1>1. t \in Add => t \notin Multi BY TxAssumption
<1> QED BY <1>1 DEF Books!Wishes

LEMMA OpenStep ==
  ASSUME NEW t \in Multi \cup Add, stage[t] = "new", UNCHANGED data, ToldTo' = Books!Silence,
         Phase' = [Phase EXCEPT ![t] = "open"],
         NEW q \in Books!Wishes(t), Wish' = [Wish EXCEPT ![t] = q]
  PROVE  Books!Next
<1>1. Books!Open(t) BY DEF Books!Open, Books!accounts, ToldTo, Phase, Wish, data
<1> QED BY <1>1 DEF Books!Next, Books!Request

\* A request that is answered.
LEMMA AnsweredStep ==
  ASSUME TypeOK, NEW t \in Multi \cup Add, stage[t] # "done", stage'[t] = "done",
         \/ Books!Fail(t) \/ Books!Refuse(t)
         \/ t \in Multi /\ Books!DrawItems(t)
         \/ t \in Add /\ Books!AddPoints(t)
  PROVE  Books!Next
<1>1. Phase[t] # "done" /\ Phase'[t] = "done" BY DEF Phase
<1> QED BY <1>1 DEF Books!Next, Books!Request, Phase

LEMMA RefusedStep ==
  ASSUME TypeOK, NEW t \in Multi \cup Add, stage[t] # "done", NEW code, EndWith(t, code),
         NEW q \in Books!Wishes(t),
         code \in {"invalid", "not_found", "missing", "no_guild", "insufficient", "no_items",
                   "weights"},
         Books!Reason(t, q, code)
  PROVE  Books!Next
<1>1. Reply(t, code, 0) /\ UNCHANGED data BY DEF EndWith
<1>2. Books!Tell(t, code, 0) /\ stage'[t] = "done" BY <1>1, ReplyTells, ReplyFrame DEF Tx
<1>3. Books!Refuse(t) BY <1>1, <1>2 DEF Books!Refuse, Books!accounts, data
<1> QED BY <1>2, <1>3, AnsweredStep

LEMMA FailedStep ==
  ASSUME TypeOK, NEW t \in Tx, Fail(t) PROVE Books!Next
<1>1. Reply(t, "error", 0) /\ UNCHANGED data /\ stage[t] # "done" BY DEF Fail, EndWith
<1>2. CASE t \in Batch
  <2>1. t \notin Multi \cup Add /\ \A o \in Tx \ {t} : Same(o) BY <1>1, <1>2, ReplyFrame, DisjointTx
  <2>2. ToldTo' = Books!Silence BY <1>1, <1>2 DEF Reply, ToldTo, NoAnswer, Books!Silence
  <2>3. Phase' = Phase /\ Wish' = Wish BY <2>1 DEF Phase, Wish, Same, Tx
  <2> QED BY <1>1, <2>2, <2>3, QuietBooks
<1>3. CASE t \in Multi \cup Add
  <2>1. Books!Tell(t, "error", 0) /\ stage'[t] = "done" BY <1>1, <1>3, ReplyTells, ReplyFrame
  <2>2. Books!Fail(t) BY <1>1, <2>1 DEF Books!Fail, Books!accounts, data
  <2> QED BY <1>1, <1>3, <2>1, <2>2, AnsweredStep
<1> QED BY <1>2, <1>3 DEF Tx

\* A refusal of a gacha request gives a reason that holds.
LEMMA MultiRefused ==
  ASSUME BooksInv, NEW t \in Multi,
         RefuseDraw(t) \/ (stage[t] = "new" /\ \E q \in MultiInput, items \in Masters : RefuseMulti(t, q, items))
  PROVE  Books!Next
<1>0. TypeOK /\ t \in Multi \cup Add BY DEF BooksInv, ItemsInv, IndInv
<1> USE DEF Books!Reason, Books!Amounts, Books!NothingToDraw
<1>1. ASSUME stage[t] = "new", NEW q \in MultiInput, NEW items \in Masters, RefuseMulti(t, q, items)
      PROVE  Books!Next
  <2> DEFINE wish == [user |-> q.user, amount |-> q.pulls, seen |-> {}]
  <2>1. wish \in Books!Wishes(t) BY <1>1, NewWishes
  <2>2. CASE ~IsValidPullCount(q.pulls) /\ EndWith(t, "invalid")
    <3>1. Books!Reason(t, wish, "invalid") BY <2>2 DEF IsValidPullCount
    <3> QED BY <1>0, <1>1, <2>1, <2>2, <3>1, RefusedStep
  <2>3. CASE items = <<>> /\ EndWith(t, "no_items")
    <3>1. Books!Reason(t, wish, "no_items")
      <4>1. \A i \in DOMAIN items : items[i] <= 0 BY <2>3
      <4> QED BY <1>1, <4>1
    <3> QED BY <1>0, <1>1, <2>1, <2>3, <3>1, RefusedStep
  <2> QED BY <1>1, <2>2, <2>3 DEF RefuseMulti
<1>2. CASE RefuseDraw(t)
  <2> DEFINE wish == [user |-> mine[t].user, amount |-> mine[t].amount, seen |-> mine[t].seen]
  <2>1. stage[t] = "user" BY <1>2 DEF RefuseDraw, At
  <2>2. wish \in Books!Wishes(t) /\ stage[t] # "done" BY <2>1, OpenWishes
  <2>3. CASE mine[t].user \notin User /\ EndWith(t, "not_found")
    <3>1. Books!Reason(t, wish, "not_found") BY <2>3
    <3> QED BY <1>0, <2>2, <2>3, <3>1, RefusedStep
  <2>4. CASE mine[t].user \in User /\ ~HasEnoughGemsFor(t) /\ EndWith(t, "insufficient")
    <3>1. gems[mine[t].user] \in Int /\ mine[t].amount \in Int
      BY <1>0, <2>4 DEF TypeOK, Tx
    <3>2. Books!Reason(t, wish, "insufficient")
      BY <2>4, <3>1 DEF HasEnoughGemsFor, GemCostFor, Books!Cost
    <3> QED BY <1>0, <2>2, <2>4, <3>2, RefusedStep
  <2>5. CASE TotalWeight(mine[t].items) <= 0 /\ EndWith(t, "weights")
    <3>1. mine[t].items \in Masters BY <2>1 DEF BooksInv, Checked, CheckedMulti
    <3>2. mine[t].items \in Seq(Int) BY <3>1, DataAssumption
    <3>3. \A i \in DOMAIN mine[t].items : mine[t].items[i] <= 0 BY <2>5, <3>2, NoWeights
    <3>4. Books!Reason(t, wish, "weights") BY <3>1, <3>3
    <3> QED BY <1>0, <2>2, <2>5, <3>4, RefusedStep
  <2> QED BY <1>2, <2>3, <2>4, <2>5 DEF RefuseDraw
<1> QED BY <1>1, <1>2

LEMMA MultiBegins ==
  ASSUME BooksInv, NEW t \in Multi, stage[t] = "new",
         NEW q \in MultiInput, NEW items \in Masters, BeginMulti(t, q, items)
  PROVE  Books!Next
<1>0. PICK m : m = [Nothing EXCEPT !.user = q.user, !.amount = q.pulls, !.items = items] OBVIOUS
<1>1. Enter(t, "user", UserForUpdate(q.user), m) /\ UNCHANGED data BY <1>0 DEF BeginMulti, Enter
<1>2. m.user = q.user /\ m.amount = q.pulls /\ m.seen = {} BY <1>0 DEF Nothing
<1>3. PICK wish : wish = [user |-> q.user, amount |-> q.pulls, seen |-> {}] OBVIOUS
<1>4. /\ ToldTo' = Books!Silence /\ Phase' = [Phase EXCEPT ![t] = "open"]
      /\ Wish' = [Wish EXCEPT ![t] = wish]
  <2>1. "user" \notin {"new", "done"} /\ wish = [user |-> m.user, amount |-> m.amount, seen |-> m.seen] BY <1>2, <1>3
  <2>2. TypeOK /\ t \in Multi \cup Add BY DEF BooksInv, ItemsInv, IndInv
  <2> QED BY <1>1, <2>1, <2>2, EnterOpens, ZenonT(60)
<1>5. wish \in Books!Wishes(t) BY <1>3, NewWishes
<1> QED BY <1>1, <1>4, <1>5, OpenStep

LEMMA DrawIsQuiet ==
  ASSUME BooksInv, NEW t \in Multi, Draw(t) PROVE Books!Next
<1>0. TypeOK /\ t \in Tx BY DEF BooksInv, ItemsInv, IndInv, Tx
<1>1. PICK locks, drawn, result :
        Enter(t, "commit", locks, [mine[t] EXCEPT !.items = <<>>, !.drawn = drawn, !.result = result])
  BY DEF Draw, Enter
<1>2. PICK m : /\ m = [mine[t] EXCEPT !.items = <<>>, !.drawn = drawn, !.result = result]
               /\ Enter(t, "commit", locks, m)
  BY <1>1 DEF Enter
<1>3. m.user = mine[t].user /\ m.amount = mine[t].amount /\ m.seen = mine[t].seen
  BY <1>0, <1>2 DEF TypeOK, Nothing
<1>4. stage[t] = "user" /\ UNCHANGED data BY DEF Draw, At
<1>5. PICK wish : wish = [user |-> mine[t].user, amount |-> mine[t].amount, seen |-> mine[t].seen] OBVIOUS
<1>6. /\ ToldTo' = Books!Silence /\ Phase' = [Phase EXCEPT ![t] = "open"]
      /\ Wish' = [Wish EXCEPT ![t] = wish]
  <2>1. /\ "commit" \notin {"new", "done"} /\ t \in Multi \cup Add
        /\ wish = [user |-> m.user, amount |-> m.amount, seen |-> m.seen]
    BY <1>3, <1>5
  <2>2. Enter(t, "commit", locks, m) BY <1>2
  <2> QED BY <1>0, <2>1, <2>2, EnterOpens, ZenonT(60)
<1>7. Phase' = Phase /\ Wish' = Wish BY <1>4, <1>5, <1>6 DEF Phase, Wish
<1> QED BY <1>4, <1>6, <1>7, QuietBooks

\* The commit of a gacha request pays and books all its draws.
LEMMA MultiCommits ==
  ASSUME BooksInv, NEW t \in Multi, CommitMulti(t), ItemsInv' PROVE Books!Next
<1> DEFINE u == mine[t].user
           n == mine[t].amount
           drawn == mine[t].drawn
<1>1. /\ TypeOK /\ t \in Tx /\ t \in Multi \cup Add /\ stage[t] = "commit"
      /\ BalanceOf(t) /\ CheckedMulti(t)
  BY PerTransaction DEF BooksInv, ItemsInv, IndInv, Tx, CommitMulti, At, Checked
<1>2. PICK code, value : code \in Told /\ value = mine[t].result /\ Reply(t, code, value)
  BY DEF CommitMulti, Reply
<1>3. /\ gems' = [gems EXCEPT ![u] = mine[t].result]
      /\ hist' = [hist EXCEPT ![u] = @ \o drawn] /\ UNCHANGED <<points, scored>>
  BY DEF CommitMulti
<1>4. /\ u \in User /\ mine[t].result >= 0 /\ mine[t].result = gems[u] - GemCostFor(n)
      /\ n \in 1 .. 10 /\ drawn \in [1 .. n -> Item] /\ Books!Drawable(drawn)
      /\ gems[u] \in Int /\ DOMAIN gems = User
  BY <1>1 DEF BalanceOf, CheckedMulti, IsValidPullCount, TypeOK
<1>5. PICK wish \in Books!Wishes(t) : wish = [user |-> u, amount |-> n, seen |-> mine[t].seen]
  BY <1>1, OpenWishes
<1>6. Books!Tell(t, code, value) /\ stage'[t] = "done"
  BY <1>1, <1>2, ReplyTells, ReplyFrame
<1>7. gems[u] >= Books!Cost(n) /\ value = gems[u] - Books!Cost(n)
  <2>1. n \in Int /\ Books!Cost(n) = GemCostFor(n) /\ GemCostFor(n) \in Int
    BY <1>4 DEF GemCostFor, Books!Cost
  <2>2. /\ mine[t].result >= 0 /\ mine[t].result = gems[u] - GemCostFor(n)
        /\ gems[u] \in Int /\ value = mine[t].result
    BY <1>2, <1>4
  <2> HIDE DEF u, n
  <2> QED BY <2>1, <2>2
<1>8. owned' = [v \in User |-> [i \in Item |-> Books!Cardinality({k \in DOMAIN hist'[v] : hist'[v][k] = i})]]
  BY DEF ItemsInv, ItemsMatchHistory, Count, Cardinality, Books!Cardinality
<1>9. gems'[u] = value BY <1>2, <1>3, <1>4
<1>10. wish.user = u /\ wish.amount = n BY <1>5
<1> HIDE DEF u, n, drawn
<1>11. /\ wish.amount \in Books!Amounts(t) /\ wish.user \in User
       /\ gems[wish.user] >= Books!Cost(wish.amount)
       /\ gems' = [gems EXCEPT ![wish.user] = @ - Books!Cost(wish.amount)]
       /\ \E d \in [1 .. wish.amount -> Item] :
            hist' = [hist EXCEPT ![wish.user] = @ \o d] /\ Books!Drawable(d)
  <2>1. gems' = [gems EXCEPT ![u] = @ - Books!Cost(n)] BY <1>2, <1>3, <1>4, <1>7
  <2> QED BY <1>3, <1>4, <1>7, <1>10, <2>1 DEF Books!Amounts
<1>12. code \in {"ok", "error"} /\ Books!Tell(t, code, gems'[wish.user])
  <2>1. code \in {"ok", "error"} BY <1>2 DEF Told
  <2>2. gems'[wish.user] = value BY <1>9, <1>10
  <2> QED BY <1>6, <2>1, <2>2 DEF Books!Tell
<1>13. Books!DrawItems(t)
  <2>1. \E q \in Books!Wishes(t) :
          /\ q.amount \in Books!Amounts(t) /\ q.user \in User /\ gems[q.user] >= Books!Cost(q.amount)
          /\ gems' = [gems EXCEPT ![q.user] = @ - Books!Cost(q.amount)]
          /\ \E d \in [1 .. q.amount -> Item] :
               hist' = [hist EXCEPT ![q.user] = @ \o d] /\ Books!Drawable(d)
          /\ \E c \in {"ok", "error"} : Books!Tell(t, c, gems'[q.user])
    BY <1>11, <1>12 DEF Books!Tell
  <2> QED BY <1>3, <1>8, <2>1 DEF Books!DrawItems
<1> QED BY <1>1, <1>6, <1>13, AnsweredStep

LEMMA AddRefused ==
  ASSUME BooksInv, NEW t \in Add, stage[t] = "new", NEW q \in AddInput, RefuseAdd(t, q)
  PROVE  Books!Next
<1> DEFINE wish == [user |-> q.user, amount |-> q.points, seen |-> Books!TotalOf(q.user)]
<1>0. TypeOK /\ t \in Multi \cup Add /\ t \notin Multi
  BY TxAssumption DEF BooksInv, ItemsInv, IndInv
<1>1. wish \in Books!Wishes(t) BY NewWishes
<1> USE DEF Books!Reason
<1>2. CASE ~IsValidScore(q.points) /\ EndWith(t, "invalid")
  <2>1. Books!Reason(t, wish, "invalid") BY <1>0, <1>2 DEF IsValidScore, Books!Amounts
  <2> QED BY <1>0, <1>1, <1>2, <2>1, RefusedStep
<1>3. CASE q.user \notin User /\ EndWith(t, "not_found")
  <2>1. Books!Reason(t, wish, "not_found") BY <1>3
  <2> QED BY <1>0, <1>1, <1>3, <2>1, RefusedStep
<1>4. CASE q.user \in User /\ GuildOf[q.user] = 0 /\ EndWith(t, "no_guild")
  <2>1. Books!Reason(t, wish, "no_guild") BY <1>4
  <2> QED BY <1>0, <1>1, <1>4, <2>1, RefusedStep
<1> QED BY <1>2, <1>3, <1>4 DEF RefuseAdd

LEMMA AddBegins ==
  ASSUME BooksInv, NEW t \in Add, stage[t] = "new", NEW q \in AddInput, BeginAdd(t, q)
  PROVE  Books!Next
<1>0. PICK m : m = [Nothing EXCEPT !.user = q.user, !.amount = q.points,
                               !.seen = IF q.user \in scored THEN {points[q.user]} ELSE {}]
  OBVIOUS
<1>1. PICK locks : Enter(t, "increment", locks, m) BY <1>0 DEF BeginAdd, Enter
<1>2. m.user = q.user /\ m.amount = q.points /\ m.seen = Books!TotalOf(q.user) /\ UNCHANGED data
  BY <1>0 DEF Nothing, BeginAdd, Books!TotalOf
<1>3. PICK wish : wish = [user |-> q.user, amount |-> q.points, seen |-> Books!TotalOf(q.user)] OBVIOUS
<1>4. /\ ToldTo' = Books!Silence /\ Phase' = [Phase EXCEPT ![t] = "open"]
      /\ Wish' = [Wish EXCEPT ![t] = wish]
  <2>1. wish = [user |-> m.user, amount |-> m.amount, seen |-> m.seen] BY ONLY <1>2, <1>3
  <2>2. TypeOK BY DEF BooksInv, ItemsInv, IndInv
  <2>3. t \in Multi \cup Add OBVIOUS
  <2>4. "increment" \notin {"new", "done"} OBVIOUS
  <2> QED BY <1>1, <2>1, <2>2, <2>3, <2>4, EnterOpens, ZenonT(60)
<1>5. wish \in Books!Wishes(t) BY <1>3, NewWishes
<1> QED BY <1>2, <1>4, <1>5, OpenStep

LEMMA ReadBackIsQuiet ==
  ASSUME BooksInv, NEW t \in Add, ReadBack(t) PROVE Books!Next
<1>1. TypeOK /\ t \in Tx /\ stage[t] = "increment" /\ UNCHANGED data
  BY DEF BooksInv, ItemsInv, IndInv, Tx, ReadBack, At
<1>0. PICK total : mine' = [mine EXCEPT ![t].result = total] BY DEF ReadBack
<1>2. /\ mine'[t].user = mine[t].user /\ mine'[t].amount = mine[t].amount
      /\ mine'[t].seen = mine[t].seen /\ stage'[t] = "commit"
      /\ \A o \in Tx \ {t} : Same(o)
  BY <1>0, <1>1 DEF ReadBack, TypeOK, Nothing, Same
<1>3. ToldTo' = Books!Silence BY DEF ToldTo, ReadBack, NoAnswer, Books!Silence
<1>4. Phase' = Phase BY <1>1, <1>2 DEF Phase, Same, Tx
<1>5. Wish' = Wish
  <2>1. \A o \in Multi \cup Add :
          mine'[o].user = mine[o].user /\ mine'[o].amount = mine[o].amount /\ mine'[o].seen = mine[o].seen
    BY <1>2 DEF Same, Tx
  <2> QED BY <2>1 DEF Wish
<1> QED BY <1>1, <1>3, <1>4, <1>5, QuietBooks

\* An addition of 0 points is refused for want of a total when it began without one.
LEMMA FindNoRowRefused ==
  ASSUME BooksInv, NEW t \in Add, FindNoRow(t) PROVE Books!Next
<1> DEFINE wish == [user |-> mine[t].user, amount |-> mine[t].amount, seen |-> mine[t].seen]
<1>1. /\ TypeOK /\ t \in Multi \cup Add /\ stage[t] = "increment"
      /\ TotalRead(mine[t]) = {} /\ EndWith(t, "missing")
  BY DEF BooksInv, ItemsInv, IndInv, FindNoRow, At
<1>2. mine[t].amount = 0 /\ mine[t].user \in scored /\ mine[t].seen = {}
  BY <1>1 DEF TotalRead, WritesRow
<1>3. wish \in Books!Wishes(t) /\ stage[t] # "done" BY <1>1, OpenWishes
<1>4. Books!Reason(t, wish, "missing") BY <1>2 DEF Books!Reason
<1> QED BY <1>1, <1>3, <1>4, RefusedStep

\* The commit of a point addition books its points, and the total told is one that it may tell.
LEMMA AddCommits ==
  ASSUME BooksInv, NEW t \in Add, CommitAdd(t) PROVE Books!Next
<1> DEFINE u == mine[t].user
<1>1. /\ TypeOK /\ t \in Tx /\ t \in Multi \cup Add /\ t \notin Multi /\ stage[t] = "commit"
      /\ TotalOf(t) /\ CheckedAdd(t)
  BY PerTransaction, TxAssumption DEF BooksInv, ItemsInv, IndInv, Tx, CommitAdd, At, Checked
<1>2. PICK code, value : code \in Told /\ value = mine[t].result /\ Reply(t, code, value)
  BY DEF CommitAdd, Reply
<1>3. /\ points' = [points EXCEPT ![u] = @ + mine[t].amount] /\ scored' = scored \cup {u}
      /\ UNCHANGED <<gems, owned, hist>>
  BY DEF CommitAdd
<1>4. /\ u \in User /\ mine[t].result \in TotalRead(mine[t])
      /\ IsValidScore(mine[t].amount) /\ GuildOf[u] # 0
  BY <1>1 DEF TotalOf, CheckedAdd
<1>5. PICK wish \in Books!Wishes(t) :
        wish = [user |-> u, amount |-> mine[t].amount, seen |-> mine[t].seen]
  BY <1>1, OpenWishes
<1>6. Books!Tell(t, code, value) /\ stage'[t] = "done"
  BY <1>1, <1>2, ReplyTells, ReplyFrame
<1>7. wish.user = u /\ wish.amount = mine[t].amount /\ wish.seen = mine[t].seen BY <1>5
<1>8. value \in Books!Totals(wish)
  BY <1>2, <1>4, <1>7 DEF TotalRead, WritesRow, Books!Totals
<1> HIDE DEF u
<1>9. wish.amount \in Books!Amounts(t) BY <1>1, <1>4, <1>7 DEF IsValidScore, Books!Amounts
<1>10. points' = [points EXCEPT ![wish.user] = @ + wish.amount] /\ scored' = scored \cup {wish.user}
  BY <1>3, <1>7
<1>11. Books!AddPoints(t)
  <2>1. code \in {"ok", "error"} BY <1>2 DEF Told
  <2>2. \E c \in {"ok", "error"}, total \in Books!Totals(wish) : Books!Tell(t, c, total)
    BY <1>6, <1>8, <2>1 DEF Books!Tell
  <2> QED BY <1>3, <1>4, <1>5, <1>7, <1>9, <1>10, <2>2 DEF Books!AddPoints, Books!Tell
<1> QED BY <1>1, <1>6, <1>11, AnsweredStep

\* Workers' transactions are no business of the accounts.
LEMMA BatchIsQuiet ==
  ASSUME BooksInv, NEW t \in Batch, BatchNext(t) PROVE Books!Next
<1>1. TypeOK /\ t \in Tx /\ t \notin Multi \cup Add
  BY TxAssumption DEF BooksInv, ItemsInv, IndInv, Tx
<1>2. UNCHANGED data BY DEF BatchNext, BeginBatch, CommitBatch, EndWith
<1>3. (\A o \in Tx \ {t} : Same(o)) /\ ToldTo' = Books!Silence
  <2>1. ASSUME NEW s, NEW locks, NEW m, Enter(t, s, locks, m)
        PROVE  (\A o \in Tx \ {t} : Same(o)) /\ ToldTo' = Books!Silence
    BY <1>1, <2>1, EnterFrame DEF ToldTo, Enter, NoAnswer, Books!Silence
  <2>2. ASSUME EndWith(t, "ok")
        PROVE  (\A o \in Tx \ {t} : Same(o)) /\ ToldTo' = Books!Silence
    BY <1>1, <2>2, ReplyFrame DEF EndWith, Reply, ToldTo, NoAnswer, Books!Silence
  <2> QED BY <2>1, <2>2 DEF BatchNext, BeginBatch, CommitBatch
<1>4. Phase' = Phase /\ Wish' = Wish BY <1>1, <1>3 DEF Phase, Wish, Same, Tx
<1> QED BY <1>2, <1>3, <1>4, QuietBooks

LEMMA BooksStep == BooksInv /\ BooksInv' /\ [Next]_vars => [Books!Next]_Books!avars
<1> SUFFICES ASSUME BooksInv, BooksInv', [Next]_vars PROVE [Books!Next]_Books!avars OBVIOUS
<1>0. TypeOK /\ ItemsInv' BY DEF BooksInv, ItemsInv, IndInv
<1>1. ASSUME NEW t \in Multi, MultiNext(t) PROVE Books!Next
  BY <1>0, <1>1, MultiRefused, MultiBegins, DrawIsQuiet, MultiCommits DEF MultiNext
<1>2. ASSUME NEW t \in Add, AddNext(t) PROVE Books!Next
  BY <1>2, AddRefused, AddBegins, ReadBackIsQuiet,
      FindNoRowRefused, AddCommits
   DEF AddNext
<1>3. ASSUME NEW t \in Batch, BatchNext(t) PROVE Books!Next BY <1>3, BatchIsQuiet
<1>4. ASSUME NEW t \in Tx, GrantLock(t) PROVE Books!Next
  <2>1. /\ UNCHANGED data /\ Phase' = Phase /\ Wish' = Wish /\ ToldTo' = Books!Silence
    BY <1>4 DEF GrantLock, Phase, Wish, ToldTo, NoAnswer, Books!Silence
  <2> QED BY <2>1, QuietBooks
<1>5. ASSUME NEW t \in Tx, Fail(t) PROVE Books!Next BY <1>0, <1>5, FailedStep
<1>6. CASE UNCHANGED vars
  <2>1. UNCHANGED data /\ Phase' = Phase /\ Wish' = Wish /\ ToldTo' = ToldTo
    BY <1>6 DEF vars, data, Phase, Wish, ToldTo
  <2>2. UNCHANGED Books!avars BY <2>1 DEF data, Phase, Wish, ToldTo, Books!avars
  <2> QED BY <2>2
<1> QED BY <1>1, <1>2, <1>3, <1>4, <1>5, <1>6 DEF Next, Terminated

\* However their statements interleave, fail or commit unseen, requests look as if each took
\* effect at once, on the accounts as they then were, and were told the truth (DoInTx with
\* the locks of GetUserForUpdate and IncrementUserPoints).
THEOREM Serializable == Spec => ImplementsAccounts
<1>1. Init => Books!Init
  <2> SUFFICES ASSUME Init PROVE Books!Init OBVIOUS
  <2>1. Phase = [t \in Multi \cup Add |-> "new"] BY DEF Init, Phase, Tx
  <2>2. Wish = [t \in Multi \cup Add |-> Books!NoWish]
    BY DEF Init, Wish, Tx, Nothing, Books!NoWish
  <2>3. ToldTo = Books!Silence BY DEF Init, ToldTo, NoAnswer, Books!Silence
  <2> QED BY <2>1, <2>2, <2>3 DEF Init, Books!Init, Books!Request, Phase, Wish, ToldTo
<1> QED BY <1>1, BooksInvInit, BooksInvNext, BooksStep, PTL
        DEF Spec, ImplementsAccounts, Books!Spec
=============================================================================

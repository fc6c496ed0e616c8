------------------------------ MODULE Accounts ------------------------------
(***************************************************************************)
(* What users are promised about their gems, items and points, without     *)
(* servers, statements, locks or workers: every request takes effect at    *)
(* once, on the accounts as they are at that moment, or not at all; its    *)
(* answer says which, and what it says is true.  Only "error" leaves open  *)
(* whether the request took effect.  One exception remains: a request      *)
(* that adds 0 points to a total is told the total that was there when the *)
(* request began, or is refused if there was none.                         *)
(***************************************************************************)
EXTENDS Integers, Sequences, FiniteSets

CONSTANTS User, GuildOf, Multi, Add, MultiInput, AddInput, MaxScore, Starts, Item, Masters

VARIABLES
  gems, owned, hist, points,  \* the accounts
  scored,                     \* the users who have a total of points
  phase,                      \* "new", "open" or "done"
  wish,                       \* what an open request asks for, and the total it began with
  told                        \* the answer a caller has just got

accounts == <<gems, owned, hist, points, scored>>
avars == <<gems, owned, hist, points, scored, phase, wish, told>>

Request == Multi \cup Add
Silence == [code |-> "none"]
NoWish == [user |-> 0, amount |-> 0, seen |-> {}]

Init ==
  /\ gems \in Starts
  /\ owned = [u \in User |-> [i \in Item |-> 0]]
  /\ hist = [u \in User |-> <<>>]
  /\ points = [u \in User |-> 0] /\ scored \in SUBSET User
  /\ phase = [t \in Request |-> "new"]
  /\ wish = [t \in Request |-> NoWish]
  /\ told = Silence

\* The total a user has now, if any.
TotalOf(u) == IF u \in scored THEN {points[u]} ELSE {}

\* What a request may be about to ask, or asks.
Wishes(t) ==
  IF phase[t] = "open" THEN {wish[t]}
  ELSE IF t \in Multi THEN {[user |-> q.user, amount |-> q.pulls, seen |-> {}] : q \in MultiInput}
  ELSE {[user |-> q.user, amount |-> q.points, seen |-> TotalOf(q.user)] : q \in AddInput}

Open(t) ==
  /\ told' = Silence
  /\ phase' = [phase EXCEPT ![t] = "open"]
  /\ \E q \in Wishes(t) : wish' = [wish EXCEPT ![t] = q]
  /\ UNCHANGED accounts

\* Each request is answered once.
Tell(t, code, value) ==
  /\ told' = [to |-> t, code |-> code, value |-> value]
  /\ phase' = [phase EXCEPT ![t] = "done"]
  /\ wish' = [wish EXCEPT ![t] = NoWish]

Cost(pulls) == 100 * pulls
Amounts(t) == IF t \in Multi THEN 1 .. 10 ELSE 0 .. MaxScore

\* Items come from one list, and only those with a weight.
Drawable(drawn) == \E w \in Masters : \A k \in DOMAIN drawn : drawn[k] \in DOMAIN w /\ w[drawn[k]] > 0
NothingToDraw == \E w \in Masters : \A i \in DOMAIN w : w[i] <= 0

\* The draws are paid from the balance; a user owns what he has ever drawn.
DrawItems(t) ==
  /\ \E q \in Wishes(t) :
       /\ q.amount \in Amounts(t) /\ q.user \in User /\ gems[q.user] >= Cost(q.amount)
       /\ gems' = [gems EXCEPT ![q.user] = @ - Cost(q.amount)]
       /\ \E drawn \in [1 .. q.amount -> Item] :
            hist' = [hist EXCEPT ![q.user] = @ \o drawn] /\ Drawable(drawn)
       /\ \E code \in {"ok", "error"} : Tell(t, code, gems'[q.user])
  /\ owned' = [u \in User |-> [i \in Item |-> Cardinality({k \in DOMAIN hist'[u] : hist'[u][k] = i})]]
  /\ UNCHANGED <<points, scored>>

\* What an addition may be told.
Totals(q) == IF q.amount = 0 /\ q.user \in scored THEN q.seen ELSE {points[q.user] + q.amount}

AddPoints(t) ==
  \E q \in Wishes(t) :
    /\ q.amount \in Amounts(t) /\ q.user \in User /\ GuildOf[q.user] # 0
    /\ points' = [points EXCEPT ![q.user] = @ + q.amount]
    /\ scored' = scored \cup {q.user}
    /\ UNCHANGED <<gems, owned, hist>>
    /\ \E code \in {"ok", "error"}, total \in Totals(q) : Tell(t, code, total)

\* A refusal names a reason that holds at that moment.
Reason(t, q, code) ==
  \/ code = "invalid" /\ q.amount \notin Amounts(t)
  \/ code = "not_found" /\ q.user \notin User
  \/ code = "missing" /\ t \in Add /\ q.amount = 0 /\ q.user \in scored /\ q.seen = {}
  \/ code = "no_guild" /\ t \in Add /\ q.user \in User /\ GuildOf[q.user] = 0
  \/ code = "insufficient" /\ t \in Multi /\ q.user \in User /\ gems[q.user] < Cost(q.amount)
  \/ code \in {"no_items", "weights"} /\ t \in Multi /\ NothingToDraw

Refuse(t) ==
  /\ \E code \in {"invalid", "not_found", "missing", "no_guild", "insufficient", "no_items",
                  "weights"} :
       Tell(t, code, 0) /\ \E q \in Wishes(t) : Reason(t, q, code)
  /\ UNCHANGED accounts

Fail(t) == Tell(t, "error", 0) /\ UNCHANGED accounts

\* Something that is no business of the accounts.
Quiet == told' = Silence /\ UNCHANGED <<accounts, phase, wish>>

\* A request is opened at most once and answered once.
Next ==
  \/ Quiet
  \/ \E t \in Request :
       \/ phase[t] = "new" /\ Open(t)
       \/ /\ phase[t] # "done" /\ phase'[t] = "done"
          /\ Fail(t) \/ Refuse(t) \/ (t \in Multi /\ DrawItems(t)) \/ (t \in Add /\ AddPoints(t))

Spec == Init /\ [][Next]_avars
=============================================================================

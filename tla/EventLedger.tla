---------------------------- MODULE EventLedger -----------------------------
(***************************************************************************)
(* What the outbox promises, without workers, transactions or retries: the *)
(* points of a submitted event enter the guild scores (MySQL) once, and    *)
(* after that, and at most once, the two Redis rankings; the guild ranking *)
(* is never ahead of the user ranking for an event.  An event may stay     *)
(* unsettled (dead-lettered) and a ranking may lag for good (a lost cache  *)
(* update), but nothing is ever counted twice or before it is settled.     *)
(***************************************************************************)
EXTENDS Naturals

CONSTANT Event

VARIABLES submitted, score, inUser, inGuild

lvars == <<submitted, score, inUser, inGuild>>

Init ==
  /\ submitted = {}
  /\ score = [e \in Event |-> 0]
  /\ inUser = [e \in Event |-> 0]
  /\ inGuild = [e \in Event |-> 0]

\* f with one more occurrence of each event in S.
Plus(f, S) == [e \in Event |-> IF e \in S THEN f[e] + 1 ELSE f[e]]

Submit(e) ==
  /\ e \in Event \ submitted
  /\ submitted' = submitted \cup {e}
  /\ UNCHANGED <<score, inUser, inGuild>>

\* A group of events is settled by one commit.
Settle(S) ==
  /\ \A e \in S : e \in submitted /\ score[e] = 0
  /\ score' = Plus(score, S)
  /\ UNCHANGED <<submitted, inUser, inGuild>>

\* The settled events in W reach the user ranking for U, the guild ranking for G.
Reflect(W, U, G) ==
  /\ \A e \in W : score[e] = 1 /\ inUser[e] = 0 /\ inGuild[e] = 0
  /\ U \subseteq W /\ G \subseteq U
  /\ inUser' = Plus(inUser, U)
  /\ inGuild' = Plus(inGuild, G)
  /\ UNCHANGED <<submitted, score>>

Next ==
  \/ \E e \in Event : Submit(e)
  \/ \E S \in SUBSET Event : Settle(S)
  \/ \E W \in SUBSET Event : \E U \in SUBSET W : \E G \in SUBSET U : Reflect(W, U, G)

Spec == Init /\ [][Next]_lvars
=============================================================================

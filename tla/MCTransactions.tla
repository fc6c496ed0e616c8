--------------------------- MODULE MCTransactions ---------------------------
(***************************************************************************)
(* A small instance of ApiServer: two gacha requests over HTTP and two     *)
(* point additions over gRPC of one user, two workers, and requests the    *)
(* code must refuse.                                                       *)
(***************************************************************************)
EXTENDS ApiServer, TLC

CONSTANTS m1, m2, a1, a2, b1, b2

MCUser == 1 .. 3
MCGuild == 1 .. 2
MCGuildOf == 1 :> 1 @@ 2 :> 2 @@ 3 :> 0
MCMulti == {m1, m2}
MCAdd == {a1, a2}
MCBatch == {b1, b2}
MCServerOf == [t \in MCMulti \cup MCAdd |-> IF t \in MCMulti THEN "http" ELSE "grpc"]
MCGivenIdOf == [t \in MCMulti \cup MCAdd |-> IF t \in MCMulti THEN "abc" ELSE ""]

MCNoWeight == {<<0, -1>>}
MCMasters == {<<>>, <<-1, 2, 0, 1>>} \cup MCNoWeight

\* States with the same future are the same (VIEW).  No action reads what was answered, or the
\* code with which a server has exited; a server whose requests are all accepted only runs or
\* does not, and one whose requests have all ended does nothing that matters.
HttpServer ==
  IF \A t \in Multi : stage[t] = "done" THEN "unused"
  ELSE IF Running("http") /\ \A t \in Multi : stage[t] # "new" THEN "running"
  ELSE IF process["http"] = "exit0" THEN "exit1" ELSE process["http"]

\* A gacha request that names nobody, or finds nothing to draw, changes nothing whatever else
\* it asks.
Hopeless(t) ==
  stage[t] = "user" /\ (mine[t].user \notin User \/ mine[t].items \in MCNoWeight)
Drawing(t) ==
  IF Hopeless(t) THEN <<mine[t].user>>
  ELSE <<mine[t].amount, mine[t].result, [i \in Item |-> Count(mine[t].drawn, i)]>>

\* Only who adds 0 points looks for a row, or uses the total of its snapshot.  Of totals it
\* matters how far they are from the present one.
AddsNothing(t) == stage[t] \in {"increment", "commit"} /\ mine[t].amount = 0
Adding(t) ==
  <<mine[t].amount, IF stage[t] = "commit" THEN mine[t].result - points[1] ELSE 0,
    IF AddsNothing(t) THEN {total - points[1] : total \in mine[t].seen} ELSE {}>>

\* Of what user 1 has drawn it only matters whether it agrees with the accounts, which in turn
\* matter while somebody is yet to change them.
Agree ==
  /\ gems[1] >= 0 /\ gems[1] + 100 * Len(hist[1]) = start[1]
  /\ \A i \in Item : owned[1][i] = Count(hist[1], i)
Present ==
  <<Agree, IF \A t \in Multi : stage[t] = "done" THEN 0 ELSE gems[1],
    (\E t \in Add : stage[t] = "new" \/ AddsNothing(t)) /\ 1 \in scored>>

\* Of the two transactions of a kind it does not matter which is which.  The locks that one
\* holds follow from those it still needs.
Lasting ==
  <<Present, HttpServer,
    {<<stage[t], todo[t], Drawing(t)>> : t \in Multi},
    {<<stage[t], todo[t], Adding(t)>> : t \in Add},
    {<<stage[t], todo[t]>> : t \in Batch}>>

\* Bound: the transactions that are open at a time.  Hopeless ones are looked at alone: beside
\* others they are like requests that fail.
MaxOpen == 3
Open == {t \in Tx : stage[t] \notin {"new", "done"}}
FewOpen ==
  /\ Cardinality(Open) <= MaxOpen
  /\ \A t \in Open \cap Multi : Hopeless(t) => Open = {t}

\* A well-formed request.
Fine(id, amount) ==
  [id |-> Number(id), amount |-> amount, bound |-> TRUE, reason |-> TRUE, large |-> FALSE]

\* User 3 is in no guild, there is no user 9.
MCMultiWire ==
  {Fine(1, 1), Fine(1, 2), Fine(1, 11), Fine(9, 1)}
    \cup {[Fine(1, 1) EXCEPT !.bound = FALSE],
          [Fine(1, 1) EXCEPT !.large = TRUE]}
MCAddWire ==
  {Fine(1, -1), Fine(1, 0), Fine(1, 5), Fine(3, 5), Fine(9, 5)}
    \cup {Fine(0, 5), [Fine(1, 5) EXCEPT !.reason = FALSE], [Fine(1, 5) EXCEPT !.large = TRUE]}
MCMultiInput == UNION {HttpMulti(w) : w \in MCMultiWire}
MCAddInput == UNION {GrpcAddUserPoints(w) : w \in MCAddWire}
\* Two windows with the same guilds and users, in opposite orders.
MCBatchInput == {<<[user |-> 1, guild |-> 1], [user |-> 2, guild |-> 2]>>,
                 <<[user |-> 2, guild |-> 2], [user |-> 1, guild |-> 1]>>}

\* 200 gems pay for one of the larger requests or for both smaller ones.
MCStarts == {1 :> 200 @@ 2 :> 0 @@ 3 :> 0}
=============================================================================

----------------------------- MODULE RankingApi -----------------------------
(***************************************************************************)
(* The reads of RankingCache as clients of both servers see them: a query  *)
(* that does not parse is refused before the use case, and every answer    *)
(* goes through the error tables, middlewares and interceptors of module   *)
(* Delivery.  A reader's request is sent to either server.                 *)
(***************************************************************************)
EXTENDS RankingCache, Delivery

CONSTANT Query   \* read requests on the wire: [limit, offset, id]

ASSUME QueryAssumption ==
  /\ \A w \in Query : {"limit", "offset", "id"} \subseteq DOMAIN w
  /\ UNION {HttpGetUserRankings(w) : w \in Query} \subseteq Page

\* The handler refuses the query of a page, or of one member.
RefuseQuery(r) ==
  /\ req[r].at = "idle"
  /\ \E w \in Query : \/ HttpGetUserRankings(w) = {} \/ HttpGetGuildRankings(w) = {}
                      \/ HttpGetUserRank(w) = {} \/ HttpGetGuildRank(w) = {}
  /\ Respond(r, [code |-> "400"])
  /\ Reading /\ UNCHANGED torn

\* Past the sentinel, MySQL has no user, or guild, with the id of the query.
FindNobody(r) ==
  /\ req[r].at = "idle" /\ sentinel
  /\ \E w \in Query : HttpGetUserRank(w) # {} \/ HttpGetGuildRank(w) # {}
  /\ Respond(r, [code |-> "404", unknown |-> TRUE])
  /\ Reading /\ UNCHANGED torn

ApiNext == Next \/ \E r \in Reader : RefuseQuery(r) \/ FindNobody(r)
ApiSpec == Init /\ [][ApiNext]_vars

\* The outcome of the use case behind an answer.
Outcome(response) ==
  LET code == response.code
  IN CASE code = "200" -> "ok"
       [] code = "400" -> "invalid"
       [] code = "404" -> IF "unknown" \in DOMAIN response THEN "not_found" ELSE "missing"
       [] code = "503" -> "unavailable"
       [] OTHER        -> "error"

\* What a client of each server gets for the answer to r.
HttpResponse(r) == HttpServe("", FALSE, HttpRankingAnswer(Outcome(answer[r])))
GrpcResponse(r) == GrpcServe("", FALSE, GrpcRankingAnswer(Outcome(answer[r])))

\* Clients of both servers learn the same: for every answer the statuses say the same, the
\* promise that a retry helps is made by both or none, and both logs hold one line with the
\* same id (docs/testing/grpc-ranking.md §4; handleError of both packages).
FrontsAgree ==
  \A r \in Reader : answer[r] # None =>
    Alike(HttpResponse(r), GrpcResponse(r)) /\ HttpResponse(r).status = answer[r].code

\* Nobody is told that a member has no points when the last rebuild answers for them,
\* however few they are: ZSCORE finds a member whose score is 0 (GetUserRank: 404 for
\* redis.Nil only; zero is a valid number of points).
HealedIsFound ==
  [][\A r \in Reader :
       req[r].at = "score" /\ answer'[r] # None /\ answer'[r].code = "404" =>
         \A e \in healed : MemberOf(req[r].b, e) # req[r].m]_vars
=============================================================================

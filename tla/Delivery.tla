------------------------------ MODULE Delivery ------------------------------
(***************************************************************************)
(* What the HTTP server (cmd/api) and the gRPC server (cmd/grpc) do with a *)
(* request around its use case: the handlers parse it, the error tables    *)
(* turn the outcome into a response, and the middlewares and interceptors  *)
(* around the handler log it.                                              *)
(*                                                                         *)
(* A request on the wire is abstracted to what these layers tell apart: a  *)
(* number that is given, missing or garbled, a body that binds, a reason,  *)
(* a message beyond the size limit.                                        *)
(***************************************************************************)
EXTENDS Integers, Sequences

-----------------------------------------------------------------------------
(* Parsing: the values a handler passes on; none if it refuses the request *)
(* with 400, or INVALID_ARGUMENT.                                          *)

Unset   == [text |-> "", value |-> 0]
Garbled == [text |-> "x", value |-> 0]
Number(n) == [text |-> "n", value |-> n]

ParseNonNegativeIntQuery(param) ==
  {n \in {param.value} : param.text # "x" /\ n >= 0}

\* strconv.ParseInt(c.Param(..)) and id <= 0
ParseId(param) == {n \in {param.value} : param.text = "n" /\ n > 0}

MinRankingLimit == 1
DefaultRankingLimit == 10
MaxRankingLimit == 100

NormalizeLimit(limit) ==
  IF limit < MinRankingLimit THEN DefaultRankingLimit
  ELSE IF limit > MaxRankingLimit THEN MaxRankingLimit ELSE limit
NormalizeOffset(offset) == IF offset < 0 THEN 0 ELSE offset

\* GET /rankings/guilds and /rankings/users: the pages <<offset, limit>> asked for.
HttpGetGuildRankings(wire) ==
  {<<NormalizeOffset(o), NormalizeLimit(l)>> :
     o \in ParseNonNegativeIntQuery(wire.offset), l \in ParseNonNegativeIntQuery(wire.limit)}
HttpGetUserRankings(wire) == HttpGetGuildRankings(wire)

HttpGetGuildRank(wire) == ParseId(wire.id)
HttpGetUserRank(wire)  == ParseId(wire.id)

\* POST /users/:userID/points and /users/:userID/gacha/multi
HttpAddUserPoints(wire) ==
  {[user |-> u, points |-> wire.amount] : u \in {v \in ParseId(wire.id) : wire.bound /\ wire.reason}}
HttpMulti(wire) ==
  {[user |-> u, pulls |-> wire.amount] : u \in {v \in ParseId(wire.id) : wire.bound}}

\* Protobuf has no garbled numbers, and a number that is not set is 0.
RankingsInput(limit, offset) == {p \in {<<offset, limit>>} : limit >= 0 /\ offset >= 0}
GrpcGetGuildRankings(wire) ==
  {<<NormalizeOffset(p[1]), NormalizeLimit(p[2])>> :
     p \in RankingsInput(wire.limit.value, wire.offset.value)}
GrpcGetUserRankings(wire) == GrpcGetGuildRankings(wire)
GrpcGetGuildRank(wire) == {n \in {wire.id.value} : n > 0}
GrpcGetUserRank(wire)  == {n \in {wire.id.value} : n > 0}
GrpcAddUserPoints(wire) ==
  {[user |-> u, points |-> wire.amount] : u \in {v \in {wire.id.value} : v > 0 /\ wire.reason}}

-----------------------------------------------------------------------------
(* What a handler hands to the layers around it, and what becomes of it:   *)
(* the status the client gets, the error or panic the next layer sees, the *)
(* promise that a retry helps (Retry-After, RetryInfo), the error reports  *)
(* with the cause, the request id and the access log.                      *)

Handled(status, error) ==
  [status |-> status, error |-> error, panic |-> FALSE, retry |-> FALSE,
   reports |-> 0, id |-> "", lines |-> <<>>]
Reported(e)   == [e EXCEPT !.reports = @ + 1]
RetryLater(e) == [e EXCEPT !.retry = TRUE]

\* c.JSON writes the response and returns nil.
Json(status) == Handled(status, FALSE)
\* status.Error(code, ..)
Status(code) == Handled(code, code # "OK")
Panicked == [Handled("", FALSE) EXCEPT !.panic = TRUE]

\* The errors of the use cases are told apart as: not_found (user, guild), no_guild,
\* invalid (score, points, pull count), missing (score, points), unavailable (the ranking
\* is not built), insufficient (gems), no_items, weights, and error for any other.

HttpRankingError(outcome) ==
  CASE outcome \in {"not_found", "missing"} -> Json("404")
    [] outcome = "no_guild"    -> Json("403")
    [] outcome = "invalid"     -> Json("400")
    [] outcome = "unavailable" -> RetryLater(Json("503"))
    [] OTHER                   -> Reported(Json("500"))

UnavailableError == RetryLater(Status("Unavailable"))

\* Mutant: what the handler does not know is answered like a ranking that is not built.
GrpcRankingErrorRetryable(outcome) ==
  IF outcome \in {"not_found", "missing"} THEN Status("NotFound") ELSE UnavailableError

GrpcRankingError(outcome) ==
  CASE outcome \in {"not_found", "missing"} -> Status("NotFound")
    [] outcome = "no_guild"    -> Status("PermissionDenied")
    [] outcome = "invalid"     -> Status("InvalidArgument")
    [] outcome = "unavailable" -> UnavailableError
    [] OTHER                   -> Reported(Status("Internal"))

HttpGachaError(outcome) ==
  CASE outcome = "invalid"      -> Json("400")
    [] outcome = "not_found"    -> Json("404")
    [] outcome = "insufficient" -> Json("402")
    [] outcome \in {"no_items", "weights"} -> Json("503")
    [] OTHER                    -> Reported(Json("500"))

HttpRankingAnswer(outcome) == IF outcome = "ok" THEN Json("200") ELSE HttpRankingError(outcome)
HttpGachaAnswer(outcome)   == IF outcome = "ok" THEN Json("200") ELSE HttpGachaError(outcome)
\* The message is built by the functions of convert.go.
GrpcRankingAnswer(outcome) == IF outcome = "ok" THEN Status("OK") ELSE GrpcRankingError(outcome)

\* GET /healthz; the use case answers ok and looks at nothing.
HealthUsecase == "ok"
HttpCheck(outcome) == IF outcome = "ok" THEN Json("200") ELSE Reported(Json("503"))

-----------------------------------------------------------------------------
(* The layers around a handler.                                            *)

NewRequestID == "new"
\* The id of the client is kept, so that the logs of both sides can be joined.
ResolveRequestID(given) == IF given # "" THEN given ELSE NewRequestID

\* One line per request.  A panic that passes through the logger leaves none.
Line(id, e) == [id |-> id, status |-> e.status, level |-> IF e.error THEN "ERROR" ELSE "INFO"]
AccessLog(id, e) == IF e.panic THEN e ELSE [e EXCEPT !.lines = Append(@, Line(id, e))]

\* middleware.Recover answers 500 itself and returns nil.
HttpRecover(e) == IF e.panic THEN Reported(Json("500")) ELSE e
\* middleware.BodyLimit does not call the handler; its error is answered by the access log.
HttpBodyLimit(large, e) == IF large THEN Handled("413", TRUE) ELSE e

\* Mutant: Recover is registered before the access log, hence around it.
HttpServeRecoveringOutside(given, large, e) ==
  LET id == ResolveRequestID(given)
  IN [HttpRecover(AccessLog(id, HttpBodyLimit(large, e))) EXCEPT !.id = id]

\* echo: RequestID, access log, BodyLimit, Recover, from the outside to the inside.
HttpServe(given, large, e) ==
  LET id == ResolveRequestID(given)
  IN [AccessLog(id, HttpBodyLimit(large, HttpRecover(e))) EXCEPT !.id = id]

UnaryRecover(e) == IF e.panic THEN Reported(Status("Internal")) ELSE e
UnaryAccessLog(id, e) == AccessLog(id, e)
UnaryRequestID(id, e) == [e EXCEPT !.id = id]

\* The generated handlers decode the message before they call the interceptors: a message
\* beyond the limit is refused without them.
Decode(large, intercepted) == IF large THEN Status("ResourceExhausted") ELSE intercepted

GrpcServe(given, large, e) ==
  LET id == ResolveRequestID(given)
  IN Decode(large, UnaryRequestID(id, UnaryAccessLog(id, UnaryRecover(e))))

StreamRecover(e) == IF e.panic THEN Reported(Status("Internal")) ELSE e
StreamAccessLog(id, e) == AccessLog(id, e)
StreamRequestID(id, e) == [e EXCEPT !.id = id]

\* Mutant: recover is chained before the access log, hence around it.
StreamServeRecoveringOutside(given, e) ==
  LET id == ResolveRequestID(given)
  IN StreamRequestID(id, StreamRecover(StreamAccessLog(id, e)))

\* A stream: its message is decoded inside the interceptors.
StreamServe(given, e) ==
  LET id == ResolveRequestID(given)
  IN StreamRequestID(id, StreamAccessLog(id, StreamRecover(e)))

Serve(server, given, large, e) ==
  IF server = "http" THEN HttpServe(given, large, e) ELSE GrpcServe(given, large, e)

-----------------------------------------------------------------------------
(* Assembly: di.Build makes every handler, and Register refuses to start   *)
(* with one missing.                                                       *)

Build == [http |-> {"Health", "Gacha", "Ranking"}, grpc |-> {"Ranking"}]
HttpRegister(handlers) == {"Health", "Gacha", "Ranking"} \subseteq handlers
GrpcRegister(services) == {"Ranking"} \subseteq services
Registers(server) ==
  IF server = "http" THEN HttpRegister(Build.http) ELSE GrpcRegister(Build.grpc)

-----------------------------------------------------------------------------
(* Comparing answers.                                                      *)

Success == {"200", "OK"}
\* The client cannot know whether its request had an effect.
Unknown == {"500", "Internal"}

\* The statuses that say the same on both servers (docs/testing/grpc-ranking.md §4).
SameStatus == {<<"200", "OK">>, <<"400", "InvalidArgument">>, <<"403", "PermissionDenied">>,
         <<"404", "NotFound">>, <<"500", "Internal">>, <<"503", "Unavailable">>}

Alike(h, g) ==
  /\ <<h.status, g.status>> \in SameStatus
  /\ h.retry = g.retry /\ h.reports = g.reports /\ h.id = g.id
  /\ Len(h.lines) = 1 /\ Len(g.lines) = 1
=============================================================================

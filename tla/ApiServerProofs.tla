-------------------------- MODULE ApiServerProofs --------------------------
(***************************************************************************)
(* Proofs about the servers for any number of requests, users and inputs:  *)
(* panics, failing statements, refusals and dying processes are steps of   *)
(* Transactions, and what a client reads in a response follows from the    *)
(* commit behind it, the error tables and the layers around the handlers.  *)
(***************************************************************************)
EXTENDS ApiServer, TransactionsProofs, DeliveryProofs

-----------------------------------------------------------------------------
(* The servers add nothing to what happens in the database.                *)

LEMMA FailIsStep ==
  ASSUME NEW t \in Tx, Fail(t) PROVE Next
BY DEF Next

LEMMA HandleIsStep ==
  ASSUME NEW t \in Request, Handle(t) PROVE Next
BY DEF Handle, Next

LEMMA RequestIsTx == Request \subseteq Tx
BY DEF Request, Tx

LEMMA ApiStepIsStep == [ApiNext]_apiVars => [Next]_vars
<1> SUFFICES ASSUME [ApiNext]_apiVars PROVE [Next]_vars OBVIOUS
<1>1. ASSUME NEW t \in Request, Handle(t) PROVE Next BY <1>1, HandleIsStep
<1>2. ASSUME NEW t \in Request, Refuse(t) \/ StatementFails(t) \/ Panic(t) \/ Cut(t) PROVE Next
  BY <1>2, FailIsStep, RequestIsTx DEF Refuse, StatementFails, Panic, Cut
<1>3. CASE Elsewhere
  <2>1. ASSUME NEW t \in Batch, BatchNext(t) \/ Fail(t) PROVE Next
    BY <2>1, FailIsStep DEF Next, Tx
  <2>2. ASSUME NEW t \in Tx, GrantLock(t) PROVE Next BY <2>2 DEF Next
  <2> QED BY <1>3, <2>1, <2>2 DEF Elsewhere
<1>4. CASE Healthz BY <1>4 DEF Healthz
<1>5. ASSUME NEW f \in Server, Boot(f) \/ Stop(f) \/ Drained(f) \/ ShutdownTimesOut(f) \/ Die(f)
      PROVE  UNCHANGED vars
  BY <1>5 DEF Boot, Stop, Drained, ShutdownTimesOut, Die, Becomes
<1>6. CASE Terminated BY <1>6 DEF Terminated
<1>7. CASE UNCHANGED apiVars BY <1>7 DEF apiVars
<1> QED BY <1>1, <1>2, <1>3, <1>4, <1>5, <1>6, <1>7 DEF ApiNext

\* A panic, a refusal or the death of a server is nothing but a failing transaction.
THEOREM ApiImplementsTransactions == ApiSpec => Spec
<1>1. ApiInit => Init BY DEF ApiInit
<1> QED BY <1>1, ApiStepIsStep, PTL DEF ApiSpec, Spec

\* No gem is lost or spent twice when handlers panic and servers die with requests in flight
\* (DoInTx rolls back on every way out but the commit).
THEOREM GemsConservedByServers == ApiSpec => []GemsConserved
BY ApiImplementsTransactions, GemsConservedHolds, PTL

\* Nor does anything else suffer that the transactions promise: what users own, how they
\* draw, what they are told, that requests take effect one at a time, and that nobody waits
\* in a circle.
THEOREM PromisesKeptByServers ==
  ApiSpec => /\ []IndInv /\ []ItemsMatchHistory /\ []DrawIsWeighted
             /\ []NoDeadlock /\ AnswersAreTrue /\ ImplementsAccounts
BY ApiImplementsTransactions, LocksProtect, ItemsMatchHistoryHolds, DrawIsWeightedHolds,
   NoDeadlockHolds, AnswersAreTrueHolds, Serializable, PTL

-----------------------------------------------------------------------------
(* What the outcome of a use case becomes.                                 *)

\* Nothing but "ok" is answered with success, "error" is answered as unknown, and no answer
\* looks like a message beyond the limit.
Means(outcome, status, retry) ==
  /\ status # "ResourceExhausted"
  /\ status \in Success => outcome = "ok"
  /\ outcome = "ok" => status \in Success /\ ~retry
  /\ outcome = "error" => status \in Unknown /\ ~retry

LEMMA OkMeans ==
  \A s \in Success : s \notin Unknown /\ Means("ok", s, FALSE)
BY DEF Success, Unknown, Means

LEMMA GachaAnswerMeans ==
  ASSUME NEW outcome
  PROVE  \E status, retry : /\ Ended(HttpGachaAnswer(outcome), status, retry)
                            /\ Means(outcome, status, retry)
<1>1. CASE outcome = "ok"
  <2>1. HttpGachaAnswer(outcome) = Json("200") /\ "200" \in Success
    BY <1>1 DEF HttpGachaAnswer, Success
  <2> QED BY <1>1, <2>1, HandledEnds, OkMeans
<1>2. CASE outcome # "ok" /\ outcome \in {"invalid", "not_found", "insufficient", "no_items", "weights"}
  <2>1. PICK s \in {"400", "404", "402", "503"} : HttpGachaAnswer(outcome) = Json(s)
    BY <1>2 DEF HttpGachaAnswer, HttpGachaError
  <2>2. Ended(Json(s), s, FALSE) BY HandledEnds, Statuses
  <2>3. Means(outcome, s, FALSE) BY <1>2, Statuses DEF Means
  <2> QED BY <2>1, <2>2, <2>3
<1>3. CASE outcome # "ok" /\ outcome \notin {"invalid", "not_found", "insufficient", "no_items", "weights"}
  <2>1. HttpGachaAnswer(outcome) = Reported(Json("500"))
    BY <1>3 DEF HttpGachaAnswer, HttpGachaError
  <2>2. "500" \in Unknown /\ "500" \notin Success BY DEF Unknown, Success
  <2> QED BY <1>3, <2>1, <2>2, ReportedEnds DEF Means
<1> QED BY <1>1, <1>2, <1>3

LEMMA HttpRankingAnswerMeans ==
  ASSUME NEW outcome
  PROVE  \E status, retry : /\ Ended(HttpRankingAnswer(outcome), status, retry)
                            /\ Means(outcome, status, retry)
<1>1. CASE outcome = "ok"
  <2>1. HttpRankingAnswer(outcome) = Json("200") /\ "200" \in Success
    BY <1>1 DEF HttpRankingAnswer, Success
  <2> QED BY <1>1, <2>1, HandledEnds, OkMeans
<1>2. CASE outcome # "ok" /\ outcome \in {"not_found", "missing", "no_guild", "invalid"}
  <2>1. PICK s \in {"400", "403", "404"} : HttpRankingAnswer(outcome) = Json(s)
    BY <1>2 DEF HttpRankingAnswer, HttpRankingError
  <2>2. Ended(Json(s), s, FALSE) BY HandledEnds, Statuses
  <2>3. Means(outcome, s, FALSE) BY <1>2, Statuses DEF Means
  <2> QED BY <2>1, <2>2, <2>3
<1>3. CASE outcome = "unavailable"
  <2>1. HttpRankingAnswer(outcome) = RetryLater(Json("503"))
    BY <1>3 DEF HttpRankingAnswer, HttpRankingError
  <2> QED BY <1>3, <2>1, HandledEnds, Statuses DEF Means
<1>4. CASE outcome # "ok" /\ outcome \notin {"not_found", "missing", "no_guild", "invalid", "unavailable"}
  <2>1. HttpRankingAnswer(outcome) = Reported(Json("500"))
    BY <1>4 DEF HttpRankingAnswer, HttpRankingError
  <2>2. "500" \in Unknown /\ "500" \notin Success BY DEF Unknown, Success
  <2> QED BY <1>4, <2>1, <2>2, ReportedEnds DEF Means
<1> QED BY <1>1, <1>2, <1>3, <1>4

LEMMA GrpcRankingAnswerMeans ==
  ASSUME NEW outcome
  PROVE  \E status, retry : /\ Ended(GrpcRankingAnswer(outcome), status, retry)
                            /\ Means(outcome, status, retry)
<1>1. CASE outcome = "ok"
  <2>1. GrpcRankingAnswer(outcome) = Status("OK") /\ "OK" \in Success
    BY <1>1 DEF GrpcRankingAnswer, Success
  <2> QED BY <1>1, <2>1, HandledEnds, OkMeans
<1>2. CASE outcome # "ok" /\ outcome \in {"not_found", "missing", "no_guild", "invalid"}
  <2>1. PICK s \in {"InvalidArgument", "NotFound", "PermissionDenied"} :
          GrpcRankingAnswer(outcome) = Status(s)
    BY <1>2 DEF GrpcRankingAnswer, GrpcRankingError
  <2>2. Ended(Status(s), s, FALSE) BY HandledEnds, Statuses
  <2>3. Means(outcome, s, FALSE) BY <1>2, Statuses DEF Means
  <2> QED BY <2>1, <2>2, <2>3
<1>3. CASE outcome = "unavailable"
  <2>1. GrpcRankingAnswer(outcome) = RetryLater(Status("Unavailable"))
    BY <1>3 DEF GrpcRankingAnswer, GrpcRankingError, UnavailableError
  <2> QED BY <1>3, <2>1, HandledEnds, Statuses DEF Means
<1>4. CASE outcome # "ok" /\ outcome \notin {"not_found", "missing", "no_guild", "invalid", "unavailable"}
  <2>1. GrpcRankingAnswer(outcome) = Reported(Status("Internal"))
    BY <1>4 DEF GrpcRankingAnswer, GrpcRankingError
  <2>2. "Internal" \in Unknown /\ "Internal" \notin Success BY DEF Unknown, Success
  <2> QED BY <1>4, <2>1, <2>2, ReportedEnds DEF Means
<1> QED BY <1>1, <1>2, <1>3, <1>4

LEMMA AnswerMeans ==
  ASSUME NEW t \in Request, NEW outcome
  PROVE  \E status, retry : /\ Ended(AnswerTo(t, outcome), status, retry)
                            /\ Means(outcome, status, retry)
BY GachaAnswerMeans, HttpRankingAnswerMeans, GrpcRankingAnswerMeans DEF AnswerTo

-----------------------------------------------------------------------------
(* What the client of a request gets.                                      *)

\* A panic is answered by the recovering layer.
LEMMA PanicDelivered ==
  ASSUME NEW t \in Request
  PROVE  \E status \in Unknown :
           Observed(Serve(ServerOf[t], GivenIdOf[t], FALSE, Panicked), status, FALSE)
<1>1. Panicked.panic = TRUE BY DEF Panicked, Handled
<1>2. CASE ServerOf[t] = "http"
  <2>1. "500" \in Unknown BY DEF Unknown
  <2>2. Ended(Reported(Json("500")), "500", FALSE) BY <2>1, ReportedEnds
  <2>3. Observed(Serve(ServerOf[t], GivenIdOf[t], FALSE, Reported(Json("500"))), "500", FALSE)
    BY <2>2, Delivered
  <2>4. Reported(Json("500")).panic = FALSE BY <2>2 DEF Ended
  <2>5. Serve(ServerOf[t], GivenIdOf[t], FALSE, Panicked)
          = Serve(ServerOf[t], GivenIdOf[t], FALSE, Reported(Json("500")))
    BY <1>1, <1>2, <2>4 DEF Serve, HttpServe, HttpRecover
  <2> QED BY <2>1, <2>3, <2>5
<1>3. CASE ServerOf[t] # "http"
  <2>1. "Internal" \in Unknown BY DEF Unknown
  <2>2. Ended(Reported(Status("Internal")), "Internal", FALSE) BY <2>1, ReportedEnds
  <2>3. Observed(Serve(ServerOf[t], GivenIdOf[t], FALSE, Reported(Status("Internal"))), "Internal", FALSE)
    BY <2>2, Delivered
  <2>4. Reported(Status("Internal")).panic = FALSE BY <2>2 DEF Ended
  <2>5. Serve(ServerOf[t], GivenIdOf[t], FALSE, Panicked)
          = Serve(ServerOf[t], GivenIdOf[t], FALSE, Reported(Status("Internal")))
    BY <1>1, <1>3, <2>4 DEF Serve, GrpcServe, Decode, UnaryRequestID, UnaryAccessLog, UnaryRecover
  <2> QED BY <2>1, <2>3, <2>5
<1> QED BY <1>2, <1>3

\* What is too large is refused outside the handlers, over gRPC outside the log too.
Oversized(e) ==
  \/ Observed(e, "413", FALSE)
  \/ /\ e.status = "ResourceExhausted" /\ ~e.retry /\ ~e.panic
     /\ e.reports = 0 /\ e.lines = <<>>

LEMMA OversizedDelivered ==
  ASSUME NEW t \in Request, NEW e PROVE Oversized(Serve(ServerOf[t], GivenIdOf[t], TRUE, e))
<1>1. CASE ServerOf[t] = "http"
  <2> DEFINE id == ResolveRequestID(GivenIdOf[t])
             h == Handled("413", TRUE)
  <2>1. Ended(h, "413", FALSE) BY Statuses DEF Ended, Handled
  <2>2. Observed([AccessLog(id, h) EXCEPT !.id = id], "413", FALSE) BY <2>1, OneLine
  <2>3. Serve(ServerOf[t], GivenIdOf[t], TRUE, e) = [AccessLog(id, h) EXCEPT !.id = id]
    BY <1>1 DEF Serve, HttpServe, HttpBodyLimit
  <2> QED BY <2>2, <2>3 DEF Oversized
<1>2. CASE ServerOf[t] # "http"
  <2>1. Serve(ServerOf[t], GivenIdOf[t], TRUE, e) = Status("ResourceExhausted")
    BY <1>2 DEF Serve, GrpcServe, Decode
  <2>2. Oversized(Status("ResourceExhausted")) BY DEF Oversized, Status, Handled
  <2> QED BY <2>1, <2>2
<1> QED BY <1>1, <1>2

-----------------------------------------------------------------------------
(* The steps that respond.                                                 *)

LEMMA RespondTo ==
  ASSUME NEW t, NEW large, NEW e, Respond(t, large, e), sent'.kind = "response"
  PROVE  sent'.to = t /\ sent'.got = Serve(ServerOf[t], GivenIdOf[t], large, e)
BY DEF Respond, Silence, Response

\* Only a commit says "ok", and only a commit, seen or not, writes.
LEMMA MultiOutcome ==
  ASSUME NEW t, MultiNext(t)
  PROVE  /\ answer'.code = "ok" => stage[t] = "commit"
         /\ answer'.code \notin Told => UNCHANGED data
<1>1. answer'.code = "ok" => stage[t] = "commit" BY MultiAnswer DEF CommitMulti, At
<1>2. CASE CommitMulti(t)
  <2>1. answer'.code \in Told BY <1>2, AnswerOf DEF CommitMulti
  <2> QED BY <1>1, <2>1
<1>3. CASE ~CommitMulti(t)
  <2>1. UNCHANGED data
    BY <1>3 DEF MultiNext, RefuseMulti, BeginMulti, RefuseDraw, Draw, EndWith
  <2> QED BY <1>1, <2>1, SMTT(30)
<1> QED BY <1>2, <1>3

LEMMA AddOutcome ==
  ASSUME NEW t, AddNext(t)
  PROVE  /\ answer'.code = "ok" => stage[t] = "commit"
         /\ answer'.code \notin Told => UNCHANGED data
<1>1. answer'.code = "ok" => stage[t] = "commit" BY AddAnswer DEF CommitAdd, At
<1>2. CASE CommitAdd(t)
  <2>1. answer'.code \in Told BY <1>2, AnswerOf DEF CommitAdd
  <2> QED BY <1>1, <2>1
<1>3. CASE ~CommitAdd(t)
  <2>1. UNCHANGED data BY <1>3 DEF AddNext, RefuseAdd, BeginAdd, ReadBack, FindNoRow, EndWith
  <2> QED BY <1>1, <2>1
<1> QED BY <1>2, <1>3

\* What may be concluded from a response e to t.
Truthful(t, e) ==
  /\ e.status \in Success => stage[t] = "commit" /\ answer'.code = "ok"
  /\ e.status \notin Success \cup Unknown \/ e.retry => UNCHANGED data

Observable(e) ==
  /\ ~e.panic
  /\ e.reports = IF e.status \in Unknown THEN 1 ELSE 0
  /\ IF e.status = "ResourceExhausted" THEN e.lines = <<>>
     ELSE Len(e.lines) = 1 /\ e.lines[1].id = e.id /\ e.lines[1].status = e.status

LEMMA ObservedIsObservable ==
  ASSUME NEW e, NEW status, NEW retry, status # "ResourceExhausted", Observed(e, status, retry)
  PROVE  Observable(e)
BY DEF Observed, Observable

LEMMA OversizedIsObservable ==
  ASSUME NEW e, Oversized(e) PROVE Observable(e)
BY Statuses DEF Oversized, Observed, Observable

LEMMA HandleResponds ==
  ASSUME NEW t \in Request, Handle(t), sent'.kind = "response"
  PROVE  sent'.to = t /\ Truthful(t, sent'.got) /\ Observable(sent'.got)
<1>0. sent' # Silence BY DEF Silence
<1>1. stage'[t] = "done" /\ Respond(t, FALSE, AnswerTo(t, answer'.code))
  BY <1>0 DEF Handle
<1>2. PICK status, retry : /\ Ended(AnswerTo(t, answer'.code), status, retry)
                          /\ Means(answer'.code, status, retry)
  BY AnswerMeans
<1>3. sent'.to = t /\ Observed(sent'.got, status, retry)
  <2>1. sent'.to = t
        /\ sent'.got = Serve(ServerOf[t], GivenIdOf[t], FALSE, AnswerTo(t, answer'.code))
    BY <1>1, RespondTo
  <2> QED BY <1>2, <2>1, Delivered
<1>4. /\ answer'.code = "ok" => stage[t] = "commit"
      /\ answer'.code \notin Told => UNCHANGED data
  BY MultiOutcome, AddOutcome DEF Handle
<1>5. sent'.got.status = status /\ sent'.got.retry = retry BY <1>3 DEF Observed
<1>6. Truthful(t, sent'.got) BY <1>2, <1>4, <1>5 DEF Truthful, Means, Told
<1>7. Observable(sent'.got) BY <1>2, <1>3, ObservedIsObservable DEF Means
<1> QED BY <1>3, <1>6, <1>7

LEMMA FailWritesNothing ==
  ASSUME NEW t, Fail(t) PROVE UNCHANGED data
BY DEF Fail, EndWith

\* A response without success that comes with no write is truthful.
LEMMA NoWriteIsTruthful ==
  ASSUME NEW t, NEW e, UNCHANGED data, e.status \notin Success PROVE Truthful(t, e)
BY DEF Truthful

LEMMA RefuseResponds ==
  ASSUME NEW t \in Request, Refuse(t), sent'.kind = "response"
  PROVE  sent'.to = t /\ Truthful(t, sent'.got) /\ Observable(sent'.got)
<1>1. PICK large \in BOOLEAN : Respond(t, large, AnswerTo(t, "invalid"))
  BY WireAssumption DEF Refuse
<1>2. UNCHANGED data BY FailWritesNothing DEF Refuse
<1>3. sent'.to = t /\ sent'.got = Serve(ServerOf[t], GivenIdOf[t], large, AnswerTo(t, "invalid"))
  BY <1>1, RespondTo
<1>4. CASE large = TRUE
  <2>1. Oversized(sent'.got) BY <1>3, <1>4, OversizedDelivered
  <2>2. sent'.got.status \notin Success BY <2>1, Statuses DEF Oversized, Observed
  <2> QED BY <1>2, <1>3, <2>1, <2>2, OversizedIsObservable, NoWriteIsTruthful
<1>5. CASE large = FALSE
  <2>1. PICK status, retry : /\ Ended(AnswerTo(t, "invalid"), status, retry)
                            /\ Means("invalid", status, retry)
    BY AnswerMeans
  <2>2. Observed(sent'.got, status, retry) BY <1>3, <1>5, <2>1, Delivered
  <2>3. sent'.got.status \notin Success BY <2>1, <2>2 DEF Means, Observed
  <2> QED BY <1>2, <1>3, <2>1, <2>2, <2>3, ObservedIsObservable, NoWriteIsTruthful DEF Means
<1> QED BY <1>4, <1>5

LEMMA StatementFailsResponds ==
  ASSUME NEW t \in Request, StatementFails(t), sent'.kind = "response"
  PROVE  sent'.to = t /\ Truthful(t, sent'.got) /\ Observable(sent'.got)
<1>1. PICK status, retry : /\ Ended(AnswerTo(t, "error"), status, retry)
                          /\ Means("error", status, retry)
  BY AnswerMeans
<1>2. /\ sent'.to = t
      /\ sent'.got = Serve(ServerOf[t], GivenIdOf[t], FALSE, AnswerTo(t, "error"))
  BY RespondTo DEF StatementFails
<1>3. Observed(sent'.got, status, retry) BY <1>1, <1>2, Delivered
<1>4. UNCHANGED data BY FailWritesNothing DEF StatementFails
<1>5. sent'.got.status \notin Success BY <1>1, <1>3 DEF Means, Observed
<1> QED BY <1>1, <1>2, <1>3, <1>4, <1>5, ObservedIsObservable, NoWriteIsTruthful DEF Means

LEMMA PanicResponds ==
  ASSUME NEW t \in Request, Panic(t), sent'.kind = "response"
  PROVE  sent'.to = t /\ Truthful(t, sent'.got) /\ Observable(sent'.got)
<1>1. PICK status \in Unknown :
        Observed(Serve(ServerOf[t], GivenIdOf[t], FALSE, Panicked), status, FALSE)
  BY PanicDelivered
<1>2. sent'.to = t /\ Observed(sent'.got, status, FALSE)
  <2>1. sent'.to = t /\ sent'.got = Serve(ServerOf[t], GivenIdOf[t], FALSE, Panicked)
    BY RespondTo DEF Panic
  <2> QED BY <1>1, <2>1
<1>3. UNCHANGED data BY FailWritesNothing DEF Panic
<1>4. sent'.got.status = status /\ status \notin Success /\ status # "ResourceExhausted"
  BY <1>2, Statuses DEF Observed
<1> QED BY <1>2, <1>3, <1>4, ObservedIsObservable, NoWriteIsTruthful

LEMMA SilentSteps ==
  ASSUME ApiNext, sent'.kind = "response"
  PROVE  \/ \E t \in Request : Handle(t) \/ Refuse(t) \/ StatementFails(t) \/ Panic(t)
         \/ Healthz
         \/ Terminated /\ UNCHANGED <<process, sent>>
<1>1. sent' # Silence BY DEF Silence
<1> QED BY <1>1 DEF ApiNext, Cut, Elsewhere, Boot, Stop, Drained, ShutdownTimesOut, Die, Becomes

\* Whatever fails, panics or dies, a response with success follows a commit that was seen, a
\* refusal wrote nothing, and what promises that a retry helps wrote nothing.
THEOREM RefusalHasNoEffectHolds == ApiSpec => RefusalHasNoEffect
<1> DEFINE Honest ==
      \A t \in Request : stage[t] # "done" /\ sent'.kind = "response" /\ sent'.to = t =>
        /\ sent'.got.status \in Success => stage[t] = "commit" /\ answer'.code = "ok"
        /\ sent'.got.status \notin Success \cup Unknown \/ sent'.got.retry => UNCHANGED data
<1>1. ApiNext => Honest
  <2> SUFFICES ASSUME ApiNext, NEW t \in Request,
                      stage[t] # "done", sent'.kind = "response", sent'.to = t
               PROVE  Truthful(t, sent'.got)
    BY DEF Truthful
  <2>1. ASSUME NEW o \in Request, Handle(o) \/ Refuse(o) \/ StatementFails(o) \/ Panic(o)
        PROVE  Truthful(t, sent'.got)
    BY <2>1, HandleResponds, RefuseResponds, StatementFailsResponds, PanicResponds
  <2>2. CASE Healthz
    <3>1. sent'.to = "healthz" BY <2>2 DEF Healthz, Response
    <3>2. "healthz" \notin Request BY HealthzAssumption
    <3> QED BY <3>1, <3>2
  <2>3. CASE Terminated
    <3>1. t \in Tx BY RequestIsTx
    <3>2. stage[t] = "done" BY <2>3, <3>1 DEF Terminated
    <3> QED BY <3>2
  <2> QED BY <2>1, <2>2, <2>3, SilentSteps
<1>2. [ApiNext]_apiVars => [Honest]_apiVars BY <1>1
<1> QED BY <1>2, PTL DEF ApiSpec, RefusalHasNoEffect

LEMMA HealthzResponds ==
  ASSUME Healthz PROVE Observable(sent'.got)
<1>1. sent'.got = Serve("http", "", FALSE, HttpCheck(HealthUsecase)) BY DEF Healthz, Response
<1>2. HttpCheck(HealthUsecase) = Json("200") BY DEF HttpCheck, HealthUsecase
<1>3. Ended(Json("200"), "200", FALSE) BY HandledEnds DEF Unknown
<1>4. Observed(sent'.got, "200", FALSE) BY <1>1, <1>2, <1>3, Delivered
<1> QED BY <1>4, ObservedIsObservable

\* Every response is in the access log under its own id and status, and every server error
\* has its cause reported once, also when a handler panics or a body is too large.
THEOREM AnswersAreObservableHolds == ApiSpec => AnswersAreObservable
<1> DEFINE InLogs ==
      sent'.kind = "response" =>
        LET e == sent'.got
        IN /\ ~e.panic
           /\ e.reports = IF e.status \in Unknown THEN 1 ELSE 0
           /\ IF e.status = "ResourceExhausted" THEN e.lines = <<>>
              ELSE Len(e.lines) = 1 /\ e.lines[1].id = e.id /\ e.lines[1].status = e.status
<1>1. ApiNext => [InLogs]_apiVars
  <2> SUFFICES ASSUME ApiNext, sent'.kind = "response"
               PROVE  Observable(sent'.got) \/ UNCHANGED apiVars
    BY DEF Observable
  <2>1. ASSUME NEW o \in Request, Handle(o) \/ Refuse(o) \/ StatementFails(o) \/ Panic(o)
        PROVE  Observable(sent'.got)
    BY <2>1, HandleResponds, RefuseResponds, StatementFailsResponds, PanicResponds
  <2>2. CASE Healthz BY <2>2, HealthzResponds
  <2>3. CASE Terminated /\ UNCHANGED <<process, sent>> BY <2>3 DEF Terminated, apiVars
  <2> QED BY <2>1, <2>2, <2>3, SilentSteps
<1>2. [ApiNext]_apiVars => [InLogs]_apiVars BY <1>1
<1> QED BY <1>2, PTL DEF ApiSpec, AnswersAreObservable
=============================================================================

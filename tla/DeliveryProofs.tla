--------------------------- MODULE DeliveryProofs ---------------------------
(***************************************************************************)
(* The layers around a handler: whatever the server, the status, the       *)
(* promise of a retry and the request id of an answer that is not a panic  *)
(* go through unchanged, and one line is logged about it.                  *)
(***************************************************************************)
EXTENDS Delivery, TLAPS

\* What a handler that does not panic hands over.
Ended(e, status, retry) ==
  e \in [status : {status}, error : BOOLEAN, panic : {FALSE}, retry : {retry},
         reports : {IF status \in Unknown THEN 1 ELSE 0}, id : {""}, lines : {<<>>}]

\* What the client gets is the same, with one line about it.
Observed(e, status, retry) ==
  /\ e.status = status /\ e.retry = retry /\ ~e.panic
  /\ e.reports = IF status \in Unknown THEN 1 ELSE 0
  /\ Len(e.lines) = 1 /\ e.lines[1].id = e.id /\ e.lines[1].status = status

\* The access log of an answer that is no panic.
LEMMA OneLine ==
  ASSUME NEW e, NEW status, NEW retry, Ended(e, status, retry), NEW id
  PROVE  Observed([AccessLog(id, e) EXCEPT !.id = id], status, retry)
<1>1. Append(<<>>, Line(id, e)) = <<Line(id, e)>> OBVIOUS
<1> DEFINE l == Line(id, e)
<1>2. l.id = id /\ l.status = status BY DEF Line, Ended
<1>3. Len(<<l>>) = 1 /\ <<l>>[1] = l OBVIOUS
<1>4. AccessLog(id, e) = [e EXCEPT !.lines = <<l>>] BY <1>1 DEF AccessLog, Ended
<1> HIDE DEF l
<1> DEFINE g == [AccessLog(id, e) EXCEPT !.id = id]
<1>5. g.status = status /\ g.retry = retry /\ g.panic = FALSE
      /\ g.reports = (IF status \in Unknown THEN 1 ELSE 0) /\ g.id = id /\ g.lines = <<l>>
  BY <1>4 DEF Ended
<1> QED BY <1>2, <1>3, <1>5 DEF Observed

LEMMA HandledEnds ==
  ASSUME NEW status, status \notin Unknown
  PROVE  /\ Ended(Json(status), status, FALSE) /\ Ended(Status(status), status, FALSE)
         /\ Ended(RetryLater(Json(status)), status, TRUE)
         /\ Ended(RetryLater(Status(status)), status, TRUE)
BY DEF Ended, Json, Status, Handled, RetryLater

LEMMA ReportedEnds ==
  ASSUME NEW status \in Unknown
  PROVE  Ended(Reported(Json(status)), status, FALSE) /\ Ended(Reported(Status(status)), status, FALSE)
<1>1. Reported(Json(status)).reports = 1 /\ Reported(Status(status)).reports = 1
  BY DEF Json, Status, Handled, Reported
<1> QED BY <1>1 DEF Ended, Json, Status, Handled, Reported

LEMMA Statuses ==
  /\ Success \cap Unknown = {}
  /\ \A s \in {"400", "402", "403", "404", "413", "503", "InvalidArgument", "NotFound",
               "PermissionDenied", "ResourceExhausted", "Unavailable"} :
       s \notin Success /\ s \notin Unknown
BY DEF Success, Unknown

\* Both servers.
LEMMA Delivered ==
  ASSUME NEW f, NEW given, NEW e, NEW status, NEW retry, Ended(e, status, retry)
  PROVE  Observed(Serve(f, given, FALSE, e), status, retry)
<1> DEFINE id == ResolveRequestID(given)
<1>1. e.panic = FALSE BY DEF Ended
<1>2. Observed([AccessLog(id, e) EXCEPT !.id = id], status, retry) BY OneLine
<1>3. HttpServe(given, FALSE, e) = [AccessLog(id, e) EXCEPT !.id = id]
  BY <1>1 DEF HttpServe, HttpBodyLimit, HttpRecover
<1>4. GrpcServe(given, FALSE, e) = [AccessLog(id, e) EXCEPT !.id = id]
  BY <1>1 DEF GrpcServe, Decode, UnaryRequestID, UnaryAccessLog, UnaryRecover
<1> QED BY <1>2, <1>3, <1>4 DEF Serve

\* A stream.
LEMMA StreamDelivered ==
  ASSUME NEW given, NEW e, NEW status, NEW retry, Ended(e, status, retry)
  PROVE  Observed(StreamServe(given, e), status, retry)
<1> DEFINE id == ResolveRequestID(given)
<1>1. e.panic = FALSE BY DEF Ended
<1>2. Observed([AccessLog(id, e) EXCEPT !.id = id], status, retry) BY OneLine
<1> QED BY <1>1, <1>2 DEF StreamServe, StreamRequestID, StreamAccessLog, StreamRecover

\* A panic is answered like an error the handler does not know.
LEMMA StreamPanicked ==
  ASSUME NEW given
  PROVE  StreamServe(given, Panicked) = StreamServe(given, Reported(Status("Internal")))
<1>1. Panicked.panic = TRUE BY DEF Panicked, Handled
<1>2. Reported(Status("Internal")).panic = FALSE BY DEF Reported, Status, Handled
<1> QED BY <1>1, <1>2 DEF StreamServe, StreamRecover

LEMMA IdKept ==
  ASSUME NEW f, NEW given, NEW e, NEW status, NEW retry, Ended(e, status, retry)
  PROVE  Serve(f, given, FALSE, e).id = ResolveRequestID(given)
<1> DEFINE id == ResolveRequestID(given)
<1>1. e.panic = FALSE BY DEF Ended
<1>2. [AccessLog(id, e) EXCEPT !.id = id].id = id BY DEF AccessLog, Ended
<1>3. HttpServe(given, FALSE, e) = [AccessLog(id, e) EXCEPT !.id = id]
  BY <1>1 DEF HttpServe, HttpBodyLimit, HttpRecover
<1>4. GrpcServe(given, FALSE, e) = [AccessLog(id, e) EXCEPT !.id = id]
  BY <1>1 DEF GrpcServe, Decode, UnaryRequestID, UnaryAccessLog, UnaryRecover
<1> QED BY <1>2, <1>3, <1>4 DEF Serve
=============================================================================

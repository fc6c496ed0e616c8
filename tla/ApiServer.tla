----------------------------- MODULE ApiServer -----------------------------
(***************************************************************************)
(* The two server processes around the transactions of the requests:       *)
(* cmd/api (HTTP: gacha and points) and cmd/grpc (points).  A request is   *)
(* accepted while its server serves, refused by its handler, run by the    *)
(* use case (module Transactions), and answered through the error tables,  *)
(* middlewares and interceptors (module Delivery).  Handlers panic,        *)
(* responses get lost, and a server fails to boot, is stopped by SIGTERM,  *)
(* or dies with requests in flight.                                        *)
(*                                                                         *)
(* Left out: the pool of database connections, which only delays requests  *)
(* (a handler never asks for a second connection while it holds one).      *)
(***************************************************************************)
EXTENDS Transactions, Delivery

CONSTANTS
  ServerOf,   \* the server a request is sent to
  MultiWire,  \* gacha requests on the wire
  AddWire,    \* point additions on the wire
  GivenIdOf,  \* the X-Request-Id of a request, "" if it has none
  MayStop     \* bound: the servers that may fail to boot, be stopped, or die

Server == {"http", "grpc"}
Request == Multi \cup Add

ASSUME ServerAssumption ==
  /\ ServerOf \in [Request -> Server] /\ \A t \in Multi : ServerOf[t] = "http"
  /\ MayStop \subseteq Server
ASSUME HealthzAssumption == "healthz" \notin Request
ASSUME WireAssumption ==
  /\ \A w \in MultiWire \cup AddWire : w.large \in BOOLEAN
  /\ UNION {HttpMulti(w) : w \in MultiWire} \subseteq MultiInput
  /\ UNION {HttpAddUserPoints(w) \cup GrpcAddUserPoints(w) : w \in AddWire} \subseteq AddInput
ASSUME IdAssumption == GivenIdOf \in [Request -> STRING]

VARIABLES
  process,  \* per server: starting, serving, draining, or its exit code
  sent      \* the response the last step sent, or Silence

apiVars == <<vars, process, sent>>

Silence == [kind |-> "silence"]
Response(t, e) == [kind |-> "response", to |-> t, got |-> e]

ApiInit ==
  /\ Init
  /\ process = [f \in Server |-> IF f \in MayStop THEN "starting" ELSE "serving"]
  /\ sent = Silence

Running(f) == process[f] \in {"serving", "draining"}
\* Shutdown and GracefulStop accept no new request and let the accepted ones end.
Accepts(t) ==
  IF stage[t] = "new" THEN process[ServerOf[t]] = "serving" ELSE Running(ServerOf[t])

-----------------------------------------------------------------------------
(* Requests.                                                               *)

\* The handler has ended with e.  The client does not get the response if it is gone,
\* the server dies, or writeTimeout has passed.
Respond(t, large, e) ==
  /\ sent' \in {Silence, Response(t, Serve(ServerOf[t], GivenIdOf[t], large, e))}
  /\ UNCHANGED process

AnswerTo(t, outcome) ==
  IF t \in Multi THEN HttpGachaAnswer(outcome)
  ELSE IF ServerOf[t] = "http" THEN HttpRankingAnswer(outcome) ELSE GrpcRankingAnswer(outcome)

\* The inputs the handler of t makes of a request on the wire.
InputOf(t, wire) ==
  IF t \in Multi THEN HttpMulti(wire)
  ELSE IF ServerOf[t] = "http" THEN HttpAddUserPoints(wire) ELSE GrpcAddUserPoints(wire)

\* The use case runs on.
Handle(t) ==
  /\ Accepts(t)
  /\ \/ t \in Multi /\ MultiNext(t)
     \/ t \in Add /\ AddNext(t)
  /\ IF stage'[t] = "done" THEN Respond(t, FALSE, AnswerTo(t, answer'.code))
                           ELSE sent' = Silence /\ UNCHANGED process

\* The request is refused before the use case: too large, or it does not parse.
Refuse(t) ==
  /\ stage[t] = "new" /\ Accepts(t)
  /\ \E wire \in IF t \in Multi THEN MultiWire ELSE AddWire :
       /\ wire.large \/ InputOf(t, wire) = {}
       /\ Respond(t, wire.large, AnswerTo(t, "invalid"))
  /\ Fail(t)

\* A statement fails: the handler gets the error.
StatementFails(t) == Accepts(t) /\ Fail(t) /\ Respond(t, FALSE, AnswerTo(t, "error"))

\* The handler panics: DoInTx rolls back while the panic passes through it.
Panic(t) == Accepts(t) /\ Fail(t) /\ Respond(t, FALSE, Panicked)

\* The server does not accept the request, or is gone with its transaction.
Cut(t) ==
  /\ ~Accepts(t)
  /\ Fail(t)
  /\ sent' = Silence /\ UNCHANGED process

\* A worker's transaction goes on, or a row lock is granted.
Elsewhere ==
  /\ \/ \E t \in Batch : BatchNext(t) \/ Fail(t)
     \/ \E t \in Tx : GrantLock(t)
  /\ sent' = Silence /\ UNCHANGED process

\* GET /healthz touches no state.  Bound: asked while no request has begun.
Healthz ==
  /\ process["http"] = "serving" /\ \A t \in Tx : stage[t] = "new"
  /\ sent' = Response("healthz", Serve("http", "", FALSE, HttpCheck(HealthUsecase)))
  /\ UNCHANGED <<vars, process>>

-----------------------------------------------------------------------------
(* Processes.                                                              *)

Becomes(f, state) ==
  process' = [process EXCEPT ![f] = state] /\ sent' = Silence /\ UNCHANGED vars

InFlight(f) == {t \in Request : ServerOf[t] = f /\ stage[t] \notin {"new", "done"}}

\* main: the configuration, MySQL, Redis and the routes (Register) are checked before
\* the server listens; any that fails ends the process.
Boot(f) ==
  /\ process[f] = "starting"
  /\ \/ Registers(f) /\ Becomes(f, "serving")
     \/ Becomes(f, "exit1")

\* SIGTERM; for gRPC also the end of the ranking watcher.
Stop(f) == f \in MayStop /\ process[f] = "serving" /\ Becomes(f, "draining")

Drained(f) == process[f] = "draining" /\ InFlight(f) = {} /\ Becomes(f, "exit0")

\* Shutdown returns an error and main exits with 1; Stop cuts the connections and is no error.
ShutdownTimesOut(f) ==
  /\ process[f] = "draining" /\ InFlight(f) # {}
  /\ Becomes(f, IF f = "http" THEN "exit1" ELSE "exit0")

\* The server cannot listen any more, or its process is killed.
Die(f) == f \in MayStop /\ Running(f) /\ Becomes(f, "exit1")

ApiNext ==
  \/ \E t \in Request : Handle(t) \/ Refuse(t) \/ StatementFails(t) \/ Panic(t) \/ Cut(t)
  \/ Elsewhere
  \/ Healthz
  \/ \E f \in Server : Boot(f) \/ Stop(f) \/ Drained(f) \/ ShutdownTimesOut(f) \/ Die(f)
  \/ Terminated /\ UNCHANGED <<process, sent>>

ApiSpec == ApiInit /\ [][ApiNext]_apiVars

-----------------------------------------------------------------------------
(* Properties.                                                             *)

\* What a client may conclude from a response, although handlers panic, statements fail,
\* COMMITs have unknown outcomes and servers die: success means that the transaction has
\* been committed, and any refusal, above all one that promises that a retry helps,
\* means that nothing was written.  Only after 500 or Internal, or no response, must it
\* ask before it tries again (error tables of the handlers, DoInTx).
RefusalHasNoEffect ==
  [][\A t \in Request : stage[t] # "done" /\ sent'.kind = "response" /\ sent'.to = t =>
       /\ sent'.got.status \in Success => stage[t] = "commit" /\ answer'.code = "ok"
       /\ sent'.got.status \notin Success \cup Unknown \/ sent'.got.retry => UNCHANGED data
    ]_apiVars

\* Operators can find every response in the logs, also that of a handler that panicked and
\* that of a body that was too large: one access log line with the id and the status the
\* client got, and one report of the cause exactly for a server error (echo.go:94-100 and
\* grpc.go:67-76: the order of the layers is a must).  A gRPC message beyond the
\* limit is refused outside the interceptors and is in no log.
AnswersAreObservable ==
  [][sent'.kind = "response" =>
       LET e == sent'.got
       IN /\ ~e.panic
          /\ e.reports = IF e.status \in Unknown THEN 1 ELSE 0
          /\ IF e.status = "ResourceExhausted" THEN e.lines = <<>>
             ELSE Len(e.lines) = 1 /\ e.lines[1].id = e.id /\ e.lines[1].status = e.status
    ]_apiVars
=============================================================================

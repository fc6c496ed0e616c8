--------------------------- MODULE RankingWatcher ---------------------------
(***************************************************************************)
(* The push path of the ranking: the fan-out hub                           *)
(* (internal/usecase/ranking/watcher.go), the streaming handler            *)
(* (internal/driver/grpc/ranking/watch.go), the signal channel             *)
(* (internal/infrastructure/redis/ranking_update.go) and the shutdown of   *)
(* the gRPC process (internal/infrastructure/server/grpc.go,               *)
(* cmd/grpc/main.go).                                                      *)
(*                                                                         *)
(* An entry of the ranking is abstracted to what sameRanking compares (id, *)
(* rank, score).  Names and the total count are left out: the hub does not *)
(* look at them.                                                           *)
(***************************************************************************)
EXTENDS Integers, Sequences, Delivery

CONSTANTS
  Client,     \* streams; each is opened at most once
  Slow,       \* clients that may stop reading: Send may block on flow control
  Leaver,     \* clients that may disconnect
  Limit,      \* the limits each client may ask for
  Entry,      \* the entries a ranking is made of
  MaxVersion, \* bound: updates of the ranking
  Ranking,    \* what the user ranking is after each update
  Faults      \* what may go wrong: subscribe, pubsub, publish, fetch, signal, panic

ASSUME ClientAssumption == Slow \subseteq Client /\ Leaver \subseteq Client
ASSUME LimitAssumption == Limit \in [Client -> SUBSET Int]
ASSUME RankingAssumption ==
  MaxVersion \in Nat /\ Ranking \in [0..MaxVersion -> Seq(Entry)] /\ Ranking[0] = <<>>
ASSUME FaultsAssumption ==
  Faults \subseteq {"subscribe", "pubsub", "publish", "fetch", "signal", "panic"}

VARIABLES
  version,    \* the updates of the ranking so far: Redis holds Ranking[version]
  unsent,     \* an update is in Redis and NotifyUpdated has not been called for it
  notice,     \* the buffer of notifyCh holds a signal
  hub,        \* where Run is
  batch,      \* the subscribers of the current broadcast, or those shutdown still closes
  fetched,    \* res of the current broadcast
  last,       \* RankingWatcher.last
  stopped,    \* RankingWatcher.stopped
  subs,       \* RankingWatcher.subs
  removing,   \* subscribers deleted from subs whose channel is not closed yet
  limit,      \* watchSubscriber.limit
  ch,         \* watchSubscriber.ch: the unread values, at most one
  closed,     \* watchSubscriber.closed
  delivered,  \* watchSubscriber.delivered
  pushed,     \* history: a broadcast has reached the subscriber
  stream,     \* where the handler of a stream is
  got,        \* the value a handler has in hand
  seen,       \* the last value sent to the client
  ctxDone,    \* the stream's context is done
  answer,     \* what the layers around the handler made of its return
  watchCtx,   \* watchCtx is cancelled
  srvCtx,     \* srvCtx is cancelled
  server      \* where RunGRPC is

redis   == <<version, unsent>>
hubVars == <<hub, batch, fetched, last, stopped>>
chan    == <<ch, closed, delivered, pushed>>
client  == <<stream, got, seen, ctxDone, answer>>
proc    == <<watchCtx, srvCtx, server>>
vars == <<version, unsent, notice, hub, batch, fetched, last, stopped, subs, removing,
          limit, ch, closed, delivered, pushed, stream, got, seen, ctxDone, answer, watchCtx, srvCtx,
          server>>

Version == 0..MaxVersion
Page == Seq(Entry)

TruncateResult(res, n) == IF Len(res) <= n THEN res ELSE SubSeq(res, 1, n)

\* GetUserRankings from offset 0, as Redis holds the ranking now.
GetUserRankings(n) == TruncateResult(Ranking[version], n)

\* The stream is open.
Pending == Handled("", FALSE)

\* What a handler returns, if it does not panic, and the answers the interceptors make of it.
Returned ==
  {Status("InvalidArgument"), Status("Unavailable"), Status("Canceled"),
   GrpcRankingAnswer("ok"), GrpcRankingAnswer("error"), GrpcRankingAnswer("unavailable")}
Answer == {StreamServe("", e) : e \in Returned \cup {Panicked}}

TypeOK ==
  /\ version \in Version /\ fetched \in Page /\ last \in Page
  /\ unsent \in BOOLEAN /\ notice \in BOOLEAN /\ stopped \in BOOLEAN
  /\ hub \in {"start", "select", "fetch", "commit", "push", "closing", "done"}
  /\ batch \subseteq Client /\ subs \subseteq Client /\ removing \subseteq Client
  /\ ch \in [Client -> SUBSET Page] /\ \A c \in Client : \A v, w \in ch[c] : v = w
  /\ closed \in [Client -> BOOLEAN] /\ delivered \in [Client -> BOOLEAN]
  /\ pushed \in [Client -> BOOLEAN] /\ ctxDone \in [Client -> BOOLEAN]
  /\ stream \in [Client -> {"new", "fetch", "initial", "recv", "send", "failed", "end"}]
  /\ got \in [Client -> Page] /\ seen \in [Client -> Page]
  /\ answer \in [Client -> Answer \cup {Pending}]
  /\ \A c \in Client : stream[c] = "end" <=> answer[c] # Pending
  /\ limit \in [Client -> 0..MaxRankingLimit]
  /\ watchCtx \in BOOLEAN /\ srvCtx \in BOOLEAN
  /\ server \in {"serving", "graceful", "forced", "down"}

Init ==
  /\ version = 0 /\ unsent = FALSE /\ notice = FALSE
  /\ hub = "start" /\ batch = {} /\ fetched = <<>> /\ last = <<>> /\ stopped = FALSE
  /\ subs = {} /\ removing = {} /\ limit = [c \in Client |-> 0]
  /\ ch = [c \in Client |-> {}] /\ closed = [c \in Client |-> FALSE]
  /\ delivered = [c \in Client |-> FALSE] /\ pushed = [c \in Client |-> FALSE]
  /\ stream = [c \in Client |-> "new"] /\ got = [c \in Client |-> <<>>]
  /\ seen = [c \in Client |-> <<>>] /\ ctxDone = [c \in Client |-> FALSE]
  /\ answer = [c \in Client |-> Pending]
  /\ watchCtx = FALSE /\ srvCtx = FALSE /\ server = "serving"

-----------------------------------------------------------------------------
(* The worker: ApplyScoreDeltas, then NotifyUpdated.                       *)

Update ==
  /\ version < MaxVersion
  /\ version' = version + 1
  /\ unsent' = TRUE
  /\ UNCHANGED <<notice, limit, hubVars, subs, removing, chan, client, proc>>

\* PUBLISH reaches the hub if it is subscribed; a full buffer drops the signal.
NotifyUpdated ==
  /\ unsent
  /\ unsent' = FALSE
  /\ \/ notice' = (notice \/ hub \notin {"start", "closing", "done"})
     \/ "publish" \in Faults /\ UNCHANGED notice
  /\ UNCHANGED <<version, limit, hubVars, subs, removing, chan, client, proc>>

-----------------------------------------------------------------------------
(* RankingWatcher.Run, shutdown and broadcast.                             *)

\* Subscribe succeeds, or Run returns its error at once and main stops the server.
HubStart ==
  /\ hub = "start"
  /\ \/ ~watchCtx /\ hub' = "select" /\ UNCHANGED srvCtx
     \/ (watchCtx \/ "subscribe" \in Faults) /\ hub' = "done" /\ srvCtx' = TRUE
  /\ UNCHANGED <<redis, notice, limit, batch, fetched, last, stopped, subs, removing, chan, client,
                 watchCtx, server>>

\* case <-ctx.Done(), or the signal channel was closed: shutdown empties subs under mu.
HubShutdown ==
  /\ hub = "select"
  /\ \/ watchCtx /\ (srvCtx' = srvCtx \/ srvCtx' = TRUE)
     \/ ~watchCtx /\ "pubsub" \in Faults /\ ~notice /\ srvCtx' = TRUE
  /\ hub' = "closing" /\ stopped' = TRUE
  /\ batch' = subs /\ subs' = {}
  /\ UNCHANGED <<redis, notice, limit, fetched, last, removing, chan, client, watchCtx, server>>

\* watchSubscriber.close
CloseChannel(c) == closed' = [closed EXCEPT ![c] = TRUE]

HubClose(c) ==
  /\ hub = "closing" /\ c \in batch
  /\ batch' = batch \ {c}
  /\ CloseChannel(c)
  /\ UNCHANGED <<redis, notice, limit, hub, fetched, last, stopped, subs, removing, ch, delivered,
                 pushed, client, proc>>

HubDone ==
  /\ hub = "closing" /\ batch = {}
  /\ hub' = "done"
  /\ UNCHANGED <<redis, notice, limit, batch, fetched, last, stopped, subs, removing, chan, client, proc>>

\* broadcast: snapshot; without subscribers nothing is read.
HubSnapshot ==
  /\ hub = "select" /\ notice
  /\ notice' = FALSE
  /\ IF subs = {} THEN UNCHANGED <<hub, batch>> ELSE hub' = "fetch" /\ batch' = subs
  /\ UNCHANGED <<redis, limit, fetched, last, stopped, subs, removing, chan, client, proc>>

\* Mutant: the limit of any subscriber.
MaxLimitOfAny(m) == \E c \in batch : m = limit[c]

\* The largest limit of the subscribers.
MaxLimit(m) == (\E c \in batch : m = limit[c]) /\ \A c \in batch : limit[c] <= m

\* Mutant: the streams are closed when the read fails.
HubFetchClosing ==
  /\ hub = "fetch"
  /\ \/ ~watchCtx /\ hub' = "commit" /\ UNCHANGED batch
        /\ \E c \in batch : MaxLimit(limit[c]) /\ fetched' = GetUserRankings(limit[c])
     \/ (watchCtx \/ "fetch" \in Faults) /\ hub' = "closing" /\ UNCHANGED <<batch, fetched>>
  /\ UNCHANGED <<redis, notice, limit, last, stopped, subs, removing, chan, client, proc>>

\* GetUserRankings with the largest limit; an error leaves the streams open.
HubFetch ==
  /\ hub = "fetch"
  /\ \/ /\ ~watchCtx /\ hub' = "commit" /\ UNCHANGED batch
        /\ \E c \in batch : MaxLimit(limit[c]) /\ fetched' = GetUserRankings(limit[c])
     \/ (watchCtx \/ "fetch" \in Faults) /\ hub' = "select" /\ batch' = {} /\ UNCHANGED fetched
  /\ UNCHANGED <<redis, notice, limit, last, stopped, subs, removing, chan, client, proc>>

\* commitIfChanged
HubCommit ==
  /\ hub = "commit"
  /\ IF fetched = last THEN hub' = "select" /\ batch' = {} ELSE hub' = "push" /\ UNCHANGED batch
  /\ last' = fetched
  /\ UNCHANGED <<redis, notice, limit, fetched, stopped, subs, removing, chan, client, proc>>

\* Mutants: an unread value stays and the new one is dropped; closed is not looked at; the
\* buffer holds more than one value.
DeliverKeepingOld(c) ==
  /\ ch' = IF closed[c] \/ ch[c] # {} THEN ch
           ELSE [ch EXCEPT ![c] = {TruncateResult(fetched, limit[c])}]
  /\ delivered' = [delivered EXCEPT ![c] = @ \/ ~closed[c]]
  /\ pushed' = [pushed EXCEPT ![c] = @ \/ ~closed[c]]
DeliverToClosed(c) ==
  /\ ch' = [ch EXCEPT ![c] = {TruncateResult(fetched, limit[c])}]
  /\ delivered' = [delivered EXCEPT ![c] = TRUE]
  /\ pushed' = [pushed EXCEPT ![c] = TRUE]
DeliverUndrained(c) ==
  /\ ch' = IF closed[c] THEN ch
           ELSE [ch EXCEPT ![c] = @ \cup {TruncateResult(fetched, limit[c])}]
  /\ delivered' = [delivered EXCEPT ![c] = @ \/ ~closed[c]]
  /\ pushed' = [pushed EXCEPT ![c] = @ \/ ~closed[c]]

\* watchSubscriber.push: the newest value replaces an unread one.
Deliver(c) ==
  /\ ch' = IF closed[c] THEN ch ELSE [ch EXCEPT ![c] = {TruncateResult(fetched, limit[c])}]
  /\ delivered' = [delivered EXCEPT ![c] = @ \/ ~closed[c]]
  /\ pushed' = [pushed EXCEPT ![c] = @ \/ ~closed[c]]

HubPush(c) ==
  /\ hub = "push" /\ c \in batch
  /\ Deliver(c)
  /\ batch' = batch \ {c}
  /\ hub' = IF batch' = {} THEN "select" ELSE "push"
  /\ UNCHANGED <<redis, notice, limit, fetched, last, stopped, subs, removing, closed, client, proc>>

-----------------------------------------------------------------------------
(* A stream: the handler's WatchUserRankings and the hub's.                *)

\* The handler returns: what the interceptors log and answer, and the end of the context.
Return(c, handled) ==
  /\ stream' = [stream EXCEPT ![c] = "end"]
  /\ answer' = [answer EXCEPT ![c] = StreamServe("", handled)]
  /\ ctxDone' = [ctxDone EXCEPT ![c] = TRUE]

\* The client opens a stream: refused for its limit, or by ErrWatcherStopped.
Refuse(c) ==
  /\ stream[c] = "new" /\ server = "serving"
  /\ \/ (\E l \in Limit[c] : l < 0) /\ Return(c, Status("InvalidArgument"))
     \/ (\E l \in Limit[c] : l >= 0) /\ stopped /\ Return(c, Status("Unavailable"))
  /\ UNCHANGED <<redis, notice, limit, hubVars, subs, removing, chan, got, seen, proc>>

Register(c) ==
  /\ stream[c] = "new" /\ server = "serving"
  /\ ~stopped
  /\ \E l \in Limit[c] : l >= 0 /\ limit' = [limit EXCEPT ![c] = NormalizeLimit(l)]
  /\ stream' = [stream EXCEPT ![c] = "fetch"]
  /\ subs' = subs \cup {c}
  /\ UNCHANGED <<redis, notice, hubVars, removing, chan, got, seen, ctxDone, answer, proc>>

\* remove, first half: delete(w.subs, id) under mu.
Detach(c) ==
  /\ subs' = subs \ {c}
  /\ removing' = IF c \in subs THEN removing \cup {c} ELSE removing

\* The first fetch, or its error, which takes the registration back.
FirstFetch(c) ==
  /\ stream[c] = "fetch"
  /\ \/ /\ ~ctxDone[c]
        /\ stream' = [stream EXCEPT ![c] = "initial"]
        /\ got' = [got EXCEPT ![c] = GetUserRankings(limit[c])]
        /\ UNCHANGED <<subs, removing>>
     \/ /\ ctxDone[c] \/ "fetch" \in Faults
        /\ stream' = [stream EXCEPT ![c] = "failed"]
        /\ Detach(c)
        /\ UNCHANGED got
  /\ UNCHANGED <<redis, notice, limit, hubVars, chan, seen, ctxDone, answer, proc>>

\* The handler returns after remove has closed the channel (or somebody else had removed it).
FailFirst(c) ==
  /\ stream[c] = "failed" /\ c \notin removing
  /\ \/ Return(c, GrpcRankingAnswer("error"))
     \/ "fetch" \in Faults /\ Return(c, GrpcRankingAnswer("unavailable"))
  /\ UNCHANGED <<redis, notice, limit, hubVars, subs, removing, chan, got, seen, proc>>

\* pushInitial: skipped if a broadcast came first.  A send into a full buffer would block
\* while holding the subscriber's mutex.
PushInitial(c) ==
  /\ stream[c] = "initial"
  /\ IF closed[c] \/ delivered[c]
       THEN UNCHANGED <<ch, delivered>>
       ELSE /\ ch[c] = {}
            /\ ch' = [ch EXCEPT ![c] = {got[c]}]
            /\ delivered' = [delivered EXCEPT ![c] = TRUE]
  /\ stream' = [stream EXCEPT ![c] = "recv"]
  /\ UNCHANGED <<redis, notice, limit, hubVars, subs, removing, closed, pushed, got, seen, ctxDone, answer,
                 proc>>

\* for res := range updates
Receive(c) ==
  /\ stream[c] = "recv"
  /\ \/ /\ ch[c] # {}
        /\ got' = [got EXCEPT ![c] = CHOOSE v \in ch[c] : TRUE]
        /\ ch' = [ch EXCEPT ![c] = {}]
        /\ stream' = [stream EXCEPT ![c] = "send"]
        /\ UNCHANGED <<ctxDone, answer>>
     \/ /\ ch[c] = {} /\ closed[c]
        /\ Return(c, GrpcRankingAnswer("ok"))
        /\ UNCHANGED <<got, ch>>
  /\ UNCHANGED <<redis, notice, limit, hubVars, subs, removing, closed, delivered, pushed, seen, proc>>

Send(c) ==
  /\ stream[c] = "send" /\ ~ctxDone[c]
  /\ stream' = [stream EXCEPT ![c] = "recv"]
  /\ seen' = [seen EXCEPT ![c] = got[c]]
  /\ UNCHANGED <<redis, notice, limit, hubVars, subs, removing, chan, got, ctxDone, answer, proc>>

\* Send fails because the stream is gone; its error is returned as it is.
SendFails(c) ==
  /\ stream[c] = "send" /\ ctxDone[c]
  /\ Return(c, Status("Canceled"))
  /\ UNCHANGED <<redis, notice, limit, hubVars, subs, removing, chan, got, seen, proc>>

\* The handler panics in the use case or while it converts a message.
Panic(c) ==
  /\ "panic" \in Faults
  /\ stream[c] \in {"fetch", "send"}
  /\ Return(c, Panicked)
  /\ UNCHANGED <<redis, notice, limit, hubVars, subs, removing, chan, got, seen, proc>>

\* The client disconnects: gRPC cancels the stream's context.
Hangup(c) ==
  /\ c \in Leaver
  /\ stream[c] \notin {"new", "end"} /\ ~ctxDone[c]
  /\ ctxDone' = [ctxDone EXCEPT ![c] = TRUE]
  /\ UNCHANGED <<redis, notice, limit, hubVars, subs, removing, chan, stream, got, seen, answer, proc>>

\* Mutant: register does not arrange for remove.
AfterFuncMissing(c) == FALSE /\ UNCHANGED vars

\* context.AfterFunc runs remove in its own goroutine.
AfterFunc(c) ==
  /\ ctxDone[c] /\ c \in subs
  /\ Detach(c)
  /\ UNCHANGED <<redis, notice, limit, hubVars, chan, client, proc>>

\* remove, second half: close the channel under the subscriber's own mutex.
RemoveClose(c) ==
  /\ c \in removing
  /\ removing' = removing \ {c}
  /\ CloseChannel(c)
  /\ UNCHANGED <<redis, notice, limit, hubVars, subs, ch, delivered, pushed, client, proc>>

-----------------------------------------------------------------------------
(* The process: main, RunGRPC and shutdownGRPC.                            *)

\* SIGTERM cancels the parent of watchCtx and srvCtx.
Signal ==
  /\ "signal" \in Faults
  /\ ~srvCtx
  /\ srvCtx' = TRUE /\ watchCtx' = TRUE
  /\ UNCHANGED <<redis, notice, limit, hubVars, subs, removing, chan, client, server>>

\* onShutdown stops the hub; GracefulStop refuses new streams and waits.
BeginShutdown ==
  /\ server = "serving" /\ srvCtx
  /\ watchCtx' = TRUE
  /\ server' = "graceful"
  /\ UNCHANGED <<redis, notice, limit, hubVars, subs, removing, chan, client, srvCtx>>

AllEnded == \A c \in Client : stream[c] \in {"new", "end"}

\* Mutant: no time limit on GracefulStop.
NoTimeout == FALSE /\ UNCHANGED vars

\* grpcShutdownTimeout passes: Stop cancels every stream.
ShutdownTimeout ==
  /\ server = "graceful" /\ ~AllEnded
  /\ server' = "forced"
  /\ ctxDone' = [c \in Client |-> ctxDone[c] \/ stream[c] # "new"]
  /\ UNCHANGED <<redis, notice, limit, hubVars, subs, removing, chan, stream, got, seen, answer, watchCtx,
                 srvCtx>>

\* GracefulStop returns: every handler has returned.
ServerDown ==
  /\ server \in {"graceful", "forced"} /\ AllEnded
  /\ server' = "down"
  /\ UNCHANGED <<redis, notice, limit, hubVars, subs, removing, chan, client, watchCtx, srvCtx>>

-----------------------------------------------------------------------------
(* Specification.                                                          *)

HubStep ==
  \/ HubStart \/ HubShutdown \/ HubDone \/ HubSnapshot \/ HubFetch \/ HubCommit
  \/ \E c \in Client : HubClose(c) \/ HubPush(c)

StreamStep(c) ==
  \/ FirstFetch(c) \/ FailFirst(c) \/ PushInitial(c) \/ Receive(c) \/ SendFails(c)

Cleanup(c) == AfterFunc(c) \/ RemoveClose(c)

Shutdown == BeginShutdown \/ ShutdownTimeout \/ ServerDown

\* The process is down.
Terminated == server = "down" /\ UNCHANGED vars

Next ==
  \/ Update \/ NotifyUpdated
  \/ HubStep
  \/ \E c \in Client : Refuse(c) \/ Register(c) \/ StreamStep(c) \/ Send(c) \/ Panic(c)
                          \/ Hangup(c) \/ Cleanup(c)
  \/ Signal \/ Shutdown
  \/ Terminated

Spec == Init /\ [][Next]_vars

\* Goroutines, AfterFunc and the shutdown timer run; a worker that updated the ranking goes
\* on to publish; a client that is not slow keeps reading.  Nothing else is fair.
FairSpec ==
  /\ Spec
  /\ WF_vars(NotifyUpdated)
  /\ WF_vars(HubStep)
  /\ WF_vars(Shutdown)
  /\ \A c \in Client :
       /\ WF_vars(StreamStep(c))
       /\ WF_vars(Cleanup(c))
  /\ \A c \in Client \ Slow : WF_vars(Send(c))

-----------------------------------------------------------------------------
(* Properties.                                                             *)

Latest(c) ==
  IF ch[c] # {} THEN CHOOSE v \in ch[c] : TRUE
  ELSE IF stream[c] = "send" THEN got[c] ELSE seen[c]

Open(c) == stream[c] \in {"recv", "send"} /\ ~closed[c] /\ ~ctxDone[c]

\* Once a broadcast has reached a subscriber, the newest value on its way to the client is
\* exactly its part of the ranking the hub compares the next one with, whatever was dropped
\* in between: so "unchanged, do not push" never hides a change from it, although the ranking
\* compared is as long as the largest limit of the moment (push, commitIfChanged).
PushedSeesLast ==
  \A c \in Client :
    pushed[c] /\ Open(c) /\ c \in subs =>
      Latest(c) = TruncateResult(last, limit[c]) \/ (hub = "push" /\ c \in batch)

\* No value is ever put into a closed channel, and nobody holding a subscriber's mutex is
\* stuck on a full buffer: broadcast, first snapshot, disconnect and shutdown all use the
\* same channel (push, pushInitial, close).
ChannelDiscipline ==
  [][\A c \in Client :
       /\ closed[c] => ch'[c] \subseteq ch[c]
       /\ stream[c] = "initial" /\ ~closed[c] /\ ~delivered[c] => ch[c] = {}]_vars

\* A subscriber that a broadcast has reached ends up with the ranking Redis holds.
PushedConverges ==
  \A c \in Client : <>[](pushed[c] /\ Open(c) /\ ~watchCtx => seen[c] = GetUserRankings(limit[c]))

\* The hub has read what Redis holds, and as much of it as the client asks for.
Current(c) ==
  \E d \in subs : limit[c] <= limit[d] /\ last = GetUserRankings(limit[d])

\* Registering before the first fetch loses no update (WatchUserRankings, watcher.go:114-116):
\* once the hub has read the ranking Redis holds, every stream that stays open ends up with it.
EveryStreamConverges ==
  \A c \in Client :
    <>[](Open(c) /\ ~watchCtx /\ Current(c) => seen[c] = GetUserRankings(limit[c]))

\* Once the server context is cancelled (a signal, or a hub that stopped by itself) the
\* process goes down: no stream, slow client or failed subscription can hold it for ever.
ShutdownCompletes == srvCtx ~> server = "down"

\* A handler that has returned leaves nothing in the hub: its registration is taken back
\* and its channel closed, whichever of disconnect, failed fetch and shutdown came first.
NoLeakedSubscriber ==
  \A c \in Client :
    stream[c] = "end" ~> (server = "down" \/ c \notin subs \cup removing)

\* A stream ends with success only because its client is gone or the hub has stopped: a
\* failed read or a panic never looks like a normal end.  Whichever way it ends, the access
\* log has one line of it, with the status the client got (handler and interceptors).
EndsWithReason ==
  [][\A c \in Client : stream[c] # "end" /\ stream'[c] = "end" =>
       /\ answer'[c].status = "OK" => stopped \/ ctxDone[c]
       /\ Len(answer'[c].lines) = 1
       /\ answer'[c].lines[1].status = answer'[c].status]_vars
=============================================================================

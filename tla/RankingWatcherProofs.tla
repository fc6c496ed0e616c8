------------------------ MODULE RankingWatcherProofs ------------------------
(***************************************************************************)
(* Theorems of RankingWatcher, for any clients, limits, rankings and       *)
(* faults.                                                                 *)
(***************************************************************************)
EXTENDS RankingWatcher, DeliveryProofs

\* What a stream's registration, channel and context say of each other.
Registered ==
  \A c \in Client :
    /\ stream[c] = "new" =>
         c \notin subs \cup removing \cup batch /\ ~closed[c] /\ ~delivered[c]
    /\ c \in subs => ~closed[c] /\ c \notin removing
    /\ ~delivered[c] => ch[c] = {} /\ ~pushed[c]
    /\ c \in removing \/ closed[c] => stopped \/ ctxDone[c] \/ stream[c] = "failed"
    /\ stream[c] = "end" => ctxDone[c]

\* What the hub's place says of its variables.
HubInv ==
  /\ stopped => subs = {}
  /\ hub = "closing" => stopped
  /\ hub = "push" => fetched = last
  /\ hub \in {"fetch", "commit"} => \A c \in subs : pushed[c] => c \in batch

\* The newest value on its way to the client cannot get lost before the handler receives,
\* and is the client's part of last, unless the current broadcast is about to replace it.
OnWay(c) ==
  /\ stream[c] \in {"fetch", "initial"} => ch[c] # {}
  /\ stream[c] \in {"fetch", "initial", "recv", "send"} =>
       Latest(c) = TruncateResult(last, limit[c]) \/ (hub = "push" /\ c \in batch)

OnItsWay == \A c \in subs : pushed[c] => OnWay(c)

IndInv == TypeOK /\ Registered /\ HubInv /\ OnItsWay

-----------------------------------------------------------------------------
(* Rankings and answers.                                                   *)

\* A ranking cut to a limit is a ranking.
LEMMA TruncateType ==
  ASSUME NEW r \in Page, NEW n \in 0..MaxRankingLimit
  PROVE  TruncateResult(r, n) \in Page
BY SMT DEF TruncateResult, Page

LEMMA LimitType == ASSUME NEW l \in Int PROVE NormalizeLimit(l) \in 0..MaxRankingLimit
BY SMT DEF NormalizeLimit, MinRankingLimit, DefaultRankingLimit, MaxRankingLimit

\* The interceptors log a stream once, as it is answered.
LoggedAs(c, status) ==
  /\ Len(answer'[c].lines) = 1
  /\ answer'[c].lines[1].status = status /\ answer'[c].status = status

\* The status that a handler's return stands for.
EndsAs(e, status) ==
  (\E retry : Ended(e, status, retry)) \/ (e = Panicked /\ status = "Internal")

LEMMA Observation ==
  ASSUME NEW c \in Client, answer \in [Client -> Answer \cup {Pending}],
         NEW e \in Returned \cup {Panicked}, NEW status, EndsAs(e, status), Return(c, e)
  PROVE  /\ LoggedAs(c, status)
         /\ answer'[c] # Pending
         /\ answer' \in [Client -> Answer \cup {Pending}]
<1> DEFINE a == StreamServe("", e)
<1>1. PICK r : Observed(a, status, r)
  <2>1. CASE \E retry : Ended(e, status, retry) BY <2>1, StreamDelivered
  <2>2. CASE e = Panicked /\ status = "Internal"
    <3>1. Ended(Reported(Status("Internal")), "Internal", FALSE) BY ReportedEnds DEF Unknown
    <3> QED BY <2>2, <3>1, StreamDelivered, StreamPanicked
  <2> QED BY <2>1, <2>2 DEF EndsAs
<1>2. answer' = [answer EXCEPT ![c] = a] BY DEF Return
<1>3. a \in Answer BY DEF Answer
<1> HIDE DEF a
<1>4. answer'[c] = a BY <1>2
<1>5. a # Pending
  <2>1. Len(a.lines) = 1 BY <1>1 DEF Observed
  <2>2. Pending.lines = <<>> BY DEF Pending, Handled
  <2>3. Len(<<>>) = 0 OBVIOUS
  <2>4. CASE a = Pending
    <3>1. Len(Pending.lines) = 1 BY <2>1, <2>4
    <3>2. Len(Pending.lines) = 0 BY <2>2, <2>3
    <3> QED BY <3>1, <3>2
  <2> QED BY <2>4
<1>6. answer' \in [Client -> Answer \cup {Pending}] BY <1>2, <1>3
<1>7. LoggedAs(c, status) BY <1>1, <1>4 DEF Observed, LoggedAs
<1> QED BY <1>4, <1>5, <1>6, <1>7

LEMMA Answers ==
  /\ \A s \in {"InvalidArgument", "Unavailable", "Canceled"} : EndsAs(Status(s), s)
  /\ EndsAs(GrpcRankingAnswer("ok"), "OK")
  /\ EndsAs(GrpcRankingAnswer("error"), "Internal")
  /\ EndsAs(GrpcRankingAnswer("unavailable"), "Unavailable")
  /\ EndsAs(Panicked, "Internal")
<1>1. GrpcRankingAnswer("ok") = Status("OK") BY DEF GrpcRankingAnswer
<1>2. GrpcRankingAnswer("error") = Reported(Status("Internal"))
  BY DEF GrpcRankingAnswer, GrpcRankingError
<1>3. GrpcRankingAnswer("unavailable") = RetryLater(Status("Unavailable"))
  BY DEF GrpcRankingAnswer, GrpcRankingError, UnavailableError
<1>4. "Internal" \in Unknown /\ "OK" \notin Unknown /\ "InvalidArgument" \notin Unknown
      /\ "Unavailable" \notin Unknown /\ "Canceled" \notin Unknown
  BY DEF Unknown
<1> QED BY <1>1, <1>2, <1>3, <1>4, HandledEnds, ReportedEnds DEF EndsAs
-----------------------------------------------------------------------------
(* Types.                                                                  *)

\* What Redis answers is a ranking.
LEMMA ReadType ==
  ASSUME TypeOK, NEW n \in 0..MaxRankingLimit PROVE GetUserRankings(n) \in Page
<1>1. Ranking[version] \in Page BY RankingAssumption DEF TypeOK, Version, Page
<1> QED BY <1>1, TruncateType DEF GetUserRankings

LEMMA DeliverType ==
  ASSUME TypeOK, NEW c \in Client, Deliver(c)
  PROVE  /\ ch' \in [Client -> SUBSET Page] /\ \A d \in Client : \A v, w \in ch'[d] : v = w
         /\ delivered' \in [Client -> BOOLEAN] /\ pushed' \in [Client -> BOOLEAN]
<1>1. TruncateResult(fetched, limit[c]) \in Page BY TruncateType DEF TypeOK
<1> QED BY <1>1 DEF TypeOK, Deliver

\* The end of a stream.
LEMMA ReturnType ==
  ASSUME TypeOK, NEW c \in Client, NEW e \in Returned \cup {Panicked}, Return(c, e)
  PROVE  /\ answer' \in [Client -> Answer \cup {Pending}]
         /\ \A d \in Client : stream'[d] = "end" <=> answer'[d] # Pending
         /\ stream' = [stream EXCEPT ![c] = "end"] /\ ctxDone' = [ctxDone EXCEPT ![c] = TRUE]
         /\ ctxDone' \in [Client -> BOOLEAN]
<1>1. PICK status : EndsAs(e, status)
  BY Answers DEF Returned
<1>2. answer'[c] # Pending /\ answer' \in [Client -> Answer \cup {Pending}]
  BY <1>1, Observation DEF TypeOK
<1> QED BY <1>2 DEF TypeOK, Return

LEMMA TypeStep == ASSUME TypeOK, [Next]_vars PROVE TypeOK'
<1> USE DEF TypeOK, redis, hubVars, chan, client, proc
<1>1. CASE Update BY <1>1, RankingAssumption DEF Update, Version
<1>2. CASE NotifyUpdated BY <1>2 DEF NotifyUpdated
<1>3. CASE HubStart BY <1>3 DEF HubStart
<1>4. CASE HubShutdown BY <1>4 DEF HubShutdown
<1>5. CASE HubDone BY <1>5 DEF HubDone
<1>6. CASE HubSnapshot BY <1>6 DEF HubSnapshot
<1>7. CASE HubCommit BY <1>7 DEF HubCommit
<1>8. CASE Signal BY <1>8 DEF Signal
<1>9. CASE BeginShutdown BY <1>9 DEF BeginShutdown
<1>10. CASE ServerDown BY <1>10 DEF ServerDown
<1>11. CASE HubFetch BY <1>11, ReadType DEF HubFetch
<1>12. CASE ShutdownTimeout BY <1>12 DEF ShutdownTimeout
<1>13. ASSUME NEW c \in Client, HubClose(c) PROVE TypeOK' BY <1>13 DEF HubClose, CloseChannel
<1>14. ASSUME NEW c \in Client, HubPush(c) PROVE TypeOK' BY <1>14, DeliverType DEF HubPush
<1>15. ASSUME NEW c \in Client, Refuse(c) PROVE TypeOK' BY <1>15, ReturnType DEF Refuse, Returned
<1>16. ASSUME NEW c \in Client, Register(c) PROVE TypeOK' BY <1>16, LimitType, LimitAssumption DEF Register
<1>17. ASSUME NEW c \in Client, FirstFetch(c) PROVE TypeOK' BY <1>17, ReadType DEF FirstFetch, Detach
<1>18. ASSUME NEW c \in Client, FailFirst(c) PROVE TypeOK' BY <1>18, ReturnType DEF FailFirst, Returned
<1>19. ASSUME NEW c \in Client, PushInitial(c) PROVE TypeOK'
  <2>1. ch' \in [Client -> SUBSET Page] /\ \A d \in Client : \A v, w \in ch'[d] : v = w
    <3>1. {got[c]} \in SUBSET Page OBVIOUS
    <3> QED BY <1>19, <3>1 DEF PushInitial
  <2> QED BY <1>19, <2>1 DEF PushInitial
<1>20. ASSUME NEW c \in Client, Receive(c) PROVE TypeOK' BY <1>20, ReturnType DEF Receive, Returned
<1>21. ASSUME NEW c \in Client, SendFails(c) PROVE TypeOK' BY <1>21, ReturnType DEF SendFails, Returned
<1>22. ASSUME NEW c \in Client, Send(c) PROVE TypeOK' BY <1>22 DEF Send
<1>23. ASSUME NEW c \in Client, Panic(c) PROVE TypeOK' BY <1>23, ReturnType DEF Panic
<1>24. ASSUME NEW c \in Client, Hangup(c) PROVE TypeOK' BY <1>24 DEF Hangup
<1>25. ASSUME NEW c \in Client, AfterFunc(c) PROVE TypeOK' BY <1>25 DEF AfterFunc, Detach
<1>26. ASSUME NEW c \in Client, RemoveClose(c) PROVE TypeOK' BY <1>26 DEF RemoveClose, CloseChannel
<1>27. CASE UNCHANGED vars BY <1>27 DEF vars
<1> QED
  BY <1>1, <1>2, <1>3, <1>4, <1>5, <1>6, <1>7, <1>8, <1>9, <1>10, <1>11, <1>12, <1>13, <1>14,
     <1>15, <1>16, <1>17, <1>18, <1>19, <1>20, <1>21, <1>22, <1>23, <1>24, <1>25, <1>26, <1>27
     DEF Next, HubStep, StreamStep, Cleanup, Shutdown, Terminated

-----------------------------------------------------------------------------
(* The inductive invariant.                                                *)

LEMMA ReturnEnds ==
  ASSUME NEW c, NEW e, Return(c, e)
  PROVE  stream' = [stream EXCEPT ![c] = "end"] /\ ctxDone' = [ctxDone EXCEPT ![c] = TRUE]
BY DEF Return

LEMMA Delivers ==
  ASSUME TypeOK, NEW c \in Client, Deliver(c)
  PROVE  \/ closed[c] /\ ch' = ch /\ delivered' = delivered /\ pushed' = pushed
         \/ /\ ~closed[c] /\ ch' = [ch EXCEPT ![c] = {TruncateResult(fetched, limit[c])}]
            /\ delivered' = [delivered EXCEPT ![c] = TRUE] /\ pushed' = [pushed EXCEPT ![c] = TRUE]
<1>1. CASE closed[c]
  <2>1. delivered' = delivered /\ pushed' = pushed BY <1>1 DEF TypeOK, Deliver
  <2> QED BY <1>1, <2>1 DEF Deliver
<1>2. CASE ~closed[c]
  <2>1. delivered' = [delivered EXCEPT ![c] = TRUE] /\ pushed' = [pushed EXCEPT ![c] = TRUE]
    BY <1>2 DEF TypeOK, Deliver
  <2> QED BY <1>2, <2>1 DEF Deliver
<1> QED BY <1>1, <1>2

LEMMA RegisteredStep ==
  ASSUME TypeOK, TypeOK', Registered, HubInv, [Next]_vars PROVE Registered'
<1> USE DEF TypeOK, Registered, HubInv, redis, hubVars, chan, client, proc
<1>1. CASE Update BY <1>1 DEF Update
<1>2. CASE NotifyUpdated BY <1>2 DEF NotifyUpdated
<1>3. CASE HubStart BY <1>3 DEF HubStart
<1>4. CASE HubShutdown BY <1>4 DEF HubShutdown
<1>5. CASE HubDone BY <1>5 DEF HubDone
<1>6. CASE HubSnapshot BY <1>6 DEF HubSnapshot
<1>7. CASE HubCommit BY <1>7 DEF HubCommit
<1>8. CASE Signal BY <1>8 DEF Signal
<1>9. CASE BeginShutdown BY <1>9 DEF BeginShutdown
<1>10. CASE ServerDown BY <1>10 DEF ServerDown
<1>11. CASE HubFetch BY <1>11 DEF HubFetch
<1>12. CASE ShutdownTimeout BY <1>12 DEF ShutdownTimeout
<1>13. ASSUME NEW c \in Client, HubClose(c) PROVE Registered' BY <1>13 DEF HubClose, CloseChannel
<1>14. ASSUME NEW c \in Client, HubPush(c) PROVE Registered' BY <1>14, Delivers DEF HubPush
<1>15. ASSUME NEW c \in Client, Refuse(c) PROVE Registered' BY <1>15, ReturnEnds DEF Refuse
<1>16. ASSUME NEW c \in Client, Register(c) PROVE Registered' BY <1>16 DEF Register
<1>17. ASSUME NEW c \in Client, FirstFetch(c) PROVE Registered' BY <1>17 DEF FirstFetch, Detach
<1>18. ASSUME NEW c \in Client, FailFirst(c) PROVE Registered' BY <1>18, ReturnEnds DEF FailFirst
<1>19. ASSUME NEW c \in Client, PushInitial(c) PROVE Registered' BY <1>19 DEF PushInitial
<1>20. ASSUME NEW c \in Client, Receive(c) PROVE Registered' BY <1>20, ReturnEnds DEF Receive
<1>21. ASSUME NEW c \in Client, SendFails(c) PROVE Registered' BY <1>21, ReturnEnds DEF SendFails
<1>22. ASSUME NEW c \in Client, Send(c) PROVE Registered' BY <1>22 DEF Send
<1>23. ASSUME NEW c \in Client, Panic(c) PROVE Registered' BY <1>23, ReturnEnds DEF Panic
<1>24. ASSUME NEW c \in Client, Hangup(c) PROVE Registered' BY <1>24 DEF Hangup
<1>25. ASSUME NEW c \in Client, AfterFunc(c) PROVE Registered' BY <1>25 DEF AfterFunc, Detach
<1>26. ASSUME NEW c \in Client, RemoveClose(c) PROVE Registered' BY <1>26 DEF RemoveClose, CloseChannel
<1>27. CASE UNCHANGED vars BY <1>27 DEF vars
<1> QED
  BY <1>1, <1>2, <1>3, <1>4, <1>5, <1>6, <1>7, <1>8, <1>9, <1>10, <1>11, <1>12, <1>13, <1>14,
     <1>15, <1>16, <1>17, <1>18, <1>19, <1>20, <1>21, <1>22, <1>23, <1>24, <1>25, <1>26, <1>27
     DEF Next, HubStep, StreamStep, Cleanup, Shutdown, Terminated

LEMMA HubInvStep ==
  ASSUME TypeOK, TypeOK', Registered, HubInv, [Next]_vars PROVE HubInv'
<1> USE DEF TypeOK, Registered, HubInv, redis, hubVars, chan, client, proc
<1>1. CASE Update BY <1>1 DEF Update
<1>2. CASE NotifyUpdated BY <1>2 DEF NotifyUpdated
<1>3. CASE HubStart BY <1>3 DEF HubStart
<1>4. CASE HubShutdown BY <1>4 DEF HubShutdown
<1>5. CASE HubDone BY <1>5 DEF HubDone
<1>6. CASE HubSnapshot BY <1>6 DEF HubSnapshot
<1>7. CASE HubCommit BY <1>7 DEF HubCommit
<1>8. CASE Signal BY <1>8 DEF Signal
<1>9. CASE BeginShutdown BY <1>9 DEF BeginShutdown
<1>10. CASE ServerDown BY <1>10 DEF ServerDown
<1>11. CASE HubFetch BY <1>11 DEF HubFetch
<1>12. CASE ShutdownTimeout BY <1>12 DEF ShutdownTimeout
<1>13. ASSUME NEW c \in Client, HubClose(c) PROVE HubInv' BY <1>13 DEF HubClose, CloseChannel
<1>14. ASSUME NEW c \in Client, HubPush(c) PROVE HubInv' BY <1>14, Delivers DEF HubPush
<1>15. ASSUME NEW c \in Client, Refuse(c) PROVE HubInv' BY <1>15, ReturnEnds DEF Refuse
<1>16. ASSUME NEW c \in Client, Register(c) PROVE HubInv' BY <1>16 DEF Register
<1>17. ASSUME NEW c \in Client, FirstFetch(c) PROVE HubInv' BY <1>17 DEF FirstFetch, Detach
<1>18. ASSUME NEW c \in Client, FailFirst(c) PROVE HubInv' BY <1>18, ReturnEnds DEF FailFirst
<1>19. ASSUME NEW c \in Client, PushInitial(c) PROVE HubInv' BY <1>19 DEF PushInitial
<1>20. ASSUME NEW c \in Client, Receive(c) PROVE HubInv' BY <1>20, ReturnEnds DEF Receive
<1>21. ASSUME NEW c \in Client, SendFails(c) PROVE HubInv' BY <1>21, ReturnEnds DEF SendFails
<1>22. ASSUME NEW c \in Client, Send(c) PROVE HubInv' BY <1>22 DEF Send
<1>23. ASSUME NEW c \in Client, Panic(c) PROVE HubInv' BY <1>23, ReturnEnds DEF Panic
<1>24. ASSUME NEW c \in Client, Hangup(c) PROVE HubInv' BY <1>24 DEF Hangup
<1>25. ASSUME NEW c \in Client, AfterFunc(c) PROVE HubInv' BY <1>25 DEF AfterFunc, Detach
<1>26. ASSUME NEW c \in Client, RemoveClose(c) PROVE HubInv' BY <1>26 DEF RemoveClose, CloseChannel
<1>27. CASE UNCHANGED vars BY <1>27 DEF vars
<1> QED
  BY <1>1, <1>2, <1>3, <1>4, <1>5, <1>6, <1>7, <1>8, <1>9, <1>10, <1>11, <1>12, <1>13, <1>14,
     <1>15, <1>16, <1>17, <1>18, <1>19, <1>20, <1>21, <1>22, <1>23, <1>24, <1>25, <1>26, <1>27
     DEF Next, HubStep, StreamStep, Cleanup, Shutdown, Terminated

LEMMA OnItsWayStep ==
  ASSUME TypeOK, TypeOK', Registered, HubInv, OnItsWay, [Next]_vars PROVE OnItsWay'
<1> USE DEF TypeOK, Registered, HubInv, OnItsWay, OnWay, Latest, redis, hubVars, chan, client, proc
<1>1. CASE Update BY <1>1 DEF Update
<1>2. CASE NotifyUpdated BY <1>2 DEF NotifyUpdated
<1>3. CASE HubStart BY <1>3 DEF HubStart
<1>4. CASE HubShutdown BY <1>4 DEF HubShutdown
<1>5. CASE HubDone BY <1>5 DEF HubDone
<1>6. CASE HubSnapshot BY <1>6 DEF HubSnapshot
<1>7. CASE HubCommit BY <1>7 DEF HubCommit
<1>8. CASE Signal BY <1>8 DEF Signal
<1>9. CASE BeginShutdown BY <1>9 DEF BeginShutdown
<1>10. CASE ServerDown BY <1>10 DEF ServerDown
<1>11. CASE HubFetch BY <1>11 DEF HubFetch
<1>12. CASE ShutdownTimeout BY <1>12 DEF ShutdownTimeout
<1>13. ASSUME NEW c \in Client, HubClose(c) PROVE OnItsWay' BY <1>13 DEF HubClose, CloseChannel
<1>14. ASSUME NEW c \in Client, HubPush(c) PROVE OnItsWay'
  <2> SUFFICES ASSUME NEW d \in subs', pushed'[d] PROVE OnWay(d)'
    BY DEF OnWay
  <2>1. hub = "push" /\ batch' = batch \ {c} /\ Deliver(c) /\ d \in subs
        /\ hub' = (IF batch' = {} THEN "select" ELSE "push")
        /\ UNCHANGED <<fetched, last, limit, stream, got, seen>>
    BY <1>14 DEF HubPush
  <2>2. CASE d = c
    <3>1. ch'[c] = {TruncateResult(last, limit[c])} BY <2>1, <2>2, Delivers
    <3> QED BY <2>1, <2>2, <3>1 DEF OnWay
  <2>3. CASE d # c
    <3>1. ch'[d] = ch[d] /\ pushed[d] BY <2>1, <2>3, Delivers
    <3>2. OnWay(d) /\ Latest(d)' = Latest(d) BY <2>1, <3>1 DEF OnWay
    <3> QED BY <2>1, <2>3, <3>1, <3>2 DEF OnWay
  <2> QED BY <2>2, <2>3
<1>15. ASSUME NEW c \in Client, Refuse(c) PROVE OnItsWay' BY <1>15, ReturnEnds DEF Refuse
<1>16. ASSUME NEW c \in Client, Register(c) PROVE OnItsWay'
  <2> SUFFICES ASSUME NEW d \in subs', pushed'[d] PROVE OnWay(d)'
    BY DEF OnWay
  <2>1. UNCHANGED <<ch, pushed, got, seen, hub, batch, last>> /\ subs' = subs \cup {c}
    BY <1>16 DEF Register
  <2>2. d # c BY <1>16, <2>1 DEF Register
  <2>3. limit'[d] = limit[d] /\ stream'[d] = stream[d] BY <1>16, <2>2 DEF Register
  <2>4. d \in subs /\ pushed[d] /\ OnWay(d) BY <2>1, <2>2 DEF OnWay
  <2> QED BY <2>1, <2>3, <2>4 DEF OnWay
<1>17. ASSUME NEW c \in Client, FirstFetch(c) PROVE OnItsWay' BY <1>17 DEF FirstFetch, Detach
<1>18. ASSUME NEW c \in Client, FailFirst(c) PROVE OnItsWay' BY <1>18, ReturnEnds DEF FailFirst
<1>19. ASSUME NEW c \in Client, PushInitial(c) PROVE OnItsWay' BY <1>19 DEF PushInitial
<1>20. ASSUME NEW c \in Client, Receive(c) PROVE OnItsWay' BY <1>20, ReturnEnds DEF Receive
<1>21. ASSUME NEW c \in Client, SendFails(c) PROVE OnItsWay' BY <1>21, ReturnEnds DEF SendFails
<1>22. ASSUME NEW c \in Client, Send(c) PROVE OnItsWay' BY <1>22 DEF Send
<1>23. ASSUME NEW c \in Client, Panic(c) PROVE OnItsWay' BY <1>23, ReturnEnds DEF Panic
<1>24. ASSUME NEW c \in Client, Hangup(c) PROVE OnItsWay' BY <1>24 DEF Hangup
<1>25. ASSUME NEW c \in Client, AfterFunc(c) PROVE OnItsWay' BY <1>25 DEF AfterFunc, Detach
<1>26. ASSUME NEW c \in Client, RemoveClose(c) PROVE OnItsWay' BY <1>26 DEF RemoveClose, CloseChannel
<1>27. CASE UNCHANGED vars BY <1>27 DEF vars
<1> QED
  BY <1>1, <1>2, <1>3, <1>4, <1>5, <1>6, <1>7, <1>8, <1>9, <1>10, <1>11, <1>12, <1>13, <1>14,
     <1>15, <1>16, <1>17, <1>18, <1>19, <1>20, <1>21, <1>22, <1>23, <1>24, <1>25, <1>26, <1>27
     DEF Next, HubStep, StreamStep, Cleanup, Shutdown, Terminated

THEOREM Inductive == Spec => []IndInv
<1>1. Init => IndInv
  <2> SUFFICES ASSUME Init PROVE IndInv OBVIOUS
  <2>1. Registered /\ HubInv /\ OnItsWay BY DEF Init, Registered, HubInv, OnItsWay
  <2>2. <<>> \in Page BY DEF Page
  <2>3. 0 \in Version /\ 0 \in 0..MaxRankingLimit /\ {} \in SUBSET Page
    BY RankingAssumption DEF Version, MaxRankingLimit
  <2>4. limit \in [Client -> 0..MaxRankingLimit] /\ ch \in [Client -> SUBSET Page]
    BY <2>3 DEF Init
  <2>5. answer \in [Client -> Answer \cup {Pending}]
        /\ \A c \in Client : stream[c] = "end" <=> answer[c] # Pending
    BY DEF Init
  <2>6. TypeOK BY <2>2, <2>3, <2>4, <2>5 DEF Init, TypeOK
  <2> QED BY <2>1, <2>6 DEF IndInv
<1>2. IndInv /\ [Next]_vars => IndInv'
  BY TypeStep, RegisteredStep, HubInvStep, OnItsWayStep DEF IndInv
<1> QED BY <1>1, <1>2, PTL DEF Spec

\* Every variable has its type: in particular, a subscriber's channel holds one value at most
\* whatever broadcasts, first snapshots and receives interleave (push, pushInitial).
THEOREM TypeCorrect == Spec => []TypeOK
<1>1. IndInv => TypeOK BY DEF IndInv
<1> QED BY <1>1, Inductive, PTL

\* For any clients, limits, rankings and faults, the difference check never hides a change
\* from a subscriber that a broadcast has reached (commitIfChanged, push, pushInitial).
THEOREM PushedSeesLastHolds == Spec => []PushedSeesLast
<1>1. IndInv => PushedSeesLast BY DEF IndInv, OnItsWay, OnWay, PushedSeesLast, Open
<1> QED BY <1>1, Inductive, PTL

\* No send to a closed channel, and none that would block under a subscriber's mutex.
THEOREM ChannelDisciplineHolds == Spec => ChannelDiscipline
<1>1. IndInv /\ [Next]_vars =>
        [\A c \in Client :
           /\ closed[c] => ch'[c] \subseteq ch[c]
           /\ stream[c] = "initial" /\ ~closed[c] /\ ~delivered[c] => ch[c] = {}]_vars
  <2> SUFFICES ASSUME IndInv, [Next]_vars, NEW d \in Client
               PROVE  /\ closed[d] => ch'[d] \subseteq ch[d]
                      /\ stream[d] = "initial" /\ ~closed[d] /\ ~delivered[d] => ch[d] = {}
    OBVIOUS
  <2> USE DEF IndInv, TypeOK, redis, hubVars, chan, client, proc
  <2>1. stream[d] = "initial" /\ ~closed[d] /\ ~delivered[d] => ch[d] = {} BY DEF Registered
  <2>2. ASSUME NEW c \in Client, HubPush(c) PROVE closed[d] => ch'[d] \subseteq ch[d]
    BY <2>2, Delivers DEF HubPush
  <2>3. ASSUME NEW c \in Client, PushInitial(c) PROVE closed[d] => ch'[d] \subseteq ch[d]
    BY <2>3 DEF PushInitial
  <2>4. ASSUME NEW c \in Client, Receive(c) PROVE closed[d] => ch'[d] \subseteq ch[d]
    BY <2>4 DEF Receive
  <2>5. ASSUME UNCHANGED ch PROVE closed[d] => ch'[d] \subseteq ch[d] BY <2>5
  <2> QED
    BY <2>1, <2>2, <2>3, <2>4, <2>5
       DEF Next, HubStep, StreamStep, Cleanup, Shutdown, Terminated, vars, Update, NotifyUpdated,
       HubStart, HubShutdown, HubDone, HubSnapshot, HubFetch, HubCommit, HubClose, Refuse,
       Register, FirstFetch, FailFirst, SendFails, Send, Panic, Hangup, AfterFunc, RemoveClose,
       Signal, BeginShutdown, ShutdownTimeout, ServerDown
<1> QED BY <1>1, Inductive, PTL DEF Spec, ChannelDiscipline

\* What a stream can end with.
LEMMA Endings ==
  ASSUME TypeOK, [Next]_vars, NEW c \in Client, stream[c] # "end", stream'[c] = "end"
  PROVE  \E e \in Returned \cup {Panicked} : \E status :
           /\ EndsAs(e, status)
           /\ Return(c, e)
           /\ status = "OK" => closed[c] /\ stream[c] = "recv"
<1> DEFINE Goal == \E e \in Returned \cup {Panicked} : \E status :
                     /\ EndsAs(e, status)
                     /\ Return(c, e)
                     /\ status = "OK" => closed[c] /\ stream[c] = "recv"
<1>1. ASSUME NEW d \in Client, NEW e \in Returned \cup {Panicked}, Return(d, e),
             NEW status, EndsAs(e, status),
             status = "OK" => closed[d] /\ stream[d] = "recv"
      PROVE  Goal
  <2>1. c = d BY <1>1, ReturnEnds DEF TypeOK
  <2> QED BY <1>1, <2>1
<1> HIDE DEF Goal
<1>2. ASSUME NEW d \in Client, Refuse(d) PROVE Goal
  <2>1. PICK s \in {"InvalidArgument", "Unavailable"} : Return(d, Status(s)) BY <1>2 DEF Refuse
  <2>2. EndsAs(Status(s), s) /\ Status(s) \in Returned BY Answers DEF Returned
  <2> QED BY <1>1, <2>1, <2>2
<1>3. ASSUME NEW d \in Client, FailFirst(d) PROVE Goal
  <2>1. CASE Return(d, GrpcRankingAnswer("error"))
    <3>1. GrpcRankingAnswer("error") \in Returned BY DEF Returned
    <3> QED BY <1>1, <2>1, <3>1, Answers
  <2>2. CASE Return(d, GrpcRankingAnswer("unavailable"))
    <3>1. GrpcRankingAnswer("unavailable") \in Returned BY DEF Returned
    <3> QED BY <1>1, <2>2, <3>1, Answers
  <2> QED BY <1>3, <2>1, <2>2 DEF FailFirst
<1>4. ASSUME NEW d \in Client, Receive(d) PROVE Goal
  <2>1. CASE closed[d] /\ stream[d] = "recv" /\ Return(d, GrpcRankingAnswer("ok"))
    <3>1. GrpcRankingAnswer("ok") \in Returned BY DEF Returned
    <3> QED BY <1>1, <2>1, <3>1, Answers
  <2>2. CASE stream' = [stream EXCEPT ![d] = "send"] BY <2>2 DEF TypeOK
  <2> QED BY <1>4, <2>1, <2>2 DEF Receive
<1>5. ASSUME NEW d \in Client, SendFails(d) PROVE Goal
  <2>1. Return(d, Status("Canceled")) BY <1>5 DEF SendFails
  <2>2. EndsAs(Status("Canceled"), "Canceled") /\ Status("Canceled") \in Returned
    BY Answers DEF Returned
  <2> QED BY <1>1, <2>1, <2>2
<1>6. ASSUME NEW d \in Client, Panic(d) PROVE Goal
  <2>1. Return(d, Panicked) BY <1>6 DEF Panic
  <2>2. EndsAs(Panicked, "Internal") BY Answers
  <2>3. "Internal" # "OK" OBVIOUS
  <2>4. Panicked \in Returned \cup {Panicked} OBVIOUS
  <2> QED BY <1>1, <2>1, <2>2, <2>3, <2>4
<1>7. ASSUME NEW d \in Client, Register(d) \/ FirstFetch(d) \/ PushInitial(d) \/ Send(d) PROVE FALSE
  BY <1>7 DEF Register, FirstFetch, PushInitial, Send, TypeOK
<1>8. CASE UNCHANGED stream BY <1>8
<1>9. Goal
  BY <1>2, <1>3, <1>4, <1>5, <1>6, <1>7, <1>8
     DEF Next, HubStep, StreamStep, Cleanup, Shutdown, Terminated, vars, client, Update,
     NotifyUpdated, HubStart, HubShutdown, HubDone, HubSnapshot, HubFetch, HubCommit, HubClose,
     HubPush, Hangup, AfterFunc, RemoveClose, Signal, BeginShutdown, ShutdownTimeout, ServerDown
<1> QED BY <1>9 DEF Goal

\* A stream never ends with success because a read failed or its handler panicked, and every
\* end of a stream is in the access log once, as the client saw it.
THEOREM EndsWithReasonHolds == Spec => EndsWithReason
<1>1. IndInv /\ [Next]_vars =>
        [\A c \in Client : stream[c] # "end" /\ stream'[c] = "end" =>
           /\ answer'[c].status = "OK" => stopped \/ ctxDone[c]
           /\ Len(answer'[c].lines) = 1
           /\ answer'[c].lines[1].status = answer'[c].status]_vars
  <2> SUFFICES ASSUME IndInv, [Next]_vars, NEW c \in Client, stream[c] # "end", stream'[c] = "end"
               PROVE  /\ answer'[c].status = "OK" => stopped \/ ctxDone[c]
                      /\ Len(answer'[c].lines) = 1
                      /\ answer'[c].lines[1].status = answer'[c].status
    OBVIOUS
  <2>1. TypeOK BY DEF IndInv
  <2>2. PICK e \in Returned \cup {Panicked} : \E status :
          /\ EndsAs(e, status)
          /\ Return(c, e)
          /\ status = "OK" => closed[c] /\ stream[c] = "recv"
    BY <2>1, Endings
  <2>3. PICK status : EndsAs(e, status) /\ (status = "OK" => closed[c] /\ stream[c] = "recv")
    BY <2>2
  <2>4. LoggedAs(c, status) BY <2>1, <2>2, <2>3, Observation DEF TypeOK
  <2>5. closed[c] => stopped \/ ctxDone[c] \/ stream[c] = "failed" BY DEF IndInv, Registered
  <2> QED BY <2>3, <2>4, <2>5 DEF LoggedAs
<1> QED BY <1>1, Inductive, PTL DEF Spec, EndsWithReason
=============================================================================

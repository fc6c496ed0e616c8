-------------------------- MODULE RankingApiProofs --------------------------
(***************************************************************************)
(* Proofs about the reads at both servers, for any number of events,       *)
(* members, readers, queries, rebuilds and losses of Redis.                *)
(***************************************************************************)
EXTENDS RankingApi, RankingCacheProofs, DeliveryProofs, FiniteSetTheorems

-----------------------------------------------------------------------------
(* Refused queries, and those for nobody, touch no score.                  *)

LEMMA RefusalHeals ==
  ASSUME HealInv, NEW r \in Reader, RefuseQuery(r) \/ FindNobody(r) PROVE HealInv'
<1> USE DEF RefuseQuery, FindNobody, Reading, mysql, sync
<1>1. TypeOK' BY DEF HealInv, TypeOK
<1>2. Rows' BY DEF HealInv, Rows
<1>3. AtRest \subseteq AtRest' BY DEF AtRest
<1> QED BY <1>1, <1>2, <1>3, QuietStep

\* A successful rebuild heals beside the requests of both servers, refused ones included.
THEOREM HealInductiveBesideReads == ApiSpec => []HealInv
<1>1. Init => HealInv BY HealInvInit
<1>2. HealInv /\ [ApiNext]_vars => HealInv' BY HealInvNext, RefusalHeals DEF ApiNext
<1> QED BY <1>1, <1>2, PTL DEF ApiSpec

THEOREM RebuildHealsBesideReads == ApiSpec => []RebuildHeals
BY HealInductiveBesideReads, PTL DEF HealInv

-----------------------------------------------------------------------------
(* Where a reader is and what it has been told.                            *)

Codes == {"200", "400", "404", "500", "503"}

ReaderOK(r) ==
  /\ req[r].at = "idle" \/ answer[r] = None
  /\ req[r].at = "score" => req[r].b \in Board
  /\ answer[r] = None \/ answer[r].code \in Codes

ReadInv == DOMAIN req = Reader /\ DOMAIN answer = Reader /\ \A r \in Reader : ReaderOK(r)

LEMMA ToOK ==
  ASSUME ReadInv, NEW r \in Reader, NEW state, To(r, state), state.at = "score" => state.b \in Board
  PROVE  ReadInv'
BY DEF ReadInv, ReaderOK, To

LEMMA RespondOK ==
  ASSUME ReadInv, NEW r \in Reader, NEW response, Respond(r, response), response.code \in Codes
  PROVE  ReadInv'
BY DEF ReadInv, ReaderOK, Respond, Idle

LEMMA CheckSentinelOK ==
  ASSUME ReadInv, NEW r \in Reader, NEW b, NEW then, CheckSentinel(r, b, then),
         then.at = "score" => then.b \in Board
  PROVE  ReadInv'
<1>1. CASE To(r, then) BY <1>1, ToOK
<1>2. CASE Respond(r, [code |-> "503"]) BY <1>2, RespondOK DEF Codes
<1> QED BY <1>1, <1>2 DEF CheckSentinel

LEMMA ReadOK ==
  ASSUME ReadInv, NEW r \in Reader, Read(r) PROVE ReadInv'
<1>1. ASSUME NEW b \in Board, NEW m \in Member(b),
             CheckSentinel(r, b, [at |-> "score", b |-> b, m |-> m])
      PROVE  ReadInv'
  BY <1>1, CheckSentinelOK
<1>2. ASSUME NEW b \in Board, NEW p \in Page,
             CheckSentinel(r, b, [at |-> "page", b |-> b, page |-> p])
      PROVE  ReadInv'
  BY <1>2, CheckSentinelOK
<1>3. CASE ReadScore(r)
  <2>1. CASE Respond(r, [code |-> "404"]) BY <2>1, RespondOK DEF Codes
  <2>2. CASE To(r, [req[r] EXCEPT !.at = "rank"])
    <3>1. [req[r] EXCEPT !.at = "rank"].at # "score" BY <1>3 DEF ReadScore
    <3> QED BY <2>2, <3>1, ToOK
  <2> QED BY <1>3, <2>1, <2>2 DEF ReadScore
<1>4. CASE ReadRank(r)
  <2>1. PICK k : To(r, [at |-> "count", b |-> req[r].b, low |-> 1, rank |-> k])
    BY <1>4 DEF ReadRank
  <2> QED BY <2>1, ToOK
<1>5. CASE ReadPage(r) BY <1>5, ToOK DEF ReadPage
<1>6. CASE ReadCount(r)
  <2>1. PICK total : Respond(r, [code |-> "200", low |-> req[r].low, rank |-> req[r].rank,
                                 total |-> total])
    BY <1>6 DEF ReadCount
  <2> QED BY <2>1, RespondOK DEF Codes
<1>7. CASE ReadError(r) BY <1>7, RespondOK DEF ReadError, Codes
<1> QED BY <1>1, <1>2, <1>3, <1>4, <1>5, <1>6, <1>7 DEF Read

LEMMA OthersReadNothing ==
  ASSUME ApiNext PROVE UNCHANGED readers \/ \E r \in Reader : Read(r) \/ RefuseQuery(r) \/ FindNobody(r)
BY DEF ApiNext, Next, AddUserPoints, Settle, PipelineLost, ZIncrBy, Flush, Snapshot,
       MarkInitialized, AbortSync, EndSync, SetScore

LEMMA ReadInvHolds == ApiSpec => []ReadInv
<1>1. Init => ReadInv BY DEF Init, ReadInv, ReaderOK, Idle
<1>2. ReadInv /\ [ApiNext]_vars => ReadInv'
  <2> SUFFICES ASSUME ReadInv, [ApiNext]_vars PROVE ReadInv' OBVIOUS
  <2>1. ASSUME NEW r \in Reader, RefuseQuery(r) \/ FindNobody(r) PROVE ReadInv'
    BY <2>1, RespondOK DEF RefuseQuery, FindNobody, Codes
  <2>2. CASE UNCHANGED vars \/ UNCHANGED readers
    BY <2>2 DEF vars, readers, ReadInv, ReaderOK
  <2> QED BY <2>1, <2>2, ReadOK, OthersReadNothing
<1> QED BY <1>1, <1>2, PTL DEF ApiSpec

-----------------------------------------------------------------------------
(* Both servers say the same.                                              *)

\* One answer, as both servers send it.
LEMMA FrontsServeAlike ==
  ASSUME NEW h, NEW g, NEW hs, NEW gs, NEW retry,
         Ended(h, hs, retry), Ended(g, gs, retry), <<hs, gs>> \in SameStatus,
         hs \in Unknown <=> gs \in Unknown
  PROVE  /\ Alike(HttpServe("", FALSE, h), GrpcServe("", FALSE, g))
         /\ HttpServe("", FALSE, h).status = hs
<1> DEFINE H == HttpServe("", FALSE, h)
           G == GrpcServe("", FALSE, g)
<1>1. H = Serve("http", "", FALSE, h) /\ G = Serve("grpc", "", FALSE, g) BY DEF Serve
<1>2. Observed(H, hs, retry) /\ Observed(G, gs, retry) BY <1>1, Delivered
<1>3. H.id = G.id BY <1>1, IdKept
<1> HIDE DEF H, G
<1>4. Alike(H, G) /\ H.status = hs BY <1>2, <1>3 DEF Alike, Observed
<1> QED BY <1>4 DEF H, G

LEMMA EveryAnswerAlike ==
  ASSUME NEW response, response.code \in Codes
  PROVE  LET h == HttpServe("", FALSE, HttpRankingAnswer(Outcome(response)))
             g == GrpcServe("", FALSE, GrpcRankingAnswer(Outcome(response)))
         IN Alike(h, g) /\ h.status = response.code
<1> DEFINE code == response.code
<1>1. CASE code = "200"
  <2>1. /\ HttpRankingAnswer(Outcome(response)) = Json("200")
        /\ GrpcRankingAnswer(Outcome(response)) = Status("OK")
    BY <1>1 DEF Outcome, HttpRankingAnswer, GrpcRankingAnswer
  <2>2. /\ "200" \notin Unknown /\ "OK" \notin Unknown /\ <<"200", "OK">> \in SameStatus
    BY DEF Unknown, SameStatus
  <2>3. Ended(Json("200"), "200", FALSE) /\ Ended(Status("OK"), "OK", FALSE)
    BY <2>2, HandledEnds
  <2> QED BY <1>1, <2>1, <2>2, <2>3, FrontsServeAlike
<1>2. CASE code = "400"
  <2>1. /\ HttpRankingAnswer(Outcome(response)) = Json("400")
        /\ GrpcRankingAnswer(Outcome(response)) = Status("InvalidArgument")
    BY <1>2 DEF Outcome, HttpRankingAnswer, GrpcRankingAnswer, HttpRankingError, GrpcRankingError
  <2>2. /\ "400" \notin Unknown /\ "InvalidArgument" \notin Unknown
        /\ <<"400", "InvalidArgument">> \in SameStatus
    BY DEF Unknown, SameStatus
  <2>3. Ended(Json("400"), "400", FALSE) /\ Ended(Status("InvalidArgument"), "InvalidArgument", FALSE)
    BY <2>2, HandledEnds
  <2> QED BY <1>2, <2>1, <2>2, <2>3, FrontsServeAlike
<1>3. CASE code = "404"
  <2>1. /\ HttpRankingAnswer(Outcome(response)) = Json("404")
        /\ GrpcRankingAnswer(Outcome(response)) = Status("NotFound")
    BY <1>3 DEF Outcome, HttpRankingAnswer, GrpcRankingAnswer, HttpRankingError, GrpcRankingError
  <2>2. /\ "404" \notin Unknown /\ "NotFound" \notin Unknown
        /\ <<"404", "NotFound">> \in SameStatus
    BY DEF Unknown, SameStatus
  <2>3. Ended(Json("404"), "404", FALSE) /\ Ended(Status("NotFound"), "NotFound", FALSE)
    BY <2>2, HandledEnds
  <2> QED BY <1>3, <2>1, <2>2, <2>3, FrontsServeAlike
<1>4. CASE code = "500"
  <2>1. /\ HttpRankingAnswer(Outcome(response)) = Reported(Json("500"))
        /\ GrpcRankingAnswer(Outcome(response)) = Reported(Status("Internal"))
    BY <1>4 DEF Outcome, HttpRankingAnswer, GrpcRankingAnswer, HttpRankingError, GrpcRankingError
  <2>2. /\ "500" \in Unknown /\ "Internal" \in Unknown
        /\ <<"500", "Internal">> \in SameStatus
    BY DEF Unknown, SameStatus
  <2>3. /\ Ended(Reported(Json("500")), "500", FALSE)
        /\ Ended(Reported(Status("Internal")), "Internal", FALSE)
    BY <2>2, ReportedEnds
  <2> QED BY <1>4, <2>1, <2>2, <2>3, FrontsServeAlike
<1>5. CASE code = "503"
  <2>1. /\ HttpRankingAnswer(Outcome(response)) = RetryLater(Json("503"))
        /\ GrpcRankingAnswer(Outcome(response)) = RetryLater(Status("Unavailable"))
    BY <1>5 DEF Outcome, HttpRankingAnswer, GrpcRankingAnswer, HttpRankingError,
                GrpcRankingError, UnavailableError
  <2>2. /\ "503" \notin Unknown /\ "Unavailable" \notin Unknown
        /\ <<"503", "Unavailable">> \in SameStatus
    BY DEF Unknown, SameStatus
  <2>3. /\ Ended(RetryLater(Json("503")), "503", TRUE)
        /\ Ended(RetryLater(Status("Unavailable")), "Unavailable", TRUE)
    BY <2>2, HandledEnds
  <2> QED BY <1>5, <2>1, <2>2, <2>3, FrontsServeAlike
<1> QED BY <1>1, <1>2, <1>3, <1>4, <1>5 DEF Codes

\* Clients of both servers are told the same about every read, and both logs show it.
THEOREM FrontsAgreeHolds == ApiSpec => []FrontsAgree
<1>1. ReadInv => FrontsAgree
  <2> SUFFICES ASSUME ReadInv, NEW r \in Reader, answer[r] # None
               PROVE  Alike(HttpResponse(r), GrpcResponse(r)) /\ HttpResponse(r).status = answer[r].code
    BY DEF FrontsAgree
  <2>1. answer[r].code \in Codes BY DEF ReadInv, ReaderOK
  <2> QED BY <2>1, EveryAnswerAlike DEF HttpResponse, GrpcResponse
<1> QED BY <1>1, ReadInvHolds, PTL

-----------------------------------------------------------------------------
(* Nobody who is in the ranking is told that they are not.                 *)

LEMMA HealedIsPresent ==
  ASSUME HealInv, NEW b \in Board, NEW e \in healed PROVE MemberOf(b, e) \in Present(b)
<1>1. e \in Event BY DEF HealInv, TypeOK
<1>2. z[b][e] = 1 BY DEF HealInv, RebuildHeals, Board
<1> QED BY <1>1, <1>2 DEF Present

\* A step that tells r 404 is its ZSCORE, and the member is not in the sorted set.
LEMMA MissingIsAbsent ==
  ASSUME ReadInv, ApiNext, NEW r \in Reader,
         req[r].at = "score", answer'[r] # None, answer'[r].code = "404"
  PROVE  req[r].b \in Board /\ req[r].m \notin Present(req[r].b)
<1>1. req[r].b \in Board /\ answer[r] = None BY DEF ReadInv, ReaderOK
<1>2. ASSUME NEW q \in Reader, Read(q) \/ RefuseQuery(q) \/ FindNobody(q), q # r
      PROVE  answer'[r] = answer[r]
  BY <1>2 DEF ReadInv, Read, RefuseQuery, FindNobody, CheckSentinel, ReadScore, ReadRank, ReadPage,
              ReadCount, ReadError, To, Respond
<1>3. ~RefuseQuery(r) /\ ~FindNobody(r) BY DEF RefuseQuery, FindNobody
<1>4. Read(r) BY <1>1, <1>2, <1>3, OthersReadNothing DEF readers
<1>5. ReadScore(r) \/ ReadError(r)
  BY <1>4 DEF Read, CheckSentinel, ReadRank, ReadPage, ReadCount
<1>6. ~ReadError(r)
  <2>1. answer'[r] = [code |-> "500"] => answer'[r].code # "404" OBVIOUS
  <2> QED BY <2>1 DEF ReadError, Respond, ReadInv
<1>7. req[r].m \notin Present(req[r].b)
  BY <1>5, <1>6 DEF ReadScore, To, ReadInv
<1> QED BY <1>1, <1>7

\* Once a rebuild answers for an event, nobody it names is told that they have no points,
\* not even with a score of zero, until Redis is flushed.
THEOREM HealedIsFoundHolds == ApiSpec => HealedIsFound
<1> DEFINE Found ==
      \A r \in Reader :
        req[r].at = "score" /\ answer'[r] # None /\ answer'[r].code = "404" =>
          \A e \in healed : MemberOf(req[r].b, e) # req[r].m
<1>1. HealInv /\ ReadInv /\ ApiNext => Found
  <2> SUFFICES ASSUME HealInv, ReadInv, ApiNext, NEW r \in Reader, NEW e \in healed,
                      req[r].at = "score", answer'[r] # None, answer'[r].code = "404"
               PROVE  MemberOf(req[r].b, e) # req[r].m
    OBVIOUS
  <2>1. req[r].b \in Board /\ req[r].m \notin Present(req[r].b) BY MissingIsAbsent
  <2> QED BY <2>1, HealedIsPresent
<1>2. HealInv /\ ReadInv /\ [ApiNext]_vars => [Found]_vars BY <1>1
<1> QED BY <1>2, HealInductiveBesideReads, ReadInvHolds, PTL DEF ApiSpec, HealedIsFound

-----------------------------------------------------------------------------
(* Ranks and totals.                                                       *)

\* The rebuild overwrites members its snapshot has an event of.
TodoKnown == \A b \in Board : todo[b] \subseteq {MemberOf(b, e) : e \in snap[b]}

LEMMA TodoKnownNext == TodoKnown /\ [ApiNext]_vars => TodoKnown'
<1> SUFFICES ASSUME TodoKnown, [ApiNext]_vars PROVE TodoKnown' OBVIOUS
<1>1. CASE Snapshot BY <1>1 DEF Snapshot, TodoKnown, MemberOf
<1>2. CASE MarkInitialized \/ AbortSync
  <2>1. todo' = NoRows BY <1>2 DEF MarkInitialized, AbortSync, EndSync
  <2> QED BY <2>1 DEF TodoKnown, NoRows
<1>3. ASSUME NEW b \in Board, NEW m \in Member(b), SetScore(b, m) PROVE TodoKnown'
  <2>1. snap' = snap /\ \A c \in Board : todo'[c] \subseteq todo[c]
    BY <1>3 DEF SetScore
  <2> QED BY <2>1 DEF TodoKnown, MemberOf
<1>4. CASE UNCHANGED <<todo, snap>> BY <1>4 DEF TodoKnown, MemberOf
<1>5. \/ Snapshot \/ MarkInitialized \/ AbortSync
      \/ \E b \in Board : \E m \in Member(b) : SetScore(b, m)
      \/ UNCHANGED <<todo, snap>>
  BY DEF ApiNext, Next, AddUserPoints, Settle, PipelineLost, ZIncrBy, Flush, Read, RefuseQuery,
         FindNobody, CheckSentinel, ReadScore, ReadRank, ReadPage, ReadCount, ReadError, Reading, sync, vars
<1> QED BY <1>1, <1>2, <1>3, <1>4, <1>5

\* A member stays in a sorted set until Redis loses its data.
LEMMA OverwriteKeepsPresent ==
  ASSUME TypeOK, TodoKnown, NEW b \in Board, NEW m \in todo[b], z' = Overwrite(b, m), NEW c \in Board
  PROVE  Present(c) \subseteq Present(c)'
<1>1. CASE c # b BY <1>1 DEF Overwrite, Present, TypeOK, MemberOf
<1>2. CASE c = b
  <2>1. PICK f \in snap[b] : MemberOf(b, f) = m BY DEF TodoKnown
  <2>2. f \in Event /\ z'[b][f] = 1 BY <2>1 DEF Overwrite, TypeOK
  <2>3. m \in Present(b)' BY <2>1, <2>2 DEF Present, MemberOf
  <2>4. ASSUME NEW e \in Event, z[b][e] > 0, MemberOf(b, e) # m PROVE MemberOf(b, e) \in Present(b)'
    <3>1. z'[b][e] = z[b][e] BY <2>4 DEF Overwrite, TypeOK
    <3> QED BY <2>4, <3>1 DEF Present, MemberOf
  <2> QED BY <1>2, <2>3, <2>4 DEF Present
<1> QED BY <1>1, <1>2

LEMMA PresentKept ==
  ASSUME TypeOK, TodoKnown, [ApiNext]_vars, ~Flush, NEW c \in Board
  PROVE  Present(c) \subseteq Present(c)'
<1>1. ASSUME NEW b \in Board, NEW m \in Member(b), SetScore(b, m) PROVE Present(c) \subseteq Present(c)'
  <2>1. m \in todo[b] /\ (z' = Overwrite(b, m) \/ z' = z) BY <1>1 DEF SetScore
  <2>2. CASE z' = z BY <2>2 DEF Present, MemberOf
  <2> QED BY <2>1, <2>2, OverwriteKeepsPresent
<1>2. ASSUME NEW S \in SUBSET Event, NEW b \in Board, ZIncrBy(b, S) PROVE Present(c) \subseteq Present(c)'
  <2>1. \A e \in Event : z[c][e] > 0 => z'[c][e] > 0 BY <1>2 DEF ZIncrBy, TypeOK
  <2> QED BY <2>1 DEF Present, MemberOf
<1>3. CASE z' = z BY <1>3 DEF Present, MemberOf
<1>4. \/ \E b \in Board : \E m \in Member(b) : SetScore(b, m)
      \/ \E S \in SUBSET Event : \E b \in Board : ZIncrBy(b, S)
      \/ z' = z
  BY DEF ApiNext, Next, AddUserPoints, Settle, PipelineLost, Snapshot, MarkInitialized, AbortSync,
         EndSync, Read, RefuseQuery, FindNobody, CheckSentinel, ReadScore, ReadRank, ReadPage, ReadCount,
         ReadError, Reading, vars
<1> QED BY <1>1, <1>2, <1>3, <1>4

LEMMA PresentFinite ==
  ASSUME NEW b \in Board PROVE IsFiniteSet(Present(b)) /\ Cardinality(Present(b)) \in Nat
<1>1. Present(b) \subseteq Member(b) BY KeyAssumption DEF Present, MemberOf, Member, Board
<1>2. IsFiniteSet(Member(b)) BY ReadAssumption DEF Member
<1>3. IsFiniteSet(Present(b)) BY <1>1, <1>2, FS_Subset
<1> QED BY <1>3, FS_CardinalityType

LEMMA PresentFiniteNext ==
  ASSUME NEW b \in Board PROVE IsFiniteSet(Present(b)') /\ Cardinality(Present(b)') \in Nat
<1>1. Present(b)' \subseteq Member(b) BY KeyAssumption DEF Present, MemberOf, Member, Board
<1>2. IsFiniteSet(Member(b)) BY ReadAssumption DEF Member
<1>3. IsFiniteSet(Present(b)') BY <1>1, <1>2, FS_Subset
<1> QED BY <1>3, FS_CardinalityType

LEMMA PresentCount ==
  ASSUME NEW b \in Board, Present(b) \subseteq Present(b)'
  PROVE  Cardinality(Present(b)) <= Cardinality(Present(b)')
BY PresentFiniteNext, FS_Subset

\* ZREVRANK + 1 of a member is one of the places of the sorted set.
LEMMA RankIsPlace ==
  ASSUME NEW b \in Board, NEW m \in Present(b), NEW k \in Ranks(b, m)
  PROVE  k \in Nat /\ 1 <= k /\ k <= Cardinality(Present(b))
<1> DEFINE above == {n \in Present(b) : Score(b, n) > Score(b, m)}
           notBelow == {n \in Present(b) : Score(b, n) >= Score(b, m)}
<1>1. above \in SUBSET Present(b) /\ notBelow \in SUBSET Present(b) OBVIOUS
<1>2. k \in (Cardinality(above) + 1)..Cardinality(notBelow) BY DEF Ranks
<1> HIDE DEF above, notBelow
<1>3. /\ IsFiniteSet(above) /\ IsFiniteSet(notBelow)
      /\ Cardinality(notBelow) <= Cardinality(Present(b))
  BY <1>1, PresentFinite, FS_Subset
<1>4. Cardinality(above) \in Nat /\ Cardinality(notBelow) \in Nat BY <1>3, FS_CardinalityType
<1>5. Cardinality(Present(b)) \in Nat BY PresentFinite
<1> QED BY <1>2, <1>3, <1>4, <1>5

\* Nothing on a page is beyond the end of the sorted set.
LEMMA PageEnds ==
  ASSUME NEW b \in Board, NEW p \in Page
  PROVE  LastRank(b, p) \in Nat /\ LastRank(b, p) <= Cardinality(Present(b))
<1> DEFINE n == Cardinality(Present(b))
           last == p[1] + p[2]
<1>1. n \in Nat BY PresentFinite
<1>2. p[1] \in Nat /\ p[2] \in Nat BY ReadAssumption
<1>3. Min({n, last}) \in Nat /\ Min({n, last}) <= n
  <2> HIDE DEF n
  <2>1. last \in Nat BY <1>2
  <2> HIDE DEF last
  <2>2. \E x \in {n, last} : \A y \in {n, last} : x <= y BY <1>1, <2>1
  <2>3. Min({n, last}) \in {n, last} /\ \A y \in {n, last} : Min({n, last}) <= y
    BY <2>2 DEF Min
  <2> QED BY <1>1, <2>1, <2>3
<1> QED BY <1>1, <1>3 DEF LastRank

\* What a request has read so far, if Redis was not flushed since its sentinel check.
Asks(q) ==
  /\ q.at \in {"score", "rank", "page", "count"} => q.b \in Board
  /\ q.at = "page" => q.page \in Page
HasRead(q) ==
  /\ q.at = "rank" => q.m \in Present(q.b)
  /\ q.at = "count" => /\ q.low \in Nat /\ q.rank \in Nat /\ q.low <= q.rank
                       /\ q.rank <= Cardinality(Present(q.b))
InRange(a) == a.code = "200" => a.low <= a.rank /\ a.rank <= a.total

Coherent(r) == Asks(req[r]) /\ (~torn[r] => HasRead(req[r]) /\ InRange(answer[r]))

CoherentInv == torn \in [Reader -> BOOLEAN] /\ \A r \in Reader : Coherent(r)

LEMMA HasReadKept ==
  ASSUME NEW q, Asks(q), HasRead(q), \A c \in Board : Present(c) \subseteq Present(c)'
  PROVE  HasRead(q)'
<1>1. CASE q.at = "rank" BY <1>1 DEF HasRead, Asks
<1>2. CASE q.at = "count"
  <2>1. q.b \in Board BY <1>2 DEF Asks
  <2>2. Cardinality(Present(q.b)) <= Cardinality(Present(q.b)') BY <2>1, PresentCount
  <2>3. Cardinality(Present(q.b)) \in Nat BY <2>1, PresentFinite
  <2>4. Cardinality(Present(q.b)') \in Nat BY <2>1, PresentFiniteNext
  <2> QED BY <1>2, <2>2, <2>3, <2>4 DEF HasRead
<1> QED BY <1>1, <1>2 DEF HasRead

LEMMA CoherentKept ==
  ASSUME NEW r \in Reader, Coherent(r), \A c \in Board : Present(c) \subseteq Present(c)',
         req'[r] = req[r], answer'[r] = answer[r], torn'[r] = torn[r]
  PROVE  Coherent(r)'
BY HasReadKept DEF Coherent, Asks, InRange

\* A step of r on its own request.
LEMMA ToCoherent ==
  ASSUME ReadInv, NEW r \in Reader, NEW q, To(r, q), Asks(q), ~torn'[r] => HasRead(q)'
  PROVE  Coherent(r)' /\ \A o \in Reader \ {r} : req'[o] = req[o] /\ answer'[o] = answer[o]
<1>1. req'[r] = q /\ answer'[r] = None BY DEF ReadInv, To
<1>2. InRange(None) BY DEF InRange, None
<1> QED BY <1>1, <1>2 DEF Coherent, Asks, To, ReadInv, HasRead

LEMMA RespondCoherent ==
  ASSUME ReadInv, NEW r \in Reader, NEW a, Respond(r, a), ~torn'[r] => InRange(a)
  PROVE  Coherent(r)' /\ \A o \in Reader \ {r} : req'[o] = req[o] /\ answer'[o] = answer[o]
<1>1. req'[r] = Idle /\ answer'[r] = a BY DEF ReadInv, Respond
<1>2. Asks(Idle) /\ HasRead(Idle)' BY DEF Asks, HasRead, Idle
<1> QED BY <1>1, <1>2 DEF Coherent, Asks, Respond, ReadInv, InRange, HasRead, Idle

\* The step of r moves r to a coherent state and leaves the others alone.
Moves(r) == Coherent(r)' /\ \A o \in Reader \ {r} : req'[o] = req[o] /\ answer'[o] = answer[o]

LEMMA CheckSentinelMoves ==
  ASSUME ReadInv, CoherentInv, NEW r \in Reader, NEW b, NEW then, CheckSentinel(r, b, then),
         Asks(then), then.at \in {"score", "page"}
  PROVE  Moves(r)
<1>1. CASE To(r, then)
  <2>1. HasRead(then)' BY DEF HasRead
  <2> QED BY <1>1, <2>1, ToCoherent DEF Moves
<1>2. CASE Respond(r, [code |-> "503"])
  <2>1. InRange([code |-> "503"]) BY DEF InRange
  <2> QED BY <1>2, <2>1, RespondCoherent DEF Moves
<1> QED BY <1>1, <1>2 DEF CheckSentinel

LEMMA ReadScoreMoves ==
  ASSUME ReadInv, CoherentInv, NEW r \in Reader, ReadScore(r) PROVE Moves(r)
<1>1. req[r].b \in Board BY DEF CoherentInv, Coherent, Asks, ReadScore
<1>2. CASE req[r].m \in Present(req[r].b) /\ To(r, [req[r] EXCEPT !.at = "rank"])
  <2>0. PICK q : q = [req[r] EXCEPT !.at = "rank"] OBVIOUS
  <2>1. q.b = req[r].b /\ q.m = req[r].m BY <2>0
  <2>2. q.at \notin {"count", "page"} BY <2>0
  <2>3. z' = z BY DEF ReadScore, Reading
  <2>4. Asks(q) BY <1>1, <2>1, <2>2 DEF Asks
  <2>5. HasRead(q)' BY <1>2, <2>1, <2>2, <2>3 DEF HasRead, Present, MemberOf
  <2> QED BY <1>2, <2>0, <2>4, <2>5, ToCoherent DEF Moves
<1>3. CASE Respond(r, [code |-> "404"])
  <2>1. InRange([code |-> "404"]) BY DEF InRange
  <2> QED BY <1>3, <2>1, RespondCoherent DEF Moves
<1> QED BY <1>2, <1>3 DEF ReadScore

LEMMA ReadRankMoves ==
  ASSUME ReadInv, CoherentInv, NEW r \in Reader, ReadRank(r) PROVE Moves(r)
<1>1. req[r].b \in Board BY DEF CoherentInv, Coherent, Asks, ReadRank
<1>2. PICK k \in Ranks(req[r].b, req[r].m) :
        To(r, [at |-> "count", b |-> req[r].b, low |-> 1, rank |-> k])
  BY DEF ReadRank
<1>0. PICK q : q = [at |-> "count", b |-> req[r].b, low |-> 1, rank |-> k] OBVIOUS
<1>3. Asks(q) BY <1>0, <1>1 DEF Asks
<1>4. z' = z /\ torn' = torn BY DEF ReadRank, Reading
<1>5. ASSUME ~torn[r] PROVE HasRead(q)'
  <2>1. req[r].m \in Present(req[r].b) BY <1>5 DEF CoherentInv, Coherent, HasRead, ReadRank
  <2>2. k \in Nat /\ 1 <= k /\ k <= Cardinality(Present(req[r].b)) BY <1>1, <1>2, <2>1, RankIsPlace
  <2>3. HasRead(q) BY <1>0, <2>2 DEF HasRead
  <2> QED BY <1>4, <2>3 DEF HasRead, Present, MemberOf
<1> QED BY <1>0, <1>2, <1>3, <1>4, <1>5, ToCoherent DEF Moves

LEMMA ReadPageMoves ==
  ASSUME ReadInv, CoherentInv, NEW r \in Reader, ReadPage(r) PROVE Moves(r)
<1>1. req[r].b \in Board /\ req[r].page \in Page BY DEF CoherentInv, Coherent, Asks, ReadPage
<1> DEFINE k == LastRank(req[r].b, req[r].page)
<1>0. PICK q : q = [at |-> "count", b |-> req[r].b, low |-> 0, rank |-> k] OBVIOUS
<1>2. To(r, q) BY <1>0 DEF ReadPage
<1>3. Asks(q) BY <1>0, <1>1 DEF Asks
<1>4. z' = z BY DEF ReadPage, Reading
<1>5. k \in Nat /\ k <= Cardinality(Present(req[r].b)) BY <1>1, PageEnds
<1> HIDE DEF k
<1>6. HasRead(q) BY <1>0, <1>5 DEF HasRead
<1>7. HasRead(q)' BY <1>4, <1>6 DEF HasRead, Present, MemberOf
<1> QED BY <1>2, <1>3, <1>7, ToCoherent DEF Moves

LEMMA ReadCountMoves ==
  ASSUME ReadInv, CoherentInv, NEW r \in Reader, ReadCount(r) PROVE Moves(r)
<1> DEFINE a == [code |-> "200", low |-> req[r].low, rank |-> req[r].rank,
                 total |-> Cardinality(Present(req[r].b))]
<1>1. Respond(r, a) /\ torn' = torn BY DEF ReadCount
<1>2. ~torn[r] => InRange(a) BY DEF CoherentInv, Coherent, HasRead, ReadCount, InRange
<1> QED BY <1>1, <1>2, RespondCoherent DEF Moves

LEMMA ReadMoves ==
  ASSUME ReadInv, CoherentInv, NEW r \in Reader, Read(r) \/ RefuseQuery(r) \/ FindNobody(r) PROVE Moves(r)
<1>1. ASSUME NEW b \in Board, NEW m \in Member(b),
             CheckSentinel(r, b, [at |-> "score", b |-> b, m |-> m])
      PROVE  Moves(r)
  <2>1. Asks([at |-> "score", b |-> b, m |-> m]) BY DEF Asks
  <2> QED BY <1>1, <2>1, CheckSentinelMoves
<1>2. ASSUME NEW b \in Board, NEW p \in Page,
             CheckSentinel(r, b, [at |-> "page", b |-> b, page |-> p])
      PROVE  Moves(r)
  <2>1. Asks([at |-> "page", b |-> b, page |-> p]) BY DEF Asks
  <2> QED BY <1>2, <2>1, CheckSentinelMoves
<1>3. CASE ReadError(r)
  <2>1. InRange([code |-> "500"]) BY DEF InRange
  <2> QED BY <1>3, <2>1, RespondCoherent DEF ReadError, Moves
<1>4. CASE RefuseQuery(r)
  <2>1. InRange([code |-> "400"]) BY DEF InRange
  <2> QED BY <1>4, <2>1, RespondCoherent DEF RefuseQuery, Moves
<1>5. CASE FindNobody(r)
  <2>1. InRange([code |-> "404", unknown |-> TRUE]) BY DEF InRange
  <2> QED BY <1>5, <2>1, RespondCoherent DEF FindNobody, Moves
<1> QED BY <1>1, <1>2, <1>3, <1>4, <1>5, ReadScoreMoves, ReadRankMoves, ReadPageMoves, ReadCountMoves
        DEF Read

LEMMA CoherentNext ==
  ASSUME TypeOK, TodoKnown, ReadInv, CoherentInv, [ApiNext]_vars PROVE CoherentInv'
<1>1. CASE Flush
  <2>1. UNCHANGED readers /\ torn' = [r \in Reader |-> TRUE] BY <1>1 DEF Flush
  <2> QED BY <2>1 DEF readers, CoherentInv, Coherent, Asks
<1>2. CASE ~Flush
  <2>1. \A c \in Board : Present(c) \subseteq Present(c)' BY <1>2, PresentKept
  <2>2. ASSUME NEW r \in Reader, Read(r) \/ RefuseQuery(r) \/ FindNobody(r) PROVE CoherentInv'
    <3>1. Moves(r) BY <2>2, ReadMoves
    <3>2. torn' \in [Reader -> BOOLEAN] /\ \A o \in Reader \ {r} : torn'[o] = torn[o]
      BY <2>2 DEF Read, RefuseQuery, FindNobody, CheckSentinel, ReadScore, ReadRank, ReadPage, ReadCount,
                  ReadError, CoherentInv
    <3>3. ASSUME NEW o \in Reader \ {r} PROVE Coherent(o)'
      BY <2>1, <3>1, <3>2, CoherentKept DEF Moves, CoherentInv
    <3> QED BY <3>1, <3>2, <3>3 DEF Moves, CoherentInv
  <2>3. CASE UNCHANGED <<readers, torn>>
    <3>1. ASSUME NEW o \in Reader PROVE Coherent(o)'
      BY <2>1, <2>3, CoherentKept DEF readers, CoherentInv
    <3> QED BY <2>3, <3>1 DEF CoherentInv
  <2>4. \/ \E r \in Reader : Read(r) \/ RefuseQuery(r) \/ FindNobody(r)
        \/ UNCHANGED <<readers, torn>>
    BY <1>2 DEF ApiNext, Next, AddUserPoints, Settle, PipelineLost, ZIncrBy, Snapshot,
                MarkInitialized, AbortSync, EndSync, SetScore, history, readers, vars
  <2> QED BY <2>2, <2>3, <2>4
<1> QED BY <1>1, <1>2

\* A rank, or the end of a page, never lies beyond the total of the same response, however
\* many ZINCRBYs and rebuilds come between the calls, unless Redis lost its data since.
THEOREM RankWithinTotalHolds == ApiSpec => []RankWithinTotal
<1>1. Init => TodoKnown /\ CoherentInv
  BY DEF Init, TodoKnown, NoRows, CoherentInv, Coherent, Asks, HasRead, InRange, Idle, None
<1>2. HealInv => TypeOK BY DEF HealInv
<1>3. CoherentInv => RankWithinTotal BY DEF CoherentInv, Coherent, InRange, RankWithinTotal
<1> QED
  BY <1>1, <1>2, <1>3, TodoKnownNext, CoherentNext, HealInductiveBesideReads, ReadInvHolds,
     PTL DEF ApiSpec
=============================================================================

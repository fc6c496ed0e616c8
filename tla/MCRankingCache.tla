--------------------------- MODULE MCRankingCache ---------------------------
(* Small instances of RankingCache and RankingApi for TLC. *)
EXTENDS RankingApi, TLC

CONSTANTS u1, u2, g1

\* The two users alternate; both are in one guild.
Users2 == [e \in Event |-> IF e % 2 = 1 THEN u1 ELSE u2]
Guild1 == [e \in Event |-> g1]

\* Zero is a valid number of points.
FewPoints == [e \in Event |-> e - 1]

\* Two pages of one entry, two queries no handler accepts, one only gRPC can not carry.
Wire(limit, offset, id) == [limit |-> limit, offset |-> offset, id |-> id]
Queries ==
  {Wire(Number(1), Unset, Number(7)), Wire(Number(1), Number(1), Number(0)),
   Wire(Number(-1), Unset, Unset), Wire(Unset, Number(-1), Number(-7)),
   Wire(Garbled, Unset, Garbled)}
Pages == UNION {HttpGetUserRankings(w) : w \in Queries}
=============================================================================

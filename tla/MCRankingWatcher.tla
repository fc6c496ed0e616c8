-------------------------- MODULE MCRankingWatcher --------------------------
(* Small instances of RankingWatcher for TLC. *)
EXTENDS RankingWatcher

CONSTANTS c1, c2

\* The first entry alone does not tell the second update from the first.
MCRanking == <<<<"a", "b">>, <<"a", "c">>>>
MCRankingOf(n) == [v \in 0..n |-> IF v = 0 THEN <<>> ELSE MCRanking[v]]
MCRanking1 == MCRankingOf(1)
MCRanking2 == MCRankingOf(2)

\* One asks for one entry, or for what the handler refuses, the other leaves the default.
MCLimit == [c \in Client |-> IF c = c1 THEN {-1, 1} ELSE {0}]
MCSameLimit == [c \in Client |-> {0}]
=============================================================================

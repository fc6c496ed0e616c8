--------------------------- MODULE MCOutboxWorker ---------------------------
(* Small instances of OutboxWorker for TLC. *)
EXTENDS OutboxWorker, TLC

CONSTANTS w1, w2, s1, s2, u1, u2, g1

\* Two processes with one slot each (Concurrency = 1).
OneSlotEach == (s1 :> w1) @@ (s2 :> w2)

\* One process with two slots (Concurrency = 2).
TwoSlots == (s1 :> w1) @@ (s2 :> w1)

\* Users alternate, all of them in one guild.
Users2 == [e \in Event |-> IF e % 2 = 1 THEN u1 ELSE u2]
Guild1 == [e \in Event |-> g1]
=============================================================================

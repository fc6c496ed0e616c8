----------------------------- MODULE MCOutboxGc -----------------------------
(* A small instance of OutboxGc for TLC. *)
EXTENDS MCOutboxWorker, OutboxGc

\* The workers are alike; each slot goes with its owner.
Symmetry ==
  {f \in Permutations(Worker \cup Slot) : \A s \in Slot : f[s] \in Slot /\ SlotOwner[f[s]] = f[SlotOwner[s]]}

Unset == [text |-> "", value |-> 0]
Plain == [s \in Setting |-> Unset]
With(s, n) == [Plain EXCEPT ![s] = [text |-> "n", value |-> n]]

\* The shortest retention and one that is no whole number of seconds; one that is too short,
\* one that does not parse, and more goroutines than connections.
Environments ==
  {With("OUTBOX_RETENTION", n) : n \in {999, 1000, 1999}}
    \cup {[Plain EXCEPT !.OUTBOX_RETENTION.text = "x"], With("OUTBOX_CONCURRENCY", 26)}
=============================================================================

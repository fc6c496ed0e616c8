------------------------------ MODULE OutboxGc ------------------------------
(***************************************************************************)
(* cmd/batch -gc-outbox beside the workers of OutboxWorker: OutboxGC.Run   *)
(* (driver/batch/outbox_gc.go) deletes the processed rows that are older   *)
(* than OUTBOX_RETENTION in chunks, one transaction each, until a chunk is *)
(* not full.  One GC runs at a time.                                       *)
(*                                                                         *)
(* Time is abstracted to what the shortest retention tells apart: a row    *)
(* was marked processed less than a second ago (it is young), or not.  In  *)
(* OutboxWorker Purge deletes any processed rows; here a chunk is a Purge  *)
(* of the rows its statement matches.                                      *)
(***************************************************************************)
EXTENDS OutboxWorker, Config

CONSTANTS
  ChunkSize,  \* outboxGCChunkSize
  Env         \* the environments the batch may be started in

ASSUME GcAssumption ==
  /\ ChunkSize \in Nat \ {0}
  /\ Env \subseteq Environment

VARIABLES
  gc,         \* whether the batch is running
  retention,  \* its retention in seconds while it runs
  owed,       \* rows that had expired when it started and are still there
  young       \* rows that were marked processed less than a second ago

gcVars == <<vars, gc, retention, owed, young>>

GcInit == Init /\ gc = "off" /\ retention = 0 /\ owed = {} /\ young = {}

\* WHERE processed_at IS NOT NULL AND processed_at < NOW(6) - INTERVAL seconds SECOND:
\* among these rows are all that DELETE matches.
Expirable(seconds) ==
  {e \in Event : row[e] = "processed" /\ (seconds >= 1 => e \notin young)}

\* main: the configuration is loaded before anything is done.
StartGc ==
  /\ gc = "off"
  /\ \E env \in Env : \E cfg \in Load(env) : retention' = RetentionSeconds(cfg)
  /\ gc' = "run"
  /\ owed' \in SUBSET Expirable(retention')
  /\ UNCHANGED <<vars, young>>

Delete(S) ==
  /\ IF S = {} THEN UNCHANGED vars ELSE Purge(S)
  /\ young' = young \ S

Exits == gc' = "off" /\ retention' = 0

\* Mutant: the loop takes a full chunk for the last one.
LastChunkWhenFull(deleted) == deleted <= ChunkSize

\* A chunk that is not full is the last one.
LastChunk(deleted) == deleted < ChunkSize

\* One round of the loop: the rows the statement matches are D, as many as LIMIT allows go.
DeleteChunk ==
  /\ gc = "run"
  /\ \E D \in SUBSET Expirable(retention) : \E S \in SUBSET D :
       /\ owed \subseteq D
       /\ Cardinality(S) = IF Cardinality(D) < ChunkSize THEN Cardinality(D) ELSE ChunkSize
       /\ Delete(S)
       /\ owed' = owed \ S
       /\ IF LastChunk(Cardinality(S)) THEN Exits ELSE UNCHANGED <<gc, retention>>

\* The transaction fails, before or after its COMMIT took effect, the context is cancelled
\* between two chunks, or the process is killed: nothing more is promised.
GcFails ==
  /\ gc = "run"
  /\ \E S \in SUBSET Expirable(retention) : Cardinality(S) <= ChunkSize /\ Delete(S)
  /\ owed' = {}
  /\ Exits

\* A second passes for the oldest of the young rows.
Age ==
  /\ young # {}
  /\ young' \in SUBSET young \ {young}
  /\ UNCHANGED <<vars, gc, retention, owed>>

Beside ==
  /\ WorkerNext
  /\ young' = young \cup {e \in Event : row[e] # "processed" /\ row'[e] = "processed"}
  /\ UNCHANGED <<gc, retention, owed>>

GcNext == StartGc \/ DeleteChunk \/ GcFails \/ Age \/ Beside

GcSpec == GcInit /\ [][GcNext]_gcVars

\* A GC that ends with success has deleted every row that had expired when it started,
\* while the workers go on marking rows processed and chunks fill up (outbox_gc.go:57,
\* until nothing is left).
GcSweeps == gc = "off" => owed = {}

\* No row is deleted in the second in which it was marked processed, whatever the
\* environment says: the retention is cut to whole seconds on its way to the statement, and
\* 0 seconds would delete what the workers have just written (minOutboxRetention).
RetentionKept ==
  [][\A e \in Event : row[e] # "deleted" /\ row'[e] = "deleted" => e \notin young]_gcVars
=============================================================================

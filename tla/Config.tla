------------------------------- MODULE Config -------------------------------
(***************************************************************************)
(* configs.Load (configs/config.go): the environment variables with a      *)
(* number or a duration, in milliseconds.  A variable is unset (text ""),  *)
(* does not parse ("x"), or has a value ("n").  MYSQL_DSN and REDIS_ADDR   *)
(* are taken as they are and LOG_LEVEL only has to parse.                  *)
(***************************************************************************)
EXTENDS Integers

Default == [
  PORT |-> 8080, GRPC_PORT |-> 9090, LOG_LEVEL |-> 0,
  OUTBOX_POLL_INTERVAL |-> 600000, OUTBOX_BATCH_SIZE |-> 500, OUTBOX_CONCURRENCY |-> 8,
  OUTBOX_RETENTION |-> 259200000, OUTBOX_TICK_TIMEOUT |-> 30000, OUTBOX_MAX_RETRY |-> 10,
  DB_PING_TIMEOUT |-> 5000, DB_MAX_OPEN_CONNS |-> 25, DB_MAX_IDLE_CONNS |-> 25,
  DB_CONN_MAX_LIFETIME |-> 300000, DB_CONN_MAX_IDLE_TIME |-> 300000]

Setting == DOMAIN Default
Environment == [Setting -> [text : {"", "x", "n"}, value : Int]]

\* Ports and the level are not checked.
Unchecked == {"PORT", "GRPC_PORT", "LOG_LEVEL"}
NonNegative == {"DB_MAX_IDLE_CONNS", "DB_CONN_MAX_LIFETIME", "DB_CONN_MAX_IDLE_TIME"}

MinOutboxRetention == 1000

\* Mutant: the retention has to be positive, like the other durations.
LeastPositive(s) == IF s \in NonNegative THEN 0 ELSE 1

Least(s) ==
  IF s \in NonNegative THEN 0 ELSE IF s = "OUTBOX_RETENTION" THEN MinOutboxRetention ELSE 1

Field(env, s) == IF env[s].text = "" THEN Default[s] ELSE env[s].value

Accepted(env, s) ==
  \/ env[s].text = ""
  \/ env[s].text = "n" /\ (s \in Unchecked \/ env[s].value >= Least(s))

\* Every goroutine of the worker holds a connection.
PoolSuffices(cfg) == cfg.OUTBOX_CONCURRENCY <= cfg.DB_MAX_OPEN_CONNS

\* The configuration, or none if Load returns an error.
Load(env) ==
  {cfg \in {[s \in Setting |-> Field(env, s)]} :
     PoolSuffices(cfg) /\ \A s \in Setting : Accepted(env, s)}

\* DeleteProcessedBefore passes the retention on in whole seconds.
RetentionSeconds(cfg) == cfg.OUTBOX_RETENTION \div 1000
=============================================================================

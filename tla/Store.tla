------------------------------- MODULE Store -------------------------------
(***************************************************************************)
(* The two stores the processes of the engine share, and the commands they *)
(* send to them.                                                           *)
(*                                                                         *)
(* Redis holds the FIFO queue, the in-flight map exec:processing, one hash *)
(* and one cached result per job, the worker heartbeats and the dead       *)
(* letter queue (lib/redis-keys.js names the keys).  PostgreSQL holds the  *)
(* two tables of docs/schema.sql.  No process keeps anything durable of    *)
(* its own, so every interaction of the API, the workers and the watchdog  *)
(* goes through the variables of this module.                              *)
(*                                                                         *)
(* An operator below is ONE command: it says what the command changes and  *)
(* leaves the rest of both stores alone.  The processes issue one command  *)
(* per step, because each is awaited and others run in between.            *)
(***************************************************************************)
EXTENDS Integers, Sequences, FiniteSets

CONSTANTS
    Jobs,             \* submission ids: crypto.randomUUID(), never reused
    Ids,              \* values of WORKER_ID
    Outcomes,         \* what executor.execute may return
    None,             \* an absent key, hash field or row
    MAX_RETRIES,
    MAX_QUEUE_DEPTH,
    Budget            \* how many faults of each kind a behaviour may contain

\* The faults: a worker dies, a PostgreSQL statement fails, Redis restarts
\* empty, a worker gets SIGTERM, a submit handler is cut off, the watchdog dies,
\* the answer of a Redis command is lost with its connection.
FaultKinds == {"crash", "pg", "redis", "signal", "api", "dog", "link"}

Final == {"done", "failed", "timeout"}
Status == {"pending", "running"} \cup Final

\* The fallback result that the worker and the watchdog write for a job they
\* give up: exit code 1, not timed out.
Fallback == [timedOut |-> FALSE, exitCode |-> 1]

ASSUME RetriesAssumption == MAX_RETRIES \in Nat
ASSUME DepthAssumption == MAX_QUEUE_DEPTH \in Nat \ {0}
ASSUME BudgetAssumption == Budget \in [FaultKinds -> Nat]
ASSUME OutcomesAssumption ==
    /\ Outcomes \subseteq [timedOut : BOOLEAN, exitCode : Int]
    /\ Fallback \in Outcomes
ASSUME NoneAssumption ==
    None \notin Jobs /\ None \notin Ids /\ None \notin Outcomes /\ None \notin Status

VARIABLES
    queue,       \* exec:queue: LPUSH on the left, BRPOP on the right
    marker,      \* exec:processing: the worker id recorded for a job, or None
    aged,        \* the jobs whose marker is older than STALE_THRESHOLD_SECONDS
    jobStatus,   \* field status of exec:job:{id}
    payload,     \* the jobs whose exec:job:{id} has its code field
    retryCount,  \* field retryCount of exec:job:{id} (absent reads as 0)
    cache,       \* field status of exec:result:{id}
    heartbeat,   \* the worker ids whose heartbeat key exists
    dlq,         \* exec:dlq: how often each job is in the list
    submission,  \* submissions.status
    row,         \* the row of execution_results: its timed_out and exit_code
    faults       \* the faults left in the budget

hashVars  == <<jobStatus, payload, retryCount>>
redisVars == <<queue, marker, aged, jobStatus, payload, retryCount, cache,
               heartbeat, dlq>>
pgVars    == <<submission, row>>
dataVars  == <<redisVars, pgVars>>
storeVars == <<dataVars, faults>>

DataTypeOK ==
    /\ queue \in Seq(Jobs)
    /\ marker \in [Jobs -> Ids \cup {None}]
    /\ aged \in SUBSET Jobs
    /\ jobStatus \in [Jobs -> Status \cup {None}]
    /\ payload \in SUBSET Jobs
    /\ retryCount \in [Jobs -> Nat]
    /\ cache \in [Jobs -> Final \cup {None}]
    /\ heartbeat \in SUBSET Ids
    /\ dlq \in [Jobs -> Nat]
    /\ submission \in [Jobs -> Status \cup {None}]
    /\ row \in [Jobs -> Outcomes \cup {None}]

StoreTypeOK == DataTypeOK /\ faults \in [FaultKinds -> Nat]

EmptyRedis ==
    /\ queue = <<>>
    /\ marker = [j \in Jobs |-> None]
    /\ aged = {}
    /\ jobStatus = [j \in Jobs |-> None]
    /\ payload = {}
    /\ retryCount = [j \in Jobs |-> 0]
    /\ cache = [j \in Jobs |-> None]
    /\ dlq = [j \in Jobs |-> 0]

EmptyPg ==
    /\ submission = [j \in Jobs |-> None]
    /\ row = [j \in Jobs |-> None]

-----------------------------------------------------------------------------
(* Redis commands.                                                         *)

\* queue.enqueue
Enqueue(j) ==
    /\ queue' = <<j>> \o queue
    /\ UNCHANGED <<marker, aged, hashVars, cache, heartbeat, dlq, pgVars>>

\* queue.dequeue: BRPOP takes the right end, for one client only.
Dequeue(j) ==
    /\ queue # <<>>
    /\ j = queue[Len(queue)]
    /\ queue' = SubSeq(queue, 1, Len(queue) - 1)
    /\ UNCHANGED <<marker, aged, hashVars, cache, heartbeat, dlq, pgVars>>

\* HSET exec:processing j {workerId: i, startedAt: now}: overwrites.
SetMarker(j, i) ==
    /\ marker' = [marker EXCEPT ![j] = i]
    /\ aged' = aged \ {j}
    /\ UNCHANGED <<queue, hashVars, cache, heartbeat, dlq, pgVars>>

\* HDEL exec:processing j, whoever the marker belongs to.
ClearMarker(j) ==
    /\ marker' = [marker EXCEPT ![j] = None]
    /\ aged' = aged \ {j}
    /\ UNCHANGED <<queue, hashVars, cache, heartbeat, dlq, pgVars>>

\* HSET of the whole job hash by the submit handler.
SetJob(j) ==
    /\ jobStatus' = [jobStatus EXCEPT ![j] = "pending"]
    /\ payload' = payload \cup {j}
    /\ retryCount' = [retryCount EXCEPT ![j] = 0]
    /\ UNCHANGED <<queue, marker, aged, cache, heartbeat, dlq, pgVars>>

\* HSET of the status field alone; it creates a hash that is not there.
SetStatus(j, s) ==
    /\ jobStatus' = [jobStatus EXCEPT ![j] = s]
    /\ UNCHANGED <<queue, marker, aged, payload, retryCount, cache, heartbeat,
                   dlq, pgVars>>

\* HSET of status and retryCount together, by the watchdog.
SetPending(j, n) ==
    /\ jobStatus' = [jobStatus EXCEPT ![j] = "pending"]
    /\ retryCount' = [retryCount EXCEPT ![j] = n]
    /\ UNCHANGED <<queue, marker, aged, payload, cache, heartbeat, dlq, pgVars>>

\* MULTI HSET status failed, retryCount n; LPUSH exec:dlq; EXEC.
DeadLetter(j, n) ==
    /\ jobStatus' = [jobStatus EXCEPT ![j] = "failed"]
    /\ retryCount' = [retryCount EXCEPT ![j] = n]
    /\ dlq' = [dlq EXCEPT ![j] = @ + 1]
    /\ UNCHANGED <<queue, marker, aged, payload, cache, heartbeat, pgVars>>

\* HSET exec:result:{id}
SetResult(j, s) ==
    /\ cache' = [cache EXCEPT ![j] = s]
    /\ UNCHANGED <<queue, marker, aged, hashVars, heartbeat, dlq, pgVars>>

\* SET and DEL of exec:worker:{i}:heartbeat, and its expiry.
SetHeartbeats(hs) ==
    /\ heartbeat' = hs
    /\ UNCHANGED <<queue, marker, aged, hashVars, cache, dlq, pgVars>>

-----------------------------------------------------------------------------
(* PostgreSQL statements.                                                  *)

CreateSubmission(j) ==
    /\ submission' = [submission EXCEPT ![j] = "pending"]
    /\ UNCHANGED <<redisVars, row>>

\* An UPDATE of a row that is not there changes nothing; a job that reached
\* the queue has its row.
UpdateSubmission(j, s) ==
    /\ submission' = [submission EXCEPT ![j] = IF @ = None THEN None ELSE s]
    /\ UNCHANGED <<redisVars, row>>

\* submission_id is the PRIMARY KEY of execution_results: a second INSERT for
\* the same job is refused, and one without its submission breaks the foreign
\* key.
Insertable(j) == row[j] = None /\ submission[j] # None

InsertRow(j, o) ==
    /\ Insertable(j)
    /\ row' = [row EXCEPT ![j] = o]
    /\ UNCHANGED <<redisVars, submission>>

-----------------------------------------------------------------------------
(* Faults and the passage of time.                                         *)

NoFault == UNCHANGED faults

Spend(kind) ==
    /\ faults[kind] > 0
    /\ faults' = [faults EXCEPT ![kind] = @ - 1]

\* A statement that the client sees fail: it was not executed, or it was and
\* the connection broke before the answer.
PgFails(stmt) ==
    /\ Spend("pg")
    /\ stmt \/ UNCHANGED dataVars

\* Time passes: the marker of j is now older than the stale threshold.
MarkerAges(j) ==
    /\ marker[j] # None
    /\ j \notin aged
    /\ aged' = aged \cup {j}
    /\ UNCHANGED <<queue, marker, hashVars, cache, heartbeat, dlq, pgVars>>
    /\ NoFault

\* Redis restarts without its data: every key is gone.  (An outage without
\* loss is a delay, since ioredis keeps the commands that wait to be sent, or
\* the loss of an answer: AnswerLost in Engine.)
RedisRestarts ==
    /\ Spend("redis")
    /\ queue' = <<>>
    /\ marker' = [j \in Jobs |-> None]
    /\ aged' = {}
    /\ jobStatus' = [j \in Jobs |-> None]
    /\ payload' = {}
    /\ retryCount' = [j \in Jobs |-> 0]
    /\ cache' = [j \in Jobs |-> None]
    /\ heartbeat' = {}
    /\ dlq' = [j \in Jobs |-> 0]
    /\ UNCHANGED pgVars

=============================================================================

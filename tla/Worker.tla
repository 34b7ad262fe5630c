------------------------------- MODULE Worker ------------------------------
(***************************************************************************)
(* One worker process (worker/index.js): the loop that pops a job, marks   *)
(* it as in flight, runs it and records its result; the heartbeat timer;   *)
(* and the SIGTERM handler, which runs beside the loop.                    *)
(*                                                                         *)
(* at[w] is the await the loop of w stands at; the action for it is the    *)
(* command sent there and the code up to the next await.  leaving[w] is  *)
(* where the SIGTERM handler stands.  Metrics and the "done" message on    *)
(* the stream channel change no variable of this module and are left out;  *)
(* a rejected recordDuration (index.js:45) is ExecuteThrows.               *)
(***************************************************************************)
EXTENDS Store

CONSTANTS
    Workers,          \* the worker processes
    WorkerId,         \* the WORKER_ID each of them was started with
    Restarts,         \* whether the supervisor starts a dead worker again
    StallsPossible,   \* whether a running worker can miss its heartbeats
    DrainOutlivesHeartbeat  \* SHUTDOWN_TIMEOUT_MS > HEARTBEAT_TTL_SECONDS

ASSUME WorkerIdAssumption == WorkerId \in [Workers -> Ids]
ASSUME SwitchAssumption ==
    {Restarts, StallsPossible, DrainOutlivesHeartbeat} \subseteq BOOLEAN

VARIABLES
    at,        \* where the loop of each worker stands
    held,      \* the job in the loop's hands, or None
    outcome,   \* what execute returned for it, or None
    leaving    \* where each worker's shutdown handler stands

workerVars == <<at, held, outcome, leaving>>

\* activeJob is null in these: BRPOP is outstanding or has just answered, or
\* HSET exec:processing has not answered yet, or the loop has ended.
Unclaimed == {"brpop", "popped", "marked", "stopped"}
\* processJob, up to the end of executor.execute.
BeforeResult == {"loaded", "running", "execute"}
\* execute returned an outcome, which is being recorded.
Recording == {"insertResult", "pgFinal", "setFinal", "cacheResult"}
\* The payload was missing and the fallback result is being recorded.
Missing == {"missing", "pgMissing", "setMissing", "cacheMissing"}
\* The catch of processJob.
Failing == {"setFailed", "pgFailed"}
\* The finally of the job: after a return, or with an error on its way out.
Releasing == {"release", "unwind"}
Active == BeforeResult \cup Recording \cup Missing \cup Failing \cup Releasing
LoopSteps == {"dead"} \cup Unclaimed \cup Active

\* none: no signal yet; draining: waiting for activeJob; quitting: the
\* heartbeat is deleted and QUIT sent.
LeavingSteps == {"none", "draining", "quitting"}

WorkerTypeOK ==
    /\ at \in [Workers -> LoopSteps]
    /\ held \in [Workers -> Jobs \cup {None}]
    /\ outcome \in [Workers -> Outcomes \cup {None}]
    /\ leaving \in [Workers -> LeavingSteps]

\* Every worker is up and has sent its first heartbeat.
WorkerInit ==
    /\ at = [w \in Workers |-> "brpop"]
    /\ held = [w \in Workers |-> None]
    /\ outcome = [w \in Workers |-> None]
    /\ leaving = [w \in Workers |-> "none"]

\* draining = true
Draining(w) == leaving[w] # "none"

\* After QUIT nothing the loop sends reaches Redis.
Connected(w) == leaving[w] # "quitting"

resolveStatus(r) ==
    IF r.timedOut THEN "timeout" ELSE IF r.exitCode # 0 THEN "failed" ELSE "done"

Go(w, from, to) ==
    /\ at[w] = from
    /\ at' = [at EXCEPT ![w] = to]

\* A step of the loop that sends one Redis command for the job in hand.
RedisStep(w, from, to) ==
    /\ Connected(w)
    /\ Go(w, from, to)
    /\ UNCHANGED <<held, outcome, leaving>>
    /\ NoFault

\* A step of the loop that sends one PostgreSQL statement.
PgStep(w, from, to) ==
    /\ Go(w, from, to)
    /\ UNCHANGED <<held, outcome, leaving>>

-----------------------------------------------------------------------------
(* Taking a job.                                                           *)

\* BRPOP takes the job out of the queue before anything says who has it.
Pop(w, j) ==
    /\ Connected(w)
    /\ Go(w, "brpop", "popped")
    /\ Dequeue(j)
    /\ held' = [held EXCEPT ![w] = j]
    /\ UNCHANGED <<outcome, leaving>>
    /\ NoFault

\* BRPOP times out after a second.  The loop polls again, unless draining.
PollEnds(w) ==
    /\ Draining(w)
    /\ queue = <<>>
    /\ Go(w, "brpop", "stopped")
    /\ UNCHANGED <<held, outcome, leaving, storeVars>>

\* if (draining) break: the popped job is not put back.
Drop(w) ==
    /\ Draining(w)
    /\ Go(w, "popped", "stopped")
    /\ held' = [held EXCEPT ![w] = None]
    /\ UNCHANGED <<outcome, leaving, storeVars>>

\* (Faulty variant: the job is taken without being marked.)
Claim_Unmarked(w) ==
    /\ ~Draining(w)
    /\ RedisStep(w, "popped", "marked")
    /\ UNCHANGED dataVars

Claim(w) ==
    /\ ~Draining(w)
    /\ RedisStep(w, "popped", "marked")
    /\ SetMarker(held[w], WorkerId[w])

\* HGETALL exec:job:{id}.  A signal that found activeJob null has sent its
\* DEL and QUIT ahead of this command.
Load(w) ==
    /\ ~Draining(w)
    /\ RedisStep(w, "marked", IF held[w] \in payload THEN "loaded" ELSE "missing")
    /\ UNCHANGED dataVars

-----------------------------------------------------------------------------
(* The job hash is missing or has no code: record a failure.               *)

\* insertResult(...).catch(() => null)
FallbackInsert(w) ==
    /\ PgStep(w, "missing", "pgMissing")
    /\ IF Insertable(held[w])
         THEN InsertRow(held[w], Fallback) ELSE UNCHANGED dataVars
    /\ NoFault

FallbackInsertFails(w) ==
    /\ PgStep(w, "missing", "pgMissing")
    /\ PgFails(InsertRow(held[w], Fallback))

FallbackPg(w) ==
    /\ PgStep(w, "pgMissing", "setMissing")
    /\ UpdateSubmission(held[w], "failed")
    /\ NoFault

\* Not caught here: the error leaves the job's async function.
FallbackPgFails(w) ==
    /\ PgStep(w, "pgMissing", "unwind")
    /\ PgFails(UpdateSubmission(held[w], "failed"))

FallbackSet(w) ==
    /\ RedisStep(w, "setMissing", "cacheMissing")
    /\ SetStatus(held[w], "failed")

FallbackCache(w) ==
    /\ RedisStep(w, "cacheMissing", "release")
    /\ SetResult(held[w], "failed")

-----------------------------------------------------------------------------
(* processJob.                                                             *)

\* (Faulty variant: a status that no reader knows.)
SetRunning_WrongStatus(w) ==
    /\ RedisStep(w, "loaded", "running")
    /\ SetStatus(held[w], "processing")

SetRunning(w) ==
    /\ RedisStep(w, "loaded", "running")
    /\ SetStatus(held[w], "running")

PgRunning(w) ==
    /\ PgStep(w, "running", "execute")
    /\ UpdateSubmission(held[w], "running")
    /\ NoFault

\* Before the try: the error leaves processJob and then the loop.
PgRunningFails(w) ==
    /\ PgStep(w, "running", "unwind")
    /\ PgFails(UpdateSubmission(held[w], "running"))

\* executor.execute returns ...
Execute(w, o) ==
    /\ Go(w, "execute", "insertResult")
    /\ outcome' = [outcome EXCEPT ![w] = o]
    /\ UNCHANGED <<held, leaving, storeVars>>

\* ... or throws: Docker refused something.  (It can also return undefined,
\* executor.js:179; resolveStatus then throws, with the same effect.)
ExecuteThrows(w) ==
    /\ PgStep(w, "execute", "setFailed")
    /\ UNCHANGED storeVars

InsertResult(w) ==
    /\ PgStep(w, "insertResult", "pgFinal")
    /\ InsertRow(held[w], outcome[w])
    /\ NoFault

\* (Faulty variant: ON CONFLICT DO NOTHING, and the worker goes on.)
InsertDuplicate_Ignored(w) ==
    /\ PgStep(w, "insertResult", "pgFinal")
    /\ ~Insertable(held[w])
    /\ UNCHANGED storeVars

\* The job has a row already: the INSERT throws.
InsertDuplicate(w) ==
    /\ PgStep(w, "insertResult", "setFailed")
    /\ ~Insertable(held[w])
    /\ UNCHANGED storeVars

\* (Faulty variant: a failed INSERT is ignored.)
InsertResultFails_Ignored(w) ==
    /\ PgStep(w, "insertResult", "pgFinal")
    /\ PgFails(InsertRow(held[w], outcome[w]))

InsertResultFails(w) ==
    /\ PgStep(w, "insertResult", "setFailed")
    /\ PgFails(InsertRow(held[w], outcome[w]))

PgFinal(w) ==
    /\ PgStep(w, "pgFinal", "setFinal")
    /\ UpdateSubmission(held[w], resolveStatus(outcome[w]))
    /\ NoFault

PgFinalFails(w) ==
    /\ PgStep(w, "pgFinal", "setFailed")
    /\ PgFails(UpdateSubmission(held[w], resolveStatus(outcome[w])))

SetFinal(w) ==
    /\ RedisStep(w, "setFinal", "cacheResult")
    /\ SetStatus(held[w], resolveStatus(outcome[w]))

CacheResult(w) ==
    /\ RedisStep(w, "cacheResult", "release")
    /\ SetResult(held[w], resolveStatus(outcome[w]))

SetFailed(w) ==
    /\ RedisStep(w, "setFailed", "pgFailed")
    /\ SetStatus(held[w], "failed")

PgFailed(w) ==
    /\ PgStep(w, "pgFailed", "release")
    /\ UpdateSubmission(held[w], "failed")
    /\ NoFault

\* .catch: logged only.
PgFailedFails(w) ==
    /\ PgStep(w, "pgFailed", "release")
    /\ PgFails(UpdateSubmission(held[w], "failed"))

-----------------------------------------------------------------------------
(* The finally block, and the end of the process.                          *)

\* HDEL exec:processing, then back to the loop's condition.
Release(w) ==
    /\ Connected(w)
    /\ Go(w, "release", IF Draining(w) THEN "stopped" ELSE "brpop")
    /\ ClearMarker(held[w])
    /\ held' = [held EXCEPT ![w] = None]
    /\ outcome' = [outcome EXCEPT ![w] = None]
    /\ UNCHANGED leaving
    /\ NoFault

\* The process is gone, with what it had in memory.
Halt(w) ==
    /\ at' = [at EXCEPT ![w] = "dead"]
    /\ held' = [held EXCEPT ![w] = None]
    /\ outcome' = [outcome EXCEPT ![w] = None]
    /\ leaving' = [leaving EXCEPT ![w] = "none"]

\* HDEL exec:processing, then the error reaches main().catch: exit(1).
Unwind(w) ==
    /\ Connected(w)
    /\ at[w] = "unwind"
    /\ ClearMarker(held[w])
    /\ Halt(w)
    /\ NoFault

Crash(w) ==
    /\ at[w] # "dead"
    /\ Spend("crash")
    /\ Halt(w)
    /\ UNCHANGED dataVars

\* main() from the top: the first heartbeat, then the loop.
Start(w) ==
    /\ Restarts
    /\ Go(w, "dead", "brpop")
    /\ SetHeartbeats(heartbeat \cup {WorkerId[w]})
    /\ UNCHANGED <<held, outcome, leaving>>
    /\ NoFault

-----------------------------------------------------------------------------
(* The heartbeat timer and the SIGTERM handler.                            *)

\* setInterval(sendHeartbeat), until shutdown clears it.
Beat(w) ==
    /\ at[w] # "dead"
    /\ ~Draining(w)
    /\ WorkerId[w] \notin heartbeat
    /\ SetHeartbeats(heartbeat \cup {WorkerId[w]})
    /\ UNCHANGED workerVars
    /\ NoFault

\* The heartbeat of w cannot expire: it is refreshed three times per TTL, or
\* the timer was stopped so late that shutdown's own DEL comes first.
Covered(w) ==
    /\ at[w] # "dead"
    /\ ~StallsPossible
    /\ Draining(w) => ~DrainOutlivesHeartbeat

\* The heartbeat key of i expires.
Lapse(i) ==
    /\ i \in heartbeat
    /\ \A w \in Workers : WorkerId[w] = i => ~Covered(w)
    /\ SetHeartbeats(heartbeat \ {i})
    /\ UNCHANGED workerVars
    /\ NoFault

\* shutdown(): draining = true and the heartbeat timer stops.
Sigterm(w) ==
    /\ at[w] # "dead"
    /\ leaving[w] = "none"
    /\ Spend("signal")
    /\ leaving' = [leaving EXCEPT ![w] = "draining"]
    /\ UNCHANGED <<at, held, outcome, dataVars>>

\* (Faulty variant: the handler also takes the job out of exec:processing.)
DrainEnds_Unmarks(w) ==
    /\ leaving[w] = "draining"
    /\ at[w] # "brpop"
    /\ held[w] # None
    /\ leaving' = [leaving EXCEPT ![w] = "quitting"]
    /\ ClearMarker(held[w])
    /\ UNCHANGED <<at, held, outcome>>
    /\ NoFault

\* DEL heartbeat.  Either activeJob was null or has settled (while BRPOP
\* blocks, the DEL waits behind it on the one connection), or
\* SHUTDOWN_TIMEOUT_MS has passed with the job still running.
DrainEnds(w) ==
    /\ leaving[w] = "draining"
    /\ at[w] # "brpop"
    /\ leaving' = [leaving EXCEPT ![w] = "quitting"]
    /\ SetHeartbeats(heartbeat \ {WorkerId[w]})
    /\ UNCHANGED <<at, held, outcome>>
    /\ NoFault

\* QUIT is answered: process.exit(0).
Exit(w) ==
    /\ leaving[w] = "quitting"
    /\ Halt(w)
    /\ UNCHANGED storeVars

\* The Redis command that changes data, while the loop or the SIGTERM handler
\* awaits it.  A BRPOP that is answered to nobody takes its job all the same.
\* (To set a heartbeat twice is to set it once.)
LoopCommand(w) ==
    /\ Connected(w)
    /\ \/ at[w] = "brpop" /\ \E j \in Jobs : Dequeue(j)
       \/ at[w] = "marked" /\ SetMarker(held[w], WorkerId[w])
       \/ at[w] = "loaded" /\ SetStatus(held[w], "running")
       \/ at[w] = "setFinal" /\ SetStatus(held[w], resolveStatus(outcome[w]))
       \/ at[w] \in {"setMissing", "setFailed"} /\ SetStatus(held[w], "failed")
       \/ at[w] = "cacheMissing" /\ SetResult(held[w], "failed")
       \/ at[w] = "cacheResult" /\ SetResult(held[w], resolveStatus(outcome[w]))
       \/ at[w] \in Releasing /\ ClearMarker(held[w])
       \/ /\ leaving[w] = "draining" /\ at[w] # "brpop"
          /\ SetHeartbeats(heartbeat \ {WorkerId[w]})

-----------------------------------------------------------------------------

TakeJob(w) ==
    \/ \E j \in Jobs : Pop(w, j)
    \/ PollEnds(w) \/ Drop(w) \/ Claim(w) \/ Load(w)

RunJob(w) ==
    \/ SetRunning(w) \/ PgRunning(w)
    \/ ExecuteThrows(w) \/ (\E o \in Outcomes : Execute(w, o))
    \/ InsertResult(w) \/ InsertDuplicate(w)
    \/ PgFinal(w) \/ SetFinal(w) \/ CacheResult(w)

EndJob(w) ==
    \/ FallbackInsert(w) \/ FallbackPg(w) \/ FallbackSet(w) \/ FallbackCache(w)
    \/ SetFailed(w) \/ PgFailed(w)
    \/ Release(w) \/ Unwind(w)

PgFaultStep(w) ==
    \/ FallbackInsertFails(w) \/ FallbackPgFails(w) \/ PgRunningFails(w)
    \/ InsertResultFails(w) \/ PgFinalFails(w) \/ PgFailedFails(w)

LoopStep(w) == TakeJob(w) \/ RunJob(w) \/ EndJob(w)

WorkerNext(w) ==
    \/ LoopStep(w) \/ PgFaultStep(w)
    \/ Beat(w) \/ Sigterm(w) \/ DrainEnds(w) \/ Exit(w)
    \/ Crash(w) \/ Start(w)

=============================================================================

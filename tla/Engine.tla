------------------------------- MODULE Engine ------------------------------
(***************************************************************************)
(* The execution engine: submit handlers, workers and the watchdog over    *)
(* the two stores.  A step of the engine is one command of one process, so *)
(* the processes interleave between any two commands, and any of them may  *)
(* die between any two of its own.                                         *)
(***************************************************************************)
EXTENDS Submit, Worker, Watchdog

vars == <<storeVars, submitVars, workerVars, watchVars>>

Init ==
    /\ EmptyRedis
    /\ EmptyPg
    /\ heartbeat = {WorkerId[w] : w \in Workers}
    /\ faults = Budget
    /\ SubmitInit
    /\ WorkerInit
    /\ WatchdogInit

ApiStep(j) == SubmitNext(j) /\ UNCHANGED <<workerVars, watchVars>>
WorkerStep(w) == WorkerNext(w) /\ UNCHANGED <<submitVars, watchVars>>
WatchdogStep == WatchdogNext /\ UNCHANGED <<submitVars, workerVars>>
TimeStep ==
    /\ (\E j \in Jobs : MarkerAges(j)) \/ RedisRestarts
    /\ UNCHANGED <<submitVars, workerVars, watchVars>>
LapseStep == (\E i \in Ids : Lapse(i)) /\ UNCHANGED <<submitVars, watchVars>>

\* Redis executes a command, and its answer is lost with the connection.  The
\* client sends the command again when it is connected, as often as it takes:
\* ioredis resends what is not answered, and maxRetriesPerRequest is null.  The
\* process stays at its await, whose action is the last time it is sent.
AnswerLost ==
    /\ Spend("link")
    /\ \/ \E j \in Jobs : SubmitCommand(j)
       \/ \E w \in Workers : LoopCommand(w)
       \/ \E p \in Passes, j \in Jobs : TaskCommand(p, j)
    /\ UNCHANGED <<submitVars, workerVars, watchVars>>
LinkStep ==
    \/ AnswerLost
    \/ /\ \E p \in Passes, j \in Jobs : DeadLetterFails(p, j)
       /\ UNCHANGED <<submitVars, workerVars>>

Next ==
    \/ \E j \in Jobs : ApiStep(j)
    \/ \E w \in Workers : WorkerStep(w)
    \/ WatchdogStep
    \/ TimeStep
    \/ LapseStep
    \/ LinkStep

Spec == Init /\ [][Next]_vars

\* What keeps happening: every process takes its next step (each await is
\* answered, the sandbox is killed at its timeout), timers fire, time passes.
\* The loop of a worker, its heartbeat timer and its SIGTERM handler are
\* scheduled apart, and so are the tasks of a pass.  Nothing is assumed of
\* faults, nor that a dead worker is started again.
Fairness ==
    /\ \A j \in Jobs :
         /\ WF_vars(SubmitProgress(j) /\ UNCHANGED <<workerVars, watchVars>>)
         /\ WF_vars(MarkerAges(j) /\ UNCHANGED <<submitVars, workerVars, watchVars>>)
    /\ \A w \in Workers :
         /\ WF_vars(LoopStep(w) /\ UNCHANGED <<submitVars, watchVars>>)
         /\ WF_vars(Beat(w) /\ UNCHANGED <<submitVars, watchVars>>)
         /\ WF_vars((DrainEnds(w) \/ Exit(w)) /\ UNCHANGED <<submitVars, watchVars>>)
    /\ \A i \in Ids : WF_vars(Lapse(i) /\ UNCHANGED <<submitVars, watchVars>>)
    /\ \A p \in Passes :
         /\ WF_vars(Scan(p) /\ UNCHANGED <<submitVars, workerVars>>)
         /\ \A j \in Jobs :
              WF_vars(TaskNext(p, j) /\ UNCHANGED <<submitVars, workerVars>>)

FairSpec == Spec /\ Fairness

TypeOK == StoreTypeOK /\ SubmitTypeOK /\ WorkerTypeOK /\ WatchdogTypeOK

-----------------------------------------------------------------------------
(* Where a job can be.                                                     *)

Occurrences(j) == {k \in 1..Len(queue) : queue[k] = j}
Queued(j) == Occurrences(j) # {}
\* (A worker that has sent QUIT has given its job up.)
Has(w, j) == held[w] = j /\ Connected(w)
HeldBy(j) == {w \in Workers : Has(w, j)}
HandledBy(j) == {p \in Passes : task[p][j] \in InHand}

Accepted(j) == request[j] = "queued"
Terminal(j) == jobStatus[j] \in Final

\* No process has the job in hand, and none is on its way to get it.
AtRest(j) ==
    /\ HeldBy(j) = {}
    /\ \A p \in Passes : task[p][j] = "idle"
    /\ marker[j] = None

\* The job is in no list and no hand, and its clients wait for an answer.
\* (A task that read a marker before it went may still requeue the job.)
Stranded(j) ==
    /\ Accepted(j) /\ ~Queued(j) /\ ~Terminal(j)
    /\ HeldBy(j) = {} /\ HandledBy(j) = {} /\ marker[j] = None

\* How many answers of Redis have been lost so far.
Lost == Budget["link"] - faults["link"]

-----------------------------------------------------------------------------
(* Properties of every behaviour, whatever fails.                          *)

\* A result that is announced is a result that is on record: wherever a job is
\* said to be done or timed out (GET /status reads the hash, GET /result the
\* submission, the WebSocket replay the cache), the row of execution_results is
\* there and says the same.  processJob inserts the row before it writes any
\* of the three (worker/index.js:49-62), and the PRIMARY KEY keeps later
\* executions from replacing it.
DoneBacked ==
    \A j \in Jobs :
        \A s \in {jobStatus[j], submission[j], cache[j]} \cap {"done", "timeout"} :
            row[j] # None /\ resolveStatus(row[j]) = s

\* A job that any process can still get hold of has its row in submissions, so
\* that an UPDATE or INSERT for it never misses its target: the handler creates
\* the row first (submit.js:54-69) and nothing deletes it.
JobsHaveRows ==
    \A j \in Jobs :
        Queued(j) \/ HeldBy(j) # {} \/ marker[j] # None \/ HandledBy(j) # {}
            => submission[j] # None

\* A job leaves the reach of every process without an answer only where a
\* process has it that no marker names: a worker that has popped it and not
\* marked it yet goes or drops it (index.js:117-122), or leaves with the error
\* of index.js:35, deleting the marker on its way out; or the watchdog goes, or
\* fails, between HDEL and LPUSH (watchdog.js:64-88), the answer to the HDEL come
\* or not; or Redis takes the job out of the queue for a BRPOP whose answer is
\* lost.  Any other death, drop, release, recovery or lost answer keeps the job
\* within reach, as long as Redis keeps its data, a worker that runs keeps its
\* heartbeat until it is told to stop, and no answer was lost before: after an
\* LPUSH sent twice two workers may have the job, and one deletes the marker of
\* the other.
GivesUp(w, j) == Has(w, j) /\ ~Has(w, j)'
LossWindow(j) ==
    \/ \E w \in Workers : GivesUp(w, j) /\ at[w] \in {"popped", "unwind"}
    \/ \E p \in Passes : task[p][j] \in InHand /\ task'[p][j] = "idle"
    \/ AnswerLost /\ Len(queue') < Len(queue)
    \/ AnswerLost /\ \E p \in Passes : task[p][j] = "strip"
StrandStep(j) == ~Stranded(j) /\ Stranded(j)'
LostOnlyInWindows ==
    [][Lost = 0 => \A j \in Jobs : StrandStep(j) => LossWindow(j)]_vars

-----------------------------------------------------------------------------
(* Properties while passes of the watchdog do not overlap, whatever else   *)
(* fails: workers may share an id, miss their heartbeats or outlive them,  *)
(* so that a job that is being executed is taken for an orphan; answers of *)
(* Redis may be lost, so that an LPUSH is executed twice.                  *)

Unmarked(j) == {w \in Workers : held[w] = j /\ at[w] = "popped"}

\* The ways a job can still be given to a worker: an entry of the queue, a
\* worker that has popped it and not marked it, a marker in exec:processing, a
\* task that is about to requeue it.
Tickets(j) ==
    Cardinality(Occurrences(j)) + Cardinality(Unmarked(j))
        + Cardinality({marker[j]} \ {None}) + Cardinality(HandledBy(j))

\* Several workers may then execute one job, but only one after the other can be
\* given it, until the job is in the dead letter queue, once, and nothing brings
\* it back.  BRPOP gives an entry to one client, HSET turns it into one marker,
\* whoever had the last, and the watchdog deletes the marker before it requeues
\* the job or gives it up (worker/index.js:117-122, watchdog.js:64-88).  Each
\* answer that was lost adds no more than one, that of an LPUSH sent twice.
OneTicket == \A j \in Jobs : Tickets(j) + dlq[j] <= 1 + Lost

\* So a job is put up no more than MAX_RETRIES times again, however many of its
\* executions overlap: with every retry used up no ticket is left, and it is
\* not in the dead letter queue before.  Again but for one for each answer lost
\* (watchdog.js:60-82).
GivenUpOnce ==
    \A j \in Jobs :
        /\ retryCount[j] + Tickets(j) <= MAX_RETRIES + 1 + Lost
        /\ dlq[j] # 0 => retryCount[j] > MAX_RETRIES

-----------------------------------------------------------------------------
(* Properties while the assumptions of the recovery protocol hold: a       *)
(* running worker refreshes its heartbeat in time, and no other deletes    *)
(* it; passes of the watchdog do not overlap; Redis keeps its data and its *)
(* answers arrive.                                                         *)
(* WorkIsMarked and CachedIsFinal also need that nobody is told to stop,   *)
(* StoresAgree that neither store fails.  Workers die at any step.         *)

\* A job is in one place: one entry of the queue, one worker, or one task of
\* the watchdog that is about to requeue it.  Two executions of one job at a
\* time would need two.  BRPOP hands an entry to one client, and the watchdog
\* requeues only what a dead worker left.
OnePlace ==
    \A j \in Jobs :
        Cardinality(Occurrences(j)) + Cardinality(HeldBy(j))
            + Cardinality(HandledBy(j)) <= 1

\* What a worker is running is marked as its own: if it died now, the watchdog
\* could find the job and who had it.
WorkIsMarked ==
    \A w \in Workers :
        at[w] \in {"marked"} \cup Active => marker[held[w]] = WorkerId[w]

\* A result the cache can replay is final: hash, submission and row say the
\* same, and the job is neither queued nor being requeued.
CachedIsFinal ==
    \A j \in Jobs : cache[j] # None =>
        /\ jobStatus[j] = cache[j] /\ submission[j] = cache[j]
        /\ row[j] # None /\ resolveStatus(row[j]) = cache[j]
        /\ ~Queued(j) /\ HandledBy(j) = {}

\* A job is tried at most MAX_RETRIES + 1 times, and enters the DLQ once, after
\* the last of them, for good.
RetriesBounded ==
    \A j \in Jobs :
        /\ Queued(j) \/ HeldBy(j) # {} => retryCount[j] <= MAX_RETRIES
        /\ dlq[j] <= 1
        /\ dlq[j] = 1 => /\ retryCount[j] = MAX_RETRIES + 1
                         /\ jobStatus[j] = "failed"
                         /\ ~Queued(j) /\ HeldBy(j) = {} /\ marker[j] = None

\* Redis and PostgreSQL agree on the status of a job that nobody is working on
\* and no watchdog task is about to.
StoresAgree ==
    \A j \in Jobs : Accepted(j) /\ AtRest(j) => jobStatus[j] = submission[j]

-----------------------------------------------------------------------------
(* The service the engine implements under these assumptions.              *)

\* A pass has read a marker of the job and may still requeue it, also when the
\* worker has released it since: a job that failed without a cached result is
\* not safe from that before the task is over.
Suspected(j) ==
    \E p \in Passes : task[p][j] \in {"ttl"} \cup BeforeStrip

\* A job that its task has decided to retry waits already.
Stage(j) ==
    IF ~Accepted(j) THEN "out"
    ELSE IF HeldBy(j) # {} THEN "taken"
    ELSE IF Queued(j) \/ \E p \in Passes : task[p][j] \in {"pgPending", "requeue"}
      THEN "waiting"
    ELSE IF cache[j] # None THEN "settled"
    ELSE IF marker[j] # None \/ HandledBy(j) # {} \/ Suspected(j) THEN "orphan"
    ELSE IF Terminal(j) THEN "settled"
    ELSE "lost"

Service == INSTANCE JobService WITH
    stage <- [j \in Jobs |-> Stage(j)],
    tries <- retryCount,
    answer <- [j \in Jobs |-> IF Stage(j) = "settled" THEN jobStatus[j] ELSE None]

\* Whatever worker dies at whatever await, each job goes through the life of
\* JobService: taken from the queue, retried only when its worker is
\* gone, given up after MAX_RETRIES, and never touched again once its result is
\* cached, or its marker released with a final status and no pass has read it
\* (worker/index.js:115-164, watchdog.js:25-91).
ImplementsService == Service!Spec

-----------------------------------------------------------------------------
(* Liveness, under FairSpec, while one worker keeps running and no dead one *)
(* is started again under its old id.                                      *)

\* Every accepted job ends up with a final status that stays, whatever dies
\* on the way, unless one of the windows above has lost it.
EventuallySettled ==
    \A j \in Jobs : <>[](Accepted(j) => Terminal(j) \/ Stranded(j))

\* No marker stays behind: exec:processing empties, so that the watchdog has
\* found and handled every job that a dead worker left.
MarkersCleared == \A j \in Jobs : <>[](marker[j] = None)

-----------------------------------------------------------------------------
(* What the repository says of the program, and the runs of the MC module  *)
(* that end in "violation" refute.                                         *)

\* docs/schema.sql:14 of submissions.status: pending -> running -> done |
\* failed | timeout.  A job that is done, or timed out, stays so.
StatusMovesForward ==
    [][\A j \in Jobs : submission[j] \in {"done", "timeout"} =>
                         submission'[j] = submission[j]]_vars

\* README.md:98: the watchdog "checks exec:result:{id} before re-queueing to
\* prevent double-execution".  No two running workers execute one job.
Executing(w, j) == at[w] = "execute" /\ held[w] = j
NoDoubleExecution ==
    \A j \in Jobs : Cardinality({w \in Workers : Executing(w, j)}) <= 1

\* README.md:102: "Worker drains in-flight jobs on SIGTERM/SIGINT".  A signal
\* alone loses no job.
NothingDropped == \A j \in Jobs : ~Stranded(j)

=============================================================================

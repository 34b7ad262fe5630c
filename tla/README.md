# The code execution engine in TLA+

A verification development for the engine in `src/`: a REST API queues code
snippets in Redis, worker processes take them off the queue, run them in Docker
sandboxes and record the results in PostgreSQL and Redis, and a watchdog brings
back the jobs of workers that died. Paths below are relative to `src/`.

## 1. Inventory

| Component | Source | State it keeps | Operations |
|---|---|---|---|
| Redis | `lib/redis.js`, `lib/redis-keys.js`, `worker/queue.js` | `exec:queue`, `exec:processing`, `exec:job:*`, `exec:result:*`, heartbeats, `exec:dlq`, metrics, token buckets, Pub/Sub channels; nothing on disk | one command at a time; a Lua script; MULTI |
| PostgreSQL | `lib/db.js`, `docs/schema.sql`, `worker/repository.js` | `submissions`, `execution_results` (one row per submission, by its primary key) | INSERT, UPDATE, one joined SELECT |
| Submission API | `api/routes/submit.js` | none | depth check, INSERT, HSET, LPUSH, 202/503/500 |
| Worker | `worker/index.js` | `draining`, `activeJob`, the heartbeat timer | the BRPOP loop, `processJob`, `shutdown` |
| Watchdog | `worker/watchdog.js` | the snapshot of a pass, one task per entry | `recoverOrphanedJobs`, on a timer |
| Executor | `worker/executor.js`, `lib/languages.js` | a source file, a container, a phase timer | `execute`, `executePhase` |
| Container manager | `worker/container-manager.js` | per container and per stream: `chunks`, `pending`, `multiplexed` | create, start, exec, demultiplex, kill, remove |
| Rate limiter | `lib/rate-limit.lua`, `lib/rate-limiter.js`, `api/middleware/rate-limit.js` | tokens and lastRefill per IP, with an expiry | `takeToken`, fails open |
| Live output | `api/websocket.js` | a subscriber and a `closed` flag per socket | subscribe, replay, forward, close |
| Status and result | `api/routes/status.js`, `api/routes/result.js` | none | HGET, SELECT |
| Page | `public/index.html` | active job, socket, poll interval, last data | submit, socket and poll callbacks, finalize |
| Metrics | `lib/metrics.js`, `api/routes/metrics.js` | counters in Redis | `recordDuration`, `renderDurationMetric` |

**Interaction.** The processes share nothing but the two stores. Each sends one
command per await, so any two processes interleave between any two commands, and
each may die between two of its own. A worker is three activities in one
process: its loop, its heartbeat timer and its signal handler, over one Redis
connection. A watchdog pass is one task per entry of `exec:processing`.

**What is hard, and what correctness means for each part.**

- *Taking a job* (`worker/index.js:117-122`): BRPOP and the marker are two
  commands. A job must not be in two places, and whoever has it must be known.
- *Finishing a job* (`:49-62`): four writes to two stores, the cache last. A
  result that is announced must be on record; a recorded one must stay.
- *Recovery* (`watchdog.js:51-88`): decisions on values read some awaits ago. No
  duplicates, no losses, a bounded number of retries, stores that agree.
- *Stopping* (`index.js:96-110`): a signal at any await, a grace period longer
  than the heartbeat's life.
- *Submitting* (`submit.js:45-69`): check-then-push, and a fixed order of writes
  so that a queued job always has its row.
- *Live output*: subscribe, replay and live messages race; the client must get
  exactly one final result. *Page*: callbacks of an earlier job.
- *Executor*: the timer against the end of the stream; cleanup on every path.
- *Rate limiter*: clocks of several API processes in one bucket.
- *Metrics*: readers between the increments of one observation.

`PROJECT.json` lists the hazards line by line.

## 2. Modules

| Module | Models | Extends |
|---|---|---|
| `Store` | the two stores, one operator per command, and their faults | |
| `Submit` | `POST /submit`, past validation | `Store` |
| `Worker` | the worker process: loop, heartbeat timer, SIGTERM handler, death, restart | `Store` |
| `Watchdog` | passes of `recoverOrphanedJobs` and their tasks | `Store` |
| `Engine` | the composition of the three, its fairness and its properties | the three |
| `JobService` | abstract: the life of a job as clients may rely on it | |
| `LiveOutput` | what is announced of a job, and the WebSocket handler | |
| `Page` | the page's run controller and the two routes it polls | `LiveOutput` |
| `RateLimiter` | the Lua script, the middleware, the clocks | |
| `Frames` | demultiplexing of output, as functions on byte sequences | |
| `Sandbox` | `execute` and the container it drives | `Frames` |
| `Metrics` | `recordDuration` beside `renderDurationMetric` | |
| `MCEngine`, `MCRateLimiter`, `MCSandbox`, `MCMetrics` | values of the constants for TLC (`Page` needs none) | |
| `EngineProofs` | proofs: types, `DoneBacked` | `Engine` |
| `PlaceProofs` | proofs: where a job is, whom it is marked for, that it has its row | `EngineProofs` |
| `RecoveryProofs` | proofs: retries, losses, final answers, one ticket per job | `PlaceProofs` |
| `ServiceProofs` | proofs: the two stores agree, `Engine` implements `JobService` | `RecoveryProofs` |
| `RateProofs`, `SandboxProofs`, `MetricsProofs`, `PageProofs` | proofs about the module of that name (`SandboxProofs` also about `Frames`) | `RateLimiter`, `Sandbox`, `Metrics`, `Page` |

The other components are not composed with it: the engine reads neither the
metrics nor the buckets nor the channels, and it uses the executor through one
call, of which `Worker`'s `Execute` and `ExecuteThrows` allow every outcome.
`LiveOutput` begins where `Engine` ends: its `Announce` steps are the orders in which
the worker and the watchdog write a job's row, status and cache and publish, with a
worker's death possible between any two of them.

### The engine

**State.** `queue`, `marker`, `jobStatus`, `payload`, `retryCount`, `cache`,
`heartbeat` and `dlq` are the Redis keys, field by field as far as control
depends on it; `submission` and `row` are the two tables. `aged` is the set of
markers older than `STALE_THRESHOLD_SECONDS`: clock readings are abstracted to
which side of the threshold they fall on. `request[j]`, `at[w]` and `task[p][j]`
are program counters: the await at which the handler, the loop or the task
stands. `held`, `outcome`, `owner` and `count` are local variables; `leaving[w]` is
where the shutdown handler stands.

**Actions.** An action is one awaited command and the code up to the next await.
Reads and their decisions are one action where the read value is not kept
(`Load`, `CheckResult`); a value that is kept across awaits is a variable
(`owner`, `count`). A task of the watchdog for an entry that is too young only
asks for a TTL and returns, and is left out. So are the metrics commands
(`recordDuration` at `index.js:45`), which change nothing the engine reads, and whose
failure is that of `ExecuteThrows`. `BRPOP`'s time-out is an action
only where it ends the loop; otherwise it changes nothing.

**Faults**, each with a budget (`Budget`, set per run): a worker process dies;
a PostgreSQL statement is answered with an error, executed or not; Redis restarts
empty; SIGTERM; a submit handler is cut off; the watchdog dies; an answer of Redis is
lost with the connection (`link`). A Redis outage in which no answer is lost is no
fault: the client is configured to wait (`lib/redis.js:8`), so it is a delay. When an
answer is lost ioredis sends the command again, without a limit, so that Redis executes
it twice: `AnswerLost` is the execution whose answer does not come, for every command
that changes data (`SubmitCommand`, `LoopCommand`, `TaskCommand`), and the process's
own action is the last one. A BRPOP executed for nobody takes its job all the same. Of
the MULTI that fills the dead letter queue `exec()` may also reject (`DeadLetterFails`).
`Restarts` says whether a dead worker is started again under its
id, `StallsPossible` whether a running worker can miss its heartbeats (a blocked
event loop, a partition), `DrainOutlivesHeartbeat` whether the grace period is
longer than the heartbeat's TTL (30 s against 15 s by default).

**Data.** Code and output are left out: a job with code is a member of `payload`,
and an outcome is its `timedOut` and `exitCode`, all that `resolveStatus` reads.

**The abstract service.** In `JobService` a job is out, waiting, taken, an orphan,
settled or lost; it is recovered at most `MAX_RETRIES` times and has an answer once
settled, for good. `Engine!Service` instantiates it: `Stage(j)` is read off the queue,
the workers, the tasks, the cache and the marker, `tries` is the retry count, the
answer is the hash's status. The mapping shows one thing that is not in the code's
comments: a pass acts on the markers it read at its start (`watchdog.js:26`, `:53`), so
a job whose marker has been released since is settled only if its result is cached
or no pass has it in view. A job that failed without a cached result may be queued
again. `Suspected` says which these are.

### Output and clients

`conn[j]` is the await at which the handler of a job's socket stands, `inbox` the
done message on the subscriber's connection, `wire` the one on the socket. SUBSCRIBE
(`Subscribed`), HGETALL (`ReadCache`), `Replay` and the message handler (`Forward`) are
actions of their own; `CloseConnection` sets the flag first, as the code does. The
page keeps `outputSocket` and `pollInterval`, the variables, apart from `socket` and
`ticking`, the sockets and intervals that really exist, because callbacks of an
earlier run clear whatever the variables hold by then. A poll callback stands at
one of its two fetches or between its decisions (`poll`). `gaveUp` and `robbed` are
histories of the current run: its callback saw a final status and then got no result;
the callback of another job cleared its interval.

### Rate limiter

One bucket. `inFlight[p]` are the stamps (`Date.now()`) of the scripts a process has
sent; they reach Redis in order, any time later, since `lib/redis.js:8` waits without a
limit. `late` counts the scripts that found a deleted bucket with a stamp by which it
would not have been full (`TooLate`). `Answer`, `AnswerLost` (the
script ran, ioredis sends it again) and `FailOpen` are what may become of one. Credit
is counted in fractions of a token, so that the script's division is exact; the
floats of Lua round in the 16th digit.

### Sandbox

`at[e]` is the await of `execute` or `executePhase`; the timer (`armed`) and its kill
(`kill`), which nobody awaits, move on their own beside it. `output` is what the
command prints and `got` how much has arrived: `Data` cuts it anywhere. `code` is None
until the command or the container ends. The stream may end before that, without an
error, when Docker closes its side (`StreamBreaks`); the command then goes on, and may
end before or after `Inspect` (`CommandEnds`). A failing write may leave part of the file.
`cut`, `sourced`, `guessed`, `deprived`, `stray` and `litter` are histories that the properties
name their exceptions with: the stream was cut, the file was there at the start, an exit
code was not found out, another execution deleted the file, Docker refused to remove or
to name the container, the file system refused to delete the file or to write it all.

### Metrics

Keys are numbered in the order of `recordDuration`. `at[w]` is the INCR a worker is
about to send, `reading` the GET the scrape is about to send. `begun[b]` is a history: how
many observations have begun that bucket `b` is to hold.

## 3. Runs

| Run | Question | Instance | Distinct states |
|---|---|---|---|
| `engine_crash` | is recovery exact while only workers die, and is it the abstract service? `TypeOK`, `OnePlace`, `WorkIsMarked`, `CachedIsFinal`, `RetriesBounded`, `StoresAgree`, `ImplementsService` | 2 jobs, 2 workers, 1 retry, queue limit 1, 2 crashes | 470,000 |
| `engine_faults` | what survives everything? `DoneBacked`, `OneTicket`, `GivenUpOnce` | 1 job, 2 workers under one id as the compose file starts them, stalls, 1 Redis restart, 1 lost answer | 1,070,000 |
| `engine_loss` | where can a job be lost, and what holds of it still? `LostOnlyInWindows`, `DoneBacked`, `JobsHaveRows` | 1 job, 2 workers, 1 crash without a restart, 1 failed statement, 1 SIGTERM, 1 handler cut off, 1 watchdog death, 1 lost answer | 970,000 |
| `engine_live` | does everything settle? `EventuallySettled`, `MarkersCleared` | 1 job, 3 workers, 2 crashes, 1 watchdog death | 15,000 |
| `clients` | is every client told once, of its own job? `TypeOK`, `DoneOnce`, `EventuallyTold`, `StaleOnlyFromPoll`, `RunEnds` | 2 runs of the page, 1 job that may end badly, 1 lost message, reply or connection, or 1 dead worker | 365,000 |
| `ratelimit` | is the bucket a bucket under skewed clocks and any delay? `TypeOK`, `RateBounded`, `ExpiryHarmless`, `RetryAfterSuffices` | 2 processes one tick apart, 3 tokens per 4 ticks, 10 ticks, 1 fault | 4,090,000 |
| `sandbox` | what may `execute` return, and what does it leave? `TypeOK`, `KillMeansTimeout`, `ResultHonest`, `UndefinedOnlyIfShared`, `CleanedUp`, `LiveIsRecord`, `LogsSplit`, `ExecutionEnds` | 2 executions of one job, one of which compiles, 1 failing call or broken stream | 637,000 |
| `metrics` | how wrong can an exposition be? `TypeOK`, `StoredCumulative`, `ScrapeSkewBounded`, `SumCoversCount`, `QuietScrapeExact` | 2 workers, 2 bounds, 3 observations, 2 scrapes, 1 death, 1 repeated command | 2,200,000 |
| `engine_regress` | refutes `StatusMovesForward` | 1 crash | |
| `engine_drain` | refutes `NothingDropped` | 1 SIGTERM | |
| `engine_overtaken` | refutes `NoDoubleExecution` | 1 SIGTERM | |
| `engine_sharedid` | refutes `EventuallySettled` for replicas that share an id | 1 crash | |

**Bounds, engine.** Two jobs make the queue, the limit and the watchdog's concurrent
tasks matter; the jobs do not otherwise interact, and the runs with more kinds of
fault use one. `engine_faults` is after overlapping executions of one job with
different outcomes; a heartbeat that lapses under a running worker makes them, so it
has no crashes, and it leaves failed statements and the death of a handler or of the
watchdog to `engine_loss`, where a dead worker stays dead, as the other one goes on.
Each lost answer counts once in the bounds of `OneTicket` and `GivenUpOnce`, so one shows
what it does. With two workers one can die, be overtaken or drain while the other
runs the same job. One retry and two crashes reach the last retry and the dead
letter queue; the retry limit itself only counts. One pass at a time is an
assumption of `engine_crash` (section 6), not only a bound. `SYMMETRY` is used for
safety only. Deadlock is not checked in any run: when every job is settled and the
bounds are spent the system is idle, a state the real one may stay in.

**Bounds, the rest.**

- `clients`: two runs are enough for a callback of an earlier one. `Rough` names the jobs
  that may end without a done message, `MaxFaults` counts failures of any kind, one
  callback of an interval is under way at a time (a fetch that takes longer than the
  poll interval), and `Patient` excludes Ctrl+Enter during a POST, which is a hazard of
  its own that no property covers.
- `ratelimit`: 10 ticks let a bucket run dry, be denied, refill, be deleted after its 8
  ticks and be used again, and let a script be older than the bucket's life. `MaxRegress`
  caps how far `lastRefill` is set back, the allowance in `RateBounded`. That delay and skew
  fit into one window, for which the time to live of two is made, is a condition of
  `ExpiryHarmless`, for the script in question, and no assumption.
- `sandbox`: headers of three bytes with a size of one byte instead of eight with four;
  texts that are shorter than a header, that have a CR LF at every place of a cut, and
  frames of both streams. One failing call at each place of the code.
- `metrics`: two finite buckets make an order between buckets, three observations exceed
  the two workers, so that one is over when a scrape begins.

**Properties under assumptions.** `DoneBacked` and `JobsHaveRows` hold whatever
fails, `OneTicket` and `GivenUpOnce` whatever fails while passes do not overlap: several
workers may execute a job, but each was given it after the one before, and their number
is bounded. Both count the answers that were lost: each may add one ticket, because an
LPUSH sent twice makes two entries. `LostOnlyInWindows` needs Redis to keep its data,
running workers to keep their heartbeats, and no answer to have been lost before; it then
says exactly at which steps a job can vanish: before its marker is written, after an
error of `index.js:35` or `:138`, between the watchdog's HDEL and LPUSH, and by a BRPOP
whose answer is lost. The properties of `engine_crash` are
the protocol's own promise and hold while heartbeats are kept, nobody is told to
stop, passes do not overlap and the stores do not fail (section 5 says which of them needs
what); the violation runs drop assumptions one at a time. Where a property of the other
modules has an exception (`unsaid`, `gaveUp`, `robbed`, `cut`, `guessed`, `deprived`, `stray`,
`litter`, `regress`, `late`, `overlap`), the code really behaves so in that case: without the exception TLC
refutes the property.

**Fairness.** In the engine, weak fairness of every process's next step, because each
await is answered (execution is killed at its time-out, BRPOP returns within a
second), of the timers (heartbeat, expiry, the watchdog's interval) and of the
markers' age. None for faults, nor for restarting a dead worker. The liveness run
leaves one of three workers running, and `EventuallySettled` excepts the jobs lost in a
window. In `Page`, weak fairness of the reply to a submission, the handler, the messages
and each job's polling; none for pressing the button, for faults, nor for what the worker
and the watchdog do: a job may be lost or its worker die, and the page then polls for
ever. `RunEnds` and `EventuallyTold` begin where everything is said of the job. In `Sandbox`, of
Docker's answers, the timer and the kill's arrival; not of the command, which may
run for ever: that it ends nevertheless is what `ExecutionEnds` is about.

## 4. What the violation runs show

1. `engine_regress`. The worker writes the row, `submissions`, the hash and then
   the cache; the watchdog looks at the cache only (`watchdog.js:55`). A death before
   `index.js:52` makes it requeue a finished job: `submissions.status` goes from
   done back to pending, and ends as failed, because the second INSERT meets the
   primary key. `docs/schema.sql:14` has the status move forward only.
2. `engine_drain`. `if (draining) break` (`index.js:119`) follows BRPOP: the popped
   job is in no list. `README.md:102` promises draining of in-flight jobs.
3. `engine_overtaken`. `shutdown` stops the heartbeat (`index.js:99`) and waits up to
   30 s; the key lives 15 s. The watchdog requeues a job that is being executed.
   `README.md:98` names prevention of double execution.
4. `engine_sharedid`. `docker-compose.yml:36` gives three replicas one `WORKER_ID`; the
   heartbeat of the living hides the death of another for ever. A worker started
   again under its old id (`lib/config.js:40` and `restart: unless-stopped`)
   has the same effect. `README.md:98` has the watchdog detect crashed workers.

The model shows one more, which no run is kept for. Without its exception `gaveUp`, TLC
refutes `RunEnds`: a poll callback clears its interval when it sees a final status, and
asks for the result once (`public/index.html:1713-1722`); the watchdog says failed before
it inserts the row (`watchdog.js:67`, `:80`), so that a callback in between gets 404, and
nothing asks again. The page's comments (`index.html:1697`, `:1725`) have polling give the
result when the socket does not, and go on.

## 5. What is proved

Every invariant and every action property of the passing runs, and the refinement, for every value of the constants: any set of jobs, workers, ids, passes, API
processes, executions and buckets, every limit and every budget of faults. The
assumptions are the named `ASSUME`s of the modules (limits and bounds are naturals,
outcomes are records that include the fallback, outputs are sequences of bytes or of
frames of bytes, a header has at least two bytes, `None` is
none of the values, the metrics' workers are finitely
many) and, for the recovery protocol, what the theorems name as hypotheses.

### Whatever fails

- `EngineProofs!TypeCorrect`: `Spec => []TypeOK`. `TypeOK` is not inductive: that a
  status written for `held[w]` falls on a job needs `held[w] # None` where the loop
  stands at a step that works on a job, and likewise an outcome where one is being
  recorded. `HandsOK` says so, and `TypeInv == TypeOK /\ HandsOK` is inductive. One lemma
  per store command, then one step per action.
- `EngineProofs!DoneIsBacked`: `Spec => []DoneBacked`. A worker about to announce must
  know that the row is its own outcome: `RecordOK` adds it for the steps between
  the INSERT and the cache. Every step is then *honest*: it keeps the rows that
  exist, and it changes a status only to one that promises no result or to
  that of the row. Overlapping passes and executions need no case of their own: the
  primary key settles them.
- `PlaceProofs!RowsThere`: `Spec => []JobsHaveRows`. `POST /submit` writes the row first,
  and no step makes a row absent; a job gets into a queue, a hand or the in-flight map
  only out of one of these places or from the handler that has written it.

### The recovery protocol

`RecoveryAssumed` is what the protocol takes for granted: passes do not overlap, Redis
keeps its data and its answers arrive, a running worker keeps its heartbeat until a shutdown deletes it, and
either stopping is safe (`StopsSafely`: ids are distinct and the grace period is
shorter than the heartbeat's life) or nobody is told to stop. Workers, handlers and the
watchdog may die at any step, and PostgreSQL may fail. The replicas of
`docker-compose.yml`, which share an id, satisfy it until one of them gets a signal:
sharing an id delays recovery, which `engine_sharedid` shows, and loses or duplicates
nothing. The run `engine_crash` is an instance, and so is `engine_loss` without its lost
answer. No clause can be dropped: in `engine_loss` with overlapping passes, missed
heartbeats, signals to workers that share an id, or a grace period that outlives the
heartbeat, TLC refutes `LostOnlyInWindows`, and, without the lost answer, `OnePlace`;
the lost answer alone refutes `OnePlace`.

Where it does not hold, `OneTicket` and `GivenUpOnce` are what is left, and they need
one of its clauses only, that passes do not overlap; answers of Redis may be lost, and are
counted. With two passes at a time TLC refutes both: HDEL's answer is not looked at, so
that one marker makes two entries.

| Theorem | Hypotheses | Property |
|---|---|---|
| `PlaceProofs!OnePlaceHolds` | `RecoveryAssumed` | `OnePlace` |
| `PlaceProofs!WorkMarked` | and no signals | `WorkIsMarked` |
| `RecoveryProofs!RetriesAreBounded` | `RecoveryAssumed` | `RetriesBounded` |
| `RecoveryProofs!TicketIsUnique` | passes do not overlap | `OneTicket` |
| `RecoveryProofs!GivenUpForGood` | passes do not overlap | `GivenUpOnce` |
| `RecoveryProofs!LossWindows` | `RecoveryAssumed` | `LostOnlyInWindows` |
| `RecoveryProofs!CachedStaysFinal` | and no signals | `CachedIsFinal` |
| `ServiceProofs!StoresDoAgree` | `StoresAssumed`: and no signals, no failed statement, no death of the watchdog | `StoresAgree` |
| `ServiceProofs!EngineIsService` | `StoresAssumed` | `ImplementsService` |

The argument goes job by job. A step concerns one job, and leaves every other the `Same`;
a step that is not about any job may still make a task forget one (`Kept`). Each layer
says of one job, at each await of whoever has it, what the next layer needs:

- `Placed` (`PlaceProofs`): which places exclude each other. A job in the queue is nowhere
  else; a job in a worker's hands carries that worker's marker from `Claim` to
  `Release`, and no task of the watchdog has gone past its owner's heartbeat with it. For
  the last, `World` adds that a running worker has a heartbeat. `OnePlace` alone is not
  inductive: it does not say whose the marker is.
- `Retry` and `Answered` (`RecoveryProofs`): the count a task holds is one more than the
  hash's, so that no attempt is counted twice or missed; a job with a cached
  result is in no list, and whoever still has it only releases or clears it.
  `OnRecord` adds that whoever is about to cache has written the other places before.
- `Ledger` (`RecoveryProofs`) stands by itself: it is a count. `Tokens` counts the ways in
  which a job can still be given to a worker: its queue entries, the hands that have not
  marked it, its marker or the task that looks at it, the task that deleted the marker,
  the request that has yet to queue it. `Ledger` bounds them, with the dead letter
  queue, by one and the answers lost; and with the retries by `MAX_RETRIES + 1` and the
  answers lost. Each step is shown to be `Booked`: it does not add to the tokens, but for an
  execution whose answer is lost (`LostGrows`), and a retry is written by a task that
  has read the count before it. Nothing is said of who executes the job.
- `Agree` (`ServiceProofs`): which of the two statuses has been written so far. It is
  what makes `StoresAgree` true at the moment a job is put down.
- The refinement: `StageTable` derives the stage of a job from the place it is in,
  `Settling` says which jobs a pass can no longer take up again, and `OneTurn` shows of
  each step that it turns the stage of one job as `JobService` allows (`Turn`) or of none
  (`Quiet`).

### The other components

- `RateProofs`: `RateTypeCorrect`, `RateIsBounded`, `DeletionIsHarmless` and
  `RetryAfterIsEnough`, all from one inductive invariant. `RateInv` adds to the type that
  no stamp is ahead of its clock (`Stamped`); that the credit in the bucket and what was
  taken from it came from the first bucket, from time that was credited or from a bucket
  that a late script began (`Accounted`); that the key outlives `lastRefill` by nearly two
  windows (`Recent`); and that the bucket holds a token at the promised moment
  (`PromiseKept`). For a script whose delay and the skew fit into one window, a bucket
  Redis has deleted is one that time has filled
  (`DeletedIsFull`); no other script is promised that, and each is counted (`late`). Products are handled by two lemmas on monotony and distribution; the
  rest is linear.
- `SandboxProofs`: `ExecutionTypeCorrect`, `KillIsTimeout`, `ResultsAreHonest`,
  `UndefinedIsShared`, `CleanupIsComplete`, `LiveMatchesRecord`, `LogsAreSplit`.
  `Clock` ties kill, timer and container together: a kill was sent if and only if this phase's timer has fired, because a
  phase is left for the next one only in time. `Ended` says of a stream that is
  over that it was read to its end, that the kill ended it, or that Docker cut it. Executions meet only in
  `Shared`: the source file of one at work is there unless another deleted it, and
  one that is there is somebody's to delete.
  The last two are about what the functions of `Frames` compute, for outputs and frames of
  any length. `Induction` is proved for sets, from the well-foundedness of `<`, so that a
  proof by induction is one about the set of lengths for which the claim holds.
  `FlattenSeq` and `FramesOf` choose recursive functions: each is shown to exist, and then
  used through its equation only. From these follow that what is kept of two texts together
  is what is kept of either, that the frames of a framed buffer are the frames it was
  made of, and that normalising twice, or in pieces, is the same but for carriage
  returns and NULs. `Outputs` then says, of each execution, what has arrived, that a text without
  frames was decided to be text from its first header on, and that the published text
  is the text that has arrived, but for the same.
- `MetricsProofs`: `HistogramTypeCorrect`, `StoredIsCumulative`, `SkewIsBounded`,
  `SumIsAhead`, `QuietScrapeIsExact`. Two keys differ by the workers between them
  (`Summed`, `Owed`, `Due`, `Between`); a step moves one worker, so that one lemma on sets
  that differ in one element (`Recount`) gives every count after it. `Exposed` relates
  what a scrape has read to what it is still to read (`Seen`); `Disturbs` is all it needs
  to know of a worker's step. `Undisturbed` is the exact case.
- `PageProofs`: `PageTypeCorrect`, `DoneIsSaidOnce`, `StaleComesFromPoll` (under `Patient`).
  A connection that has said done is closed, and a closed one is past every await that
  could say it again (`ConnOK`). A socket that can still call back is the one in
  `outputSocket` and belongs to the last run (`SocketOK`): a socket opens only for the run
  that is asked for, which has closed the one before.

Only model-checked: liveness (`EventuallySettled`, `MarkersCleared`, `EventuallyTold`,
`RunEnds`, `ExecutionEnds`), which the prover cannot do under fairness.

## 6. Not modelled

- The record that does not parse (`watchdog.js:34-49`): only workers write records.
- Overlap of watchdog passes in the runs: `Passes` allows it, but the runs use one pass,
  since two need stores slower than the 5 s interval and have too many states. The theorems
  that do not ask for a single pass cover it; with two, `OnePlace`, `OneTicket` and
  `GivenUpOnce` are not claimed (both passes read the marker, and HDEL's answer is not
  looked at).
- How far concurrent submissions overshoot `MAX_QUEUE_DEPTH`: by as many as are under way,
  which nothing in the code limits.
- Order and content of live output messages: they pass through `LiveOutput` on the same
  path as the done message and change nothing there. Characters of more than one byte.
- `waitForContainer` and `getContainerLogs`, which nothing calls; `npm`'s and Docker's own
  behaviour beyond the answers they give.
- The gauges of `/metrics`: each is set from a read of the same request.
- API validation, authentication, request ids, static files, logging, the parsing of the
  environment, `init-db.js`: one request or one start, no state that others see.
- Rejections in the handlers of the read-only routes, which end the API process: it keeps
  no state but its sockets, whose loss is `SocketFails` in `Page`.

## 7. Plan

What is left, in this order:

1. Action properties the invariants give for little: that an answer in the cache never
   changes while the job is known, and that `retryCount` moves by one.
2. Framed output of `publishFrames`, which the code never asks of it (only the run phase
   is published, and that has a TTY): what is published of a framed stream is the payloads
   of its frames so far.
3. What two overlapping passes can do at most: how many entries one marker becomes.

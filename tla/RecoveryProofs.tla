---------------------------- MODULE RecoveryProofs --------------------------
(***************************************************************************)
(* What becomes of a job: how often it is retried, when it is given up,    *)
(* and that an answer, once it can be replayed, is final.                  *)
(*                                                                         *)
(* Retry ties the attempts counted in the hash to the task that is about   *)
(* to count one more and to the dead letter queue; Answered says where a   *)
(* job with a cached result can still be, and what its worker has written  *)
(* by then.  Both rest on Placed: who has a job in hand is alone with it.  *)
(* The last part needs none of this, and lets answers of Redis be lost: it *)
(* counts what can still give a job to a worker.                           *)
(***************************************************************************)
EXTENDS PlaceProofs

Retry(j) ==
    /\ dlq[j] <= 1
    /\ dlq[j] = 1 => /\ retryCount[j] = MAX_RETRIES + 1
                     /\ jobStatus[j] = "failed"
                     /\ Accepted(j) /\ ~Queued(j) /\ Unheld(j) /\ marker[j] = None
                     /\ \A p \in Passes : task[p][j] \in {"idle"} \cup AfterDlq
    /\ dlq[j] = 0 => retryCount[j] <= MAX_RETRIES
    /\ \A p \in Passes :
         /\ task[p][j] \in {"strip", "decide"} => count[p][j] = retryCount[j] + 1
         /\ task[p][j] \in AfterDlq => dlq[j] = 1

\* A worker is here after it has written a final status to the job's hash.
Written == {"cacheResult", "pgFailed", "release"}

Answered(j) ==
    /\ cache[j] # None =>
         /\ jobStatus[j] = cache[j] /\ Accepted(j) /\ ~Queued(j)
         /\ \A w \in Workers : Has(w, j) => at[w] = "release"
         /\ \A p \in Passes : task[p][j] \in {"idle", "ttl", "exists", "clear"}
    /\ \A w \in Workers : Has(w, j) =>
         /\ at[w] \in Written => Terminal(j)
         /\ at[w] = "cacheResult" => jobStatus[j] = resolveStatus(outcome[w])
    /\ \A p \in Passes : task[p][j] = "clear" => cache[j] # None

RecoveryInv == PlaceInv /\ \A j \in Jobs : Retry(j) /\ Answered(j)

LEMMA RetryKept ==
    ASSUME NEW j \in Jobs, Retry(j), Kept(j)
    PROVE  Retry(j)'
<1> USE DEF Retry, Kept, DataSame, HandsSame, Accepted, Unheld, AfterDlq
<1>1. CASE TasksSame(j)
  BY <1>1 DEF TasksSame
<1>2. CASE Forgotten(j)
  BY <1>2 DEF Forgotten
<1> QED
  BY <1>1, <1>2

LEMMA AnsweredKept ==
    ASSUME NEW j \in Jobs, Answered(j), Kept(j)
    PROVE  Answered(j)'
<1> USE DEF Answered, Kept, DataSame, HandsSame, Accepted, Has, Terminal
<1>1. CASE TasksSame(j)
  BY <1>1 DEF TasksSame
<1>2. CASE Forgotten(j)
  BY <1>2 DEF Forgotten
<1> QED
  BY <1>1, <1>2

-----------------------------------------------------------------------------
(* Submit handlers.                                                        *)

LEMMA ApiEffect ==
    ASSUME TypeInv, NEW i \in Jobs, ApiStep(i)
    PROVE  /\ request[i] # "queued"
           /\ UNCHANGED <<marker, cache, dlq, held, at, outcome, leaving, task, owner,
                          count>>
           /\ retryCount'[i] \in {retryCount[i], 0}
<1> USE DEF TypeInv, TypeOK, StoreTypeOK, DataTypeOK, SubmitTypeOK, InFlight, ApiStep,
            workerVars, watchVars, Advance, PgFails, storeVars, dataVars, redisVars,
            pgVars, hashVars
<1>1. CASE Admit(i) \/ Reject(i) \/ HandlerDies(i)
  BY <1>1 DEF Admit, Reject, HandlerDies
<1>2. CASE InsertSubmission(i) \/ InsertSubmissionFails(i)
  BY <1>2 DEF InsertSubmission, InsertSubmissionFails, CreateSubmission
<1>3. CASE StoreJob(i) \/ EnqueueJob(i)
  BY <1>3 DEF StoreJob, EnqueueJob, SetJob, Enqueue
<1> QED
  BY <1>1, <1>2, <1>3 DEF SubmitNext, SubmitProgress

LEMMA ApiRecovery ==
    ASSUME RecoveryInv, NEW i \in Jobs, ApiStep(i)
    PROVE  Retry(i)' /\ Answered(i)'
<1>0. /\ Placed(i) /\ Retry(i) /\ Answered(i) /\ TypeInv
      /\ dlq[i] \in Nat /\ ~Accepted(i)
  BY ApiEffect DEF RecoveryInv, PlaceInv, TypeInv, TypeOK, StoreTypeOK, DataTypeOK,
     Accepted
<1>1. /\ dlq[i] = 0 /\ cache[i] = None /\ Unheld(i) /\ Untouched(i)
  BY <1>0 DEF Placed, Retry, Answered
<1>2. /\ dlq'[i] = 0 /\ cache'[i] = None /\ Untouched(i)'
      /\ \A w \in Workers : ~Has(w, i)'
      /\ retryCount'[i] <= MAX_RETRIES
  BY <1>0, <1>1, ApiEffect, RetriesAssumption DEF Retry, Unheld, Untouched, Has,
     Connected
<1> QED
  BY <1>2 DEF Retry, Answered, Untouched, AfterDlq

-----------------------------------------------------------------------------
(* Workers.                                                                *)

LEMMA PopTakes ==
    ASSUME TypeInv, NEW w \in Workers, NEW j \in Jobs, Pop(w, j)
    PROVE  Queued(j)
BY DequeueQueued DEF Pop, TypeInv, TypeOK, StoreTypeOK, DataTypeOK

\* Nothing but BRPOP puts a job in a worker's hands.
LEMMA PopOnly ==
    ASSUME TypeInv, NEW w \in Workers, WorkerNext(w), NEW j \in Jobs,
           held[w] # j, held'[w] = j
    PROVE  Pop(w, j)
<1>0. j # None
  BY NoneAssumption
<1>1. ~Work(w)
  BY WorkMoves
<1> QED
  BY <1>0, <1>1, LoopSplit DEF Pop, PollEnds, Drop, Claim, RedisStep, Release,
     Unwind, Beat, Sigterm, DrainEnds, Exit, Crash, Start, Halt, workerVars,
     TypeInv, TypeOK, WorkerTypeOK

\* After QUIT, and without the job, a worker does nothing to it in Redis.
LEMMA Powerless ==
    ASSUME PlaceInv, NEW w \in Workers, WorkerStep(w), NEW j \in Jobs,
           ~Has(w, j), ~Pop(w, j)
    PROVE  /\ Queued(j)' <=> Queued(j)
           /\ \A v \in Workers : Has(v, j)' <=> Has(v, j)
           /\ marker'[j] = marker[j] /\ jobStatus'[j] = jobStatus[j]
           /\ cache'[j] = cache[j]
<1>0. /\ TypeInv /\ NoRepeat /\ WorkerNext(w) /\ j # None
      /\ (at[w] \in HandsFree => held[w] = None) /\ at[w] \notin Missing
  BY NoneAssumption DEF WorkerStep, PlaceInv, World, WorkerOK
<1>1. CASE held[w] # j /\ held'[w] # j
  <2>1. Same(j)
    BY <1>0, <1>1, WorkerSame
  <2> QED
    BY <2>1 DEF Same, DataSame, HandsSame
<1>2. CASE held[w] # j /\ held'[w] = j
  BY <1>0, <1>2, PopOnly
<1>3. CASE held[w] = j
  <2>0. ~Connected(w)
    BY <1>3 DEF Has
  <2>1. UNCHANGED <<queue, marker, jobStatus, cache>>
    <3> USE <2>0, <1>0 DEF RedisStep, storeVars, dataVars, redisVars, PgFails, PgStep, Go
    <3>1. CASE Work(w)
      <4>1. CASE RunJob(w) \/ Load(w)
        BY <4>1 DEF RunJob, Load, SetRunning, PgRunning, ExecuteThrows, Execute,
           InsertResult, InsertDuplicate, PgFinal, SetFinal, CacheResult,
           UpdateSubmission, InsertRow
      <4>2. CASE PgFaultStep(w)
        BY <4>2 DEF PgFaultStep, FallbackInsertFails, FallbackPgFails, PgRunningFails,
           InsertResultFails, PgFinalFails, PgFailedFails, UpdateSubmission, InsertRow
      <4>3. CASE ~RunJob(w) /\ ~Load(w) /\ ~PgFaultStep(w)
        BY <3>1, <4>3 DEF Work, FallbackInsert, FallbackPg, FallbackSet, FallbackCache,
           SetFailed, PgFailed, UpdateSubmission, InsertRow
      <4> QED
        BY <4>1, <4>2, <4>3
    <3>2. CASE ~Work(w)
      BY <3>2, LoopSplit DEF Pop, PollEnds, Drop, Claim, Release, Unwind, Beat, Sigterm,
         DrainEnds, Exit, Crash, Start, SetHeartbeats, hashVars
    <3> QED
      BY <3>1, <3>2
  <2>2. ~Has(w, j)'
    <3>1. CASE Work(w)
      BY <1>0, <2>0, <3>1, WorkMoves DEF Has, Connected
    <3>2. CASE ~Work(w)
      BY <1>0, <1>3, <2>0, <3>2, LoopSplit DEF Pop, PollEnds, Drop, Claim, RedisStep,
         Release, Unwind, Beat, Sigterm, DrainEnds, Exit, Crash, Start, Halt, Go,
         workerVars, Has, Connected, HandsFree, TypeInv, TypeOK, WorkerTypeOK
    <3> QED
      BY <3>1, <3>2
  <2> QED
    BY <1>0, <2>1, <2>2, WorkerAlone DEF Has, Connected, Queued, Occurrences
<1> QED
  BY <1>1, <1>2, <1>3

LEMMA WorkerCounts ==
    ASSUME TypeInv, NEW w \in Workers, WorkerStep(w)
    PROVE  UNCHANGED <<retryCount, dlq, request, task, owner, count>>
<1>1. UNCHANGED <<request, task, owner, count>> /\ WorkerNext(w)
  BY DEF WorkerStep, submitVars, watchVars
<1>2. CASE Work(w)
  BY <1>1, <1>2, WorkMoves
<1>3. CASE ~Work(w)
  BY <1>1, <1>3, LoopSplit DEF Pop, PollEnds, Drop, Claim, Release, Unwind, Beat,
     Sigterm, DrainEnds, Exit, Crash, Start, Dequeue, SetMarker, ClearMarker,
     SetHeartbeats, hashVars, storeVars, dataVars, redisVars
<1> QED
  BY <1>2, <1>3

LEMMA WorkerRetry ==
    ASSUME RecoveryInv, NEW w \in Workers, WorkerStep(w), NEW j \in Jobs
    PROVE  Retry(j)'
<1>0. /\ Retry(j) /\ PlaceInv /\ TypeInv
      /\ UNCHANGED <<retryCount, dlq, request, task, owner, count>>
  BY WorkerCounts DEF RecoveryInv, PlaceInv
<1>1. CASE dlq[j] # 1
  BY <1>0, <1>1 DEF Retry
<1>2. CASE dlq[j] = 1
  <2>1. ~Has(w, j) /\ ~Queued(j) /\ ~Pop(w, j)
    BY <1>0, <1>2, PopTakes DEF Retry, Unheld
  <2> QED
    BY <1>0, <1>2, <2>1, Powerless DEF Retry, Unheld, Accepted
<1> QED
  BY <1>1, <1>2

\* The steps of Work that write a final status, or come after one.
Writing(w) ==
    \/ SetRunning(w) \/ PgFinal(w) \/ SetFinal(w) \/ CacheResult(w)
    \/ SetFailed(w) \/ PgFailed(w) \/ PgFailedFails(w)

LEMMA PlainWork ==
    ASSUME TypeInv, NEW w \in Workers, Work(w), ~Writing(w), at[w] \notin Missing
    PROVE  /\ jobStatus' = jobStatus /\ cache' = cache
           /\ at'[w] \in {"loaded", "missing", "execute", "insertResult", "pgFinal",
                          "setFailed", "unwind"}
<1> USE DEF TypeInv, TypeOK, WorkerTypeOK, Missing, Go, RedisStep, PgStep, PgFails,
            storeVars, dataVars, redisVars, UpdateSubmission, InsertRow
<1>1. CASE Load(w)
  BY <1>1 DEF Load
<1>2. CASE RunJob(w)
  BY <1>2 DEF RunJob, Writing, PgRunning, ExecuteThrows, Execute, InsertResult,
     InsertDuplicate
<1>3. CASE PgFaultStep(w)
  BY <1>3 DEF PgFaultStep, Writing, FallbackInsertFails, FallbackPgFails,
     PgRunningFails, InsertResultFails, PgFinalFails
<1> QED
  BY <1>1, <1>2, <1>3 DEF Work, Writing, FallbackInsert, FallbackPg, FallbackSet,
     FallbackCache

\* What those write, by where the worker stands.
LEMMA WritingEffect ==
    ASSUME TypeInv, NEW w \in Workers, NEW j \in Jobs, held[w] = j, Writing(w)
    PROVE  \/ /\ SetRunning(w) /\ at'[w] = "running"
              /\ cache' = cache /\ at[w] = "loaded"
           \/ /\ PgFinal(w) /\ at'[w] = "setFinal"
              /\ jobStatus' = jobStatus /\ cache' = cache
           \/ /\ at[w] = "setFinal" /\ at'[w] = "cacheResult"
              /\ outcome[w] \in Outcomes /\ outcome' = outcome
              /\ jobStatus'[j] = resolveStatus(outcome[w]) /\ cache' = cache
           \/ /\ at[w] = "cacheResult" /\ at'[w] = "release" /\ outcome' = outcome
              /\ jobStatus' = jobStatus /\ cache'[j] = resolveStatus(outcome[w])
           \/ /\ at[w] = "setFailed" /\ at'[w] = "pgFailed"
              /\ jobStatus'[j] = "failed" /\ cache' = cache
           \/ /\ at[w] = "pgFailed" /\ at'[w] = "release"
              /\ jobStatus' = jobStatus /\ cache' = cache
<1> USE DEF TypeInv, TypeOK, StoreTypeOK, DataTypeOK, WorkerTypeOK, Go, RedisStep,
            PgStep, PgFails, storeVars, dataVars, redisVars, pgVars
<1>1. CASE SetRunning(w)
  BY <1>1 DEF SetRunning, SetStatus
<1>2. CASE PgFinal(w)
  BY <1>2 DEF PgFinal, UpdateSubmission
<1>3. CASE SetFinal(w)
  BY <1>3 DEF SetFinal, SetStatus, HandsOK, Recording
<1>4. CASE CacheResult(w)
  BY <1>4 DEF CacheResult, SetResult, hashVars
<1>5. CASE SetFailed(w)
  BY <1>5 DEF SetFailed, SetStatus
<1>6. CASE PgFailed(w) \/ PgFailedFails(w)
  BY <1>6 DEF PgFailed, PgFailedFails, UpdateSubmission
<1> QED
  BY <1>1, <1>2, <1>3, <1>4, <1>5, <1>6 DEF Writing

LEMMA WorkAnswered ==
    ASSUME RecoveryInv, NEW w \in Workers, WorkerStep(w), Work(w),
           NEW j \in Jobs, Has(w, j)
    PROVE  Answered(j)'
<1>0. /\ Answered(j) /\ TypeInv /\ PlaceInv /\ Placed(j) /\ WorkerNext(w)
      /\ at[w] \notin Missing /\ held[w] = j /\ "failed" \in Final
      /\ UNCHANGED <<request, task, owner, held, leaving, queue>>
      /\ at[w] \in {"marked"} \cup Active
  BY WorkMoves, WorkerCounts DEF RecoveryInv, PlaceInv, World, WorkerOK, Has, Final,
     WorkerStep
<1>1. /\ Has(w, j)' /\ ~Queued(j)' /\ Accepted(j)'
      /\ \A v \in Workers : Has(v, j)' => v = w
      /\ \A p \in Passes : task'[p][j] \in {"idle", "ttl"}
  BY <1>0 DEF Has, Connected, Placed, Accepted, Queued, Occurrences, Unheld, Active,
     BeforeResult, Recording, Missing, Failing, Releasing
<1>2. at[w] # "release"
  BY <1>0 DEF Work, Load, RunJob, SetRunning, PgRunning, ExecuteThrows, Execute,
     InsertResult, InsertDuplicate, PgFinal, SetFinal, CacheResult, PgFaultStep,
     FallbackInsertFails, FallbackPgFails, PgRunningFails, InsertResultFails,
     PgFinalFails, PgFailedFails, FallbackInsert, FallbackPg, FallbackSet,
     FallbackCache, SetFailed, PgFailed, RedisStep, PgStep, Go
<1>3. cache[j] = None
  BY <1>0, <1>2 DEF Answered
<1>4. SUFFICES /\ cache'[j] # None => jobStatus'[j] = cache'[j] /\ at'[w] = "release"
               /\ at'[w] \in Written => jobStatus'[j] \in Final
               /\ at'[w] = "cacheResult" => jobStatus'[j] = resolveStatus(outcome'[w])
  BY <1>1 DEF Answered, Terminal
<1>5. CASE ~Writing(w)
  BY <1>0, <1>3, <1>5, PlainWork DEF Written
<1>6. CASE Writing(w)
  BY <1>0, <1>3, <1>6, WritingEffect, ResolveType DEF Written, Answered, Terminal
<1> QED
  BY <1>5, <1>6

LEMMA WorkerAnswered ==
    ASSUME RecoveryInv, NEW w \in Workers, WorkerStep(w), NEW j \in Jobs
    PROVE  Answered(j)'
<1>0. /\ Answered(j) /\ TypeInv /\ NoRepeat /\ PlaceInv /\ Placed(j) /\ WorkerNext(w)
      /\ j # None /\ (at[w] \in HandsFree => held[w] = None)
      /\ UNCHANGED <<request, task, owner>>
  BY NoneAssumption, WorkerCounts DEF RecoveryInv, PlaceInv, World, WorkerOK, WorkerStep
<1>1. CASE held[w] # j /\ held'[w] # j
  BY <1>0, <1>1, WorkerSame, SameKept, AnsweredKept
<1>2. CASE Work(w) /\ Has(w, j)
  BY <1>2, WorkAnswered
<1>3. ASSUME Pop(w, j)
      PROVE  Answered(j)'
  <2>1. Queued(j) /\ cache[j] = None /\ Unheld(j) /\ Untouched(j)
    BY <1>0, <1>3, DequeueQueued
       DEF Pop, Answered, Placed, TypeInv, TypeOK, StoreTypeOK, DataTypeOK
  <2>2. /\ cache' = cache /\ at'[w] = "popped" /\ leaving' = leaving
        /\ \A v \in Workers : v # w => held'[v] = held[v]
    BY <1>0, <1>3 DEF Pop, Go, Dequeue, TypeInv, TypeOK, WorkerTypeOK
  <2>3. \A v \in Workers : Has(v, j)' => v = w
    BY <2>1, <2>2 DEF Unheld, Has, Connected
  <2> QED
    BY <1>0, <2>1, <2>2, <2>3 DEF Answered, Untouched, Written
<1>4. ASSUME UNCHANGED <<cache, jobStatus>>, Queued(j)' => Queued(j),
             \A v \in Workers : Has(v, j)' =>
                 Has(v, j) /\ at'[v] = at[v] /\ outcome'[v] = outcome[v]
      PROVE  Answered(j)'
  BY <1>0, <1>4 DEF Answered, Accepted, Terminal
<1>5. CASE ~Has(w, j) /\ ~Pop(w, j) /\ held[w] = j
  <2>1. \A v \in Workers : v # w => at'[v] = at[v] /\ outcome'[v] = outcome[v]
    BY <1>0, WorkerAlone
  <2> QED
    BY <1>0, <1>5, <2>1, Powerless DEF Answered, Accepted, Terminal
<1>6. CASE Has(w, j) /\ ~Work(w)
  <2>0. held[w] = j /\ Connected(w)
    BY <1>6 DEF Has
  <2>1. CASE Claim(w)
    <3>1. /\ UNCHANGED <<queue, cache, jobStatus, held, leaving, outcome>>
          /\ at'[w] = "marked" /\ at[w] = "popped"
          /\ \A v \in Workers : v # w => at'[v] = at[v]
      BY <1>0, <2>1 DEF Claim, RedisStep, Go, SetMarker, hashVars, TypeInv, TypeOK,
         WorkerTypeOK
    <3> QED
      BY <1>0, <1>6, <3>1 DEF Answered, Accepted, Terminal, Queued, Occurrences, Has,
         Connected, Written
  <2>2. CASE Drop(w) \/ Release(w) \/ Unwind(w) \/ Exit(w) \/ Crash(w)
    <3>1. UNCHANGED <<queue, cache, jobStatus>> /\ held'[w] = None
      BY <1>0, <2>2 DEF Drop, Release, Unwind, Exit, Crash, Halt, ClearMarker, hashVars,
         storeVars, dataVars, redisVars, TypeInv, TypeOK, WorkerTypeOK
    <3>2. \A v \in Workers : Has(v, j)' =>
                 Has(v, j) /\ at'[v] = at[v] /\ outcome'[v] = outcome[v]
      BY <1>0, <3>1, WorkerAlone DEF Has, Connected
    <3> QED
      BY <1>4, <3>1, <3>2 DEF Queued, Occurrences
  <2>3. CASE Beat(w) \/ Sigterm(w) \/ DrainEnds(w)
    <3>1. /\ UNCHANGED <<queue, cache, jobStatus, at, outcome>>
          /\ \A v \in Workers : Has(v, j)' => Has(v, j)
      BY <1>0, <2>3 DEF Beat, Sigterm, DrainEnds, SetHeartbeats, hashVars, workerVars,
         dataVars, redisVars, Has, Connected, TypeInv, TypeOK, WorkerTypeOK
    <3> QED
      BY <1>4, <3>1 DEF Queued, Occurrences
  <2>4. ~PollEnds(w) /\ ~Start(w) /\ ~\E i \in Jobs : Pop(w, i)
    BY <1>0, <2>0 DEF PollEnds, Start, Pop, Go, HandsFree
  <2> QED
    BY <1>0, <1>6, <2>1, <2>2, <2>3, <2>4, LoopSplit
<1> QED
  BY <1>0, <1>1, <1>2, <1>3, <1>5, <1>6, PopOnly

-----------------------------------------------------------------------------
(* The watchdog.                                                           *)

\* What a task does to the hash and remembers, and the await it goes on to.
LEMMA TaskEffect ==
    ASSUME TypeInv, NEW p \in Passes, NEW i \in Jobs,
           TaskNext(p, i) \/ DlqInsertFails(p, i) \/ TaskFails(p, i)
    PROVE  /\ cache' = cache /\ task[p][i] # "idle"
           /\ \/ /\ MoveToDlq(p, i) /\ task[p][i] = "decide" /\ task'[p][i] = "pgInsert"
                 /\ count[p][i] > MAX_RETRIES /\ jobStatus'[i] = "failed"
                 /\ dlq'[i] = dlq[i] + 1 /\ retryCount'[i] = count[p][i]
              \/ /\ ResetPending(p, i)
                 /\ task[p][i] = "decide" /\ task'[p][i] = "pgPending"
                 /\ ~(count[p][i] > MAX_RETRIES) /\ jobStatus'[i] = "pending"
                 /\ dlq' = dlq /\ retryCount'[i] = count[p][i]
              \/ /\ UNCHANGED <<jobStatus, retryCount, dlq>>
                 /\ \/ task'[p][i] = "idle"
                    \/ task[p][i] = "ttl" /\ task'[p][i] = "exists"
                    \/ /\ task[p][i] = "exists" /\ task'[p][i] = "clear"
                       /\ cache[i] # None
                    \/ /\ task[p][i] = "exists" /\ task'[p][i] = "retries"
                       /\ cache[i] = None
                    \/ /\ task[p][i] = "retries" /\ task'[p][i] = "strip"
                       /\ count'[p][i] = retryCount[i] + 1
                    \/ /\ task[p][i] = "strip" /\ task'[p][i] = "decide"
                       /\ count' = count
                    \/ task[p][i] = "pgInsert" /\ task'[p][i] = "pgFailed"
                    \/ task[p][i] = "pgPending" /\ task'[p][i] = "requeue"
<1> DEFINE t == task[p][i]
           u == task'[p][i]
           Quiet == cache' = cache /\ UNCHANGED <<jobStatus, retryCount, dlq>>
<1>a. /\ \A from, to : Step(p, i, from, to) => t = from /\ u = to /\ count' = count
      /\ \A from : Finish(p, i, from) => t = from /\ u = "idle"
      /\ Forget => u = "idle"
  BY DEF TypeInv, TypeOK, WatchdogTypeOK, Step, Finish, Forget, Idle
<1>b. TypeOK
  BY DEF TypeInv
<1> HIDE DEF t, u
<1> USE <1>a DEF storeVars, dataVars, redisVars, hashVars, pgVars, PgFails
<1>1. CASE OwnerAlive(p, i) \/ OwnerSilent(p, i)
  <2>1. Quiet /\ t = "ttl" /\ u \in {"idle", "exists"}
    BY <1>1 DEF OwnerAlive, OwnerSilent
  <2> QED  BY <2>1 DEF t, u
<1>2. CASE CheckResult(p, i)
  <2>1. /\ Quiet /\ t = "exists"
        /\ u = IF cache[i] # None THEN "clear" ELSE "retries"
    BY <1>2 DEF CheckResult
  <2> QED  BY <2>1 DEF t, u
<1>3. CASE ReadRetries(p, i)
  <2>1. Quiet /\ t = "retries" /\ u = "strip" /\ count'[p][i] = retryCount[i] + 1
    BY <1>b, <1>3 DEF ReadRetries, t, u, TypeOK, WatchdogTypeOK
  <2> QED  BY <2>1 DEF t, u
<1>4. CASE ClearFinished(p, i) \/ Strip(p, i)
  <2>1. /\ Quiet
        /\ \/ t = "clear" /\ u = "idle"
           \/ t = "strip" /\ u = "decide" /\ count' = count
    BY <1>4 DEF ClearFinished, Strip, ClearMarker
  <2> QED  BY <2>1 DEF t, u
<1>5. CASE MoveToDlq(p, i)
  <2>1. /\ t = "decide" /\ u = "pgInsert" /\ cache' = cache
        /\ count[p][i] > MAX_RETRIES /\ jobStatus'[i] = "failed"
        /\ dlq'[i] = dlq[i] + 1 /\ retryCount'[i] = count[p][i]
    BY <1>b, <1>5 DEF MoveToDlq, Exhausted, DeadLetter, TypeOK, StoreTypeOK, DataTypeOK
  <2> QED  BY <1>5, <2>1 DEF t, u
<1>6. CASE ResetPending(p, i)
  <2>1. /\ t = "decide" /\ u = "pgPending" /\ cache' = cache
        /\ ~(count[p][i] > MAX_RETRIES) /\ jobStatus'[i] = "pending"
        /\ dlq' = dlq /\ retryCount'[i] = count[p][i]
    BY <1>b, <1>6 DEF ResetPending, Exhausted, SetPending, TypeOK, StoreTypeOK, DataTypeOK
  <2> QED  BY <1>6, <2>1 DEF t, u
<1>7. CASE DlqInsert(p, i) \/ DlqInsertFails(p, i)
  <2>1. Quiet /\ t = "pgInsert" /\ u = "pgFailed"
    BY <1>7 DEF DlqInsert, DlqInsertFails, InsertRow
  <2> QED  BY <2>1 DEF t, u
<1>8. CASE PgPending(p, i)
  <2>1. Quiet /\ t = "pgPending" /\ u = "requeue"
    BY <1>8 DEF PgPending, UpdateSubmission
  <2> QED  BY <2>1 DEF t, u
<1>9. CASE DlqStatus(p, i) \/ Requeue(p, i)
  <2>1. Quiet /\ t \in {"pgFailed", "requeue"} /\ u = "idle"
    BY <1>9 DEF DlqStatus, Requeue, UpdateSubmission, Enqueue
  <2> QED  BY <2>1 DEF t, u
<1>10. CASE TaskFails(p, i)
  <2>1. Quiet /\ t \in {"pgFailed", "pgPending"} /\ u = "idle"
    BY <1>10 DEF TaskFails, UpdateSubmission, t
  <2> QED  BY <2>1 DEF t, u
<1> QED
  BY <1>1, <1>2, <1>3, <1>4, <1>5, <1>6, <1>7, <1>8, <1>9, <1>10 DEF TaskNext

LEMMA TaskRecovery ==
    ASSUME RecoveryAssumed, RecoveryInv, UNCHANGED <<submitVars, workerVars>>,
           NEW p \in Passes, NEW i \in Jobs,
           TaskNext(p, i) \/ DlqInsertFails(p, i) \/ TaskFails(p, i)
    PROVE  Retry(i)' /\ Answered(i)'
<1>0. /\ TypeInv /\ PlaceInv /\ Placed(i) /\ Retry(i) /\ Answered(i)
      /\ \A q \in Passes : q = p
      /\ UNCHANGED <<request, at, held, leaving, outcome>>
      /\ \A w \in Workers : Has(w, i)' <=> Has(w, i)
      /\ retryCount[i] \in Nat /\ dlq[i] \in Nat /\ count[p][i] \in Nat
      /\ MAX_RETRIES \in Nat
  BY RetriesAssumption DEF RecoveryInv, PlaceInv, RecoveryAssumed, submitVars,
     workerVars, Has, Connected, TypeInv, TypeOK, StoreTypeOK, DataTypeOK,
     WatchdogTypeOK
<1>1. cache' = cache /\ task[p][i] # "idle" /\ Accepted(i) /\ ~Queued(i)
  BY <1>0, TaskEffect DEF Placed, Untouched
<1>2. task[p][i] # "ttl" => Unheld(i)
  BY <1>0, <1>1, TaskMoves, OwnerGone
<1>3. task[p][i] # "requeue" => ~Queued(i)'
  BY <1>0, <1>1, TaskMoves DEF Queued, Occurrences
<1>4. task[p][i] \in AfterDlq \cup {"decide"} => marker[i] = None /\ marker' = marker
  BY <1>0, TaskMoves DEF Placed, BeforeStrip, InHand, AfterDlq
<1> USE DEF AfterDlq, Accepted, Unheld
<1>5. CASE task[p][i] = "decide" /\ task'[p][i] = "pgInsert"
           /\ count[p][i] > MAX_RETRIES /\ jobStatus'[i] = "failed"
           /\ dlq'[i] = dlq[i] + 1 /\ retryCount'[i] = count[p][i]
  <2>1. dlq[i] = 0 /\ cache[i] = None
    BY <1>0, <1>5 DEF Retry, Answered
  <2>2. count[p][i] = retryCount[i] + 1 /\ retryCount[i] <= MAX_RETRIES
    BY <1>0, <1>5, <2>1 DEF Retry
  <2>3. retryCount'[i] = MAX_RETRIES + 1 /\ dlq'[i] = 1
    BY <1>0, <1>5, <2>1, <2>2
  <2> QED
    BY <1>0, <1>1, <1>2, <1>3, <1>4, <1>5, <2>1, <2>3 DEF Retry, Answered
<1>6. CASE task[p][i] = "decide" /\ task'[p][i] = "pgPending"
           /\ ~(count[p][i] > MAX_RETRIES) /\ jobStatus'[i] = "pending"
           /\ dlq' = dlq /\ retryCount'[i] = count[p][i]
  <2>1. dlq[i] = 0 /\ cache[i] = None
    BY <1>0, <1>6 DEF Retry, Answered
  <2> QED
    BY <1>0, <1>1, <1>2, <1>6, <2>1 DEF Retry, Answered
<1>7. CASE /\ UNCHANGED <<jobStatus, retryCount, dlq>>
           /\ \/ task'[p][i] = "idle"
              \/ task[p][i] = "ttl" /\ task'[p][i] = "exists"
              \/ task[p][i] = "exists" /\ task'[p][i] = "clear" /\ cache[i] # None
              \/ task[p][i] = "exists" /\ task'[p][i] = "retries" /\ cache[i] = None
              \/ /\ task[p][i] = "retries" /\ task'[p][i] = "strip"
                 /\ count'[p][i] = retryCount[i] + 1
              \/ task[p][i] = "strip" /\ task'[p][i] = "decide" /\ count' = count
              \/ task[p][i] = "pgInsert" /\ task'[p][i] = "pgFailed"
              \/ task[p][i] = "pgPending" /\ task'[p][i] = "requeue"
  <2>1. Answered(i)'
    BY <1>0, <1>1, <1>3, <1>7 DEF Answered, Terminal
  <2>2. Retry(i)'
    <3>1. CASE dlq[i] = 1
      <4>1. task[p][i] \in AfterDlq
        BY <1>0, <1>1, <3>1 DEF Retry
      <4> QED
        BY <1>0, <1>1, <1>3, <1>4, <1>7, <3>1, <4>1 DEF Retry
    <3>2. CASE dlq[i] # 1
      BY <1>0, <1>1, <1>7, <3>2 DEF Retry
    <3> QED
      BY <3>1, <3>2
  <2> QED
    BY <2>1, <2>2
<1> QED
  BY <1>0, <1>5, <1>6, <1>7, TaskEffect

LEMMA ScanRecovery ==
    ASSUME RecoveryAssumed, RecoveryInv, UNCHANGED <<submitVars, workerVars>>,
           NEW p \in Passes, Scan(p), NEW j \in Jobs
    PROVE  Retry(j)' /\ Answered(j)'
<1>1. /\ Retry(j) /\ Answered(j) /\ \A q \in Passes : q = p
      /\ UNCHANGED <<storeVars, request, at, held, leaving, outcome, count>>
      /\ task'[p][j] \in {"idle", "ttl"}
      /\ task'[p][j] = "ttl" => marker[j] # None
  BY DEF RecoveryInv, RecoveryAssumed, PlaceInv, TypeInv, TypeOK, WatchdogTypeOK, Scan,
     Orphanable, submitVars, workerVars
<1> QED
  BY <1>1 DEF Retry, Answered, storeVars, dataVars, redisVars, Queued, Occurrences,
     Accepted, Unheld, Has, Connected, Terminal, AfterDlq

-----------------------------------------------------------------------------
(* Every step.                                                             *)

LEMMA RecoveryStep ==
    ASSUME RecoveryAssumed, RecoveryInv, [Next]_vars
    PROVE  RecoveryInv'
<1>0. /\ PlaceInv' /\ PlaceInv /\ TypeInv /\ NoRepeat /\ faults["redis"] = 0
      /\ ~LinkStep /\ \A j \in Jobs : Retry(j) /\ Answered(j)
  BY PlaceStep, NoLink DEF RecoveryInv, PlaceInv, World, FaultsOK
<1> SUFFICES ASSUME NEW j \in Jobs
             PROVE  Retry(j)' /\ Answered(j)'
  BY <1>0 DEF RecoveryInv
<1>a. Kept(j) => Retry(j)' /\ Answered(j)'
  BY <1>0, RetryKept, AnsweredKept
<1>1. ASSUME NEW i \in Jobs, ApiStep(i)
      PROVE  Retry(j)' /\ Answered(j)'
  BY <1>0, <1>a, <1>1, ApiRecovery, ApiSame, SameKept
<1>2. ASSUME NEW w \in Workers, WorkerStep(w)
      PROVE  Retry(j)' /\ Answered(j)'
  BY <1>2, WorkerRetry, WorkerAnswered
<1>3. CASE WatchdogStep
  <2>1. ASSUME NEW p \in Passes, Scan(p)
        PROVE  Retry(j)' /\ Answered(j)'
    BY <1>3, <2>1, ScanRecovery DEF WatchdogStep
  <2>2. ASSUME NEW p \in Passes, NEW i \in Jobs,
               TaskNext(p, i) \/ DlqInsertFails(p, i) \/ TaskFails(p, i)
        PROVE  Retry(j)' /\ Answered(j)'
    BY <1>0, <1>a, <1>3, <2>2, TaskRecovery, TaskKept DEF WatchdogStep
  <2>3. CASE WatchdogDies
    BY <1>a, <1>3, <2>3, DogDiesKept DEF WatchdogStep
  <2> QED
    BY <1>3, <2>1, <2>2, <2>3 DEF WatchdogStep, WatchdogNext
<1>4. CASE TimeStep \/ LapseStep
  BY <1>0, <1>a, <1>4, TimeSame, SameKept
<1>5. CASE UNCHANGED vars
  BY <1>a, <1>5, StutterSame, SameKept
<1> QED
  BY <1>0, <1>1, <1>2, <1>3, <1>4, <1>5 DEF Next

LEMMA RecoveryInit ==
    ASSUME RecoveryAssumed, Init
    PROVE  RecoveryInv
<1>1. PlaceInv
  BY PlaceInit
<1>2. ASSUME NEW j \in Jobs
      PROVE  Retry(j) /\ Answered(j)
  <2>1. \A w \in Workers : ~Has(w, j)
    BY NoneAssumption DEF Init, WorkerInit, Has
  <2> QED
    BY <2>1, RetriesAssumption DEF Init, EmptyRedis, WatchdogInit, Idle, Retry, Answered,
       AfterDlq
<1> QED
  BY <1>1, <1>2 DEF RecoveryInv

LEMMA RecoveryStays ==
    ASSUME RecoveryAssumed
    PROVE  Spec => []RecoveryInv
<1>1. Init => RecoveryInv
  BY RecoveryInit
<1>2. RecoveryInv /\ [Next]_vars => RecoveryInv'
  BY RecoveryStep
<1> QED
  BY <1>1, <1>2, PTL DEF Spec

\* Under the assumptions of the recovery protocol a job is run at most
\* MAX_RETRIES + 1 times and enters the dead letter queue once, after the last
\* attempt, and then no process has it or takes it again: the count in its hash
\* is never stale when the watchdog uses it, three awaits after reading it.
THEOREM RetriesAreBounded ==
    ASSUME RecoveryAssumed
    PROVE  Spec => []RetriesBounded
<1>1. RecoveryInv => RetriesBounded
  <2> SUFFICES ASSUME RecoveryInv, NEW j \in Jobs
               PROVE  /\ Queued(j) \/ HeldBy(j) # {} => retryCount[j] <= MAX_RETRIES
                      /\ dlq[j] <= 1
                      /\ dlq[j] = 1 => /\ retryCount[j] = MAX_RETRIES + 1
                                       /\ jobStatus[j] = "failed"
                                       /\ ~Queued(j) /\ HeldBy(j) = {}
                                       /\ marker[j] = None
    BY DEF RetriesBounded
  <2>1. Retry(j) /\ dlq[j] \in Nat
    BY DEF RecoveryInv, PlaceInv, TypeInv, TypeOK, StoreTypeOK, DataTypeOK
  <2> QED
    BY <2>1 DEF Retry, Unheld, HeldBy
<1> QED
  BY <1>1, RecoveryStays, PTL

-----------------------------------------------------------------------------
(* How a job can get lost.                                                 *)

LEMMA StrandedSame ==
    ASSUME NEW j \in Jobs, Stranded(j)',
           Queued(j)' <=> Queued(j), request'[j] = request[j],
           jobStatus'[j] = jobStatus[j], marker'[j] = marker[j],
           \A w \in Workers : Has(w, j)' <=> Has(w, j),
           \A p \in Passes : task[p][j] \in InHand => task'[p][j] \in InHand
    PROVE  Stranded(j)
BY DEF Stranded, Accepted, Terminal, HeldBy, HandledBy

LEMMA KeptLoss ==
    ASSUME NEW j \in Jobs, Kept(j), StrandStep(j)
    PROVE  LossWindow(j)
<1>1. CASE \A p \in Passes : task[p][j] \in InHand => task'[p][j] \in InHand
  BY <1>1, StrandedSame DEF Kept, DataSame, HandsSame, StrandStep
<1>2. CASE TasksSame(j)
  BY <1>1, <1>2 DEF TasksSame
<1>3. CASE Forgotten(j)
  BY <1>1, <1>3 DEF Forgotten, LossWindow
<1> QED
  BY <1>2, <1>3 DEF Kept

LEMMA ApiLoss ==
    ASSUME TypeInv, NEW j \in Jobs, ApiStep(j), StrandStep(j)
    PROVE  FALSE
<1>1. Accepted(j)' /\ ~Queued(j)'
  BY DEF StrandStep, Stranded
<1>2. EnqueueJob(j)
  BY <1>1 DEF ApiStep, SubmitNext, SubmitProgress, Admit, Reject, HandlerDies,
     InsertSubmission, InsertSubmissionFails, StoreJob, Advance, Accepted, TypeInv,
     TypeOK, SubmitTypeOK
<1> QED
  BY <1>1, <1>2, EnqueueQueued DEF EnqueueJob, TypeInv, TypeOK, StoreTypeOK, DataTypeOK

\* Only the finally block deletes a worker's marker.
LEMMA WorkerMarkers ==
    ASSUME TypeInv, NEW w \in Workers, WorkerNext(w), NEW j \in Jobs,
           marker[j] # None, marker'[j] = None
    PROVE  Release(w) \/ Unwind(w)
<1>0. WorkerId[w] # None /\ (at[w] \notin HandsFree => held[w] \in Jobs)
  BY WorkerIdAssumption, NoneAssumption DEF TypeInv, HandsOK
<1>1. ~Work(w)
  BY WorkMoves
<1>2. ~Claim(w)
  BY <1>0 DEF Claim, RedisStep, Go, HandsFree, SetMarker, TypeInv, TypeOK, StoreTypeOK,
     DataTypeOK
<1> QED
  BY <1>1, <1>2, LoopSplit DEF Pop, PollEnds, Drop, Beat, Sigterm, DrainEnds, Exit,
     Crash, Start, Dequeue, SetHeartbeats, storeVars, dataVars, redisVars

LEMMA WorkerLoss ==
    ASSUME RecoveryInv, NEW w \in Workers, WorkerStep(w), NEW j \in Jobs, StrandStep(j)
    PROVE  LossWindow(j)
<1>0. /\ TypeInv /\ PlaceInv /\ Placed(j) /\ Answered(j) /\ WorkerNext(w)
      /\ UNCHANGED <<request, task>>
      /\ \A v \in Workers : ~Has(v, j)'
      /\ ~Queued(j)' /\ marker'[j] = None /\ ~Terminal(j)'
      /\ WorkerId[w] # None
  BY WorkerCounts, WorkerIdAssumption, NoneAssumption
     DEF RecoveryInv, PlaceInv, WorkerStep, StrandStep, Stranded, HeldBy
<1>1. CASE Pop(w, j)
  BY <1>0, <1>1 DEF Pop, Has, Connected, TypeInv, TypeOK, WorkerTypeOK
<1>2. CASE ~Pop(w, j) /\ ~Has(w, j)
  BY <1>0, <1>2, Powerless, StrandedSame DEF StrandStep
<1>3. CASE Has(w, j)
  <2>1. CASE at[w] \in {"popped", "unwind"}
    BY <1>0, <1>3, <2>1 DEF LossWindow, GivesUp
  <2>2. CASE at[w] \notin {"popped", "unwind"}
    <3>1. marker[j] # None
      BY <1>0, <1>3, <2>2 DEF Placed
    <3>2. Release(w)
      BY <1>0, <2>2, <3>1, WorkerMarkers DEF Unwind
    <3>3. Terminal(j) /\ jobStatus' = jobStatus
      BY <1>0, <1>3, <3>2 DEF Answered, Written, Release, Go, ClearMarker, hashVars
    <3> QED
      BY <1>0, <3>3 DEF Terminal
  <2> QED
    BY <2>1, <2>2
<1> QED
  BY <1>1, <1>2, <1>3

LEMMA TaskLoss ==
    ASSUME RecoveryAssumed, RecoveryInv, UNCHANGED <<submitVars, workerVars>>,
           NEW p \in Passes, NEW j \in Jobs,
           TaskNext(p, j) \/ DlqInsertFails(p, j) \/ TaskFails(p, j),
           StrandStep(j)
    PROVE  LossWindow(j)
<1>0. /\ TypeInv /\ Placed(j) /\ Retry(j) /\ Answered(j) /\ dlq[j] \in Nat
      /\ \A q \in Passes : q = p
      /\ UNCHANGED <<request, at, held, leaving>>
      /\ \A w \in Workers : Has(w, j)' <=> Has(w, j)
      /\ ~Terminal(j)' /\ task'[p][j] \notin InHand
      /\ {"failed"} \subseteq Final /\ (cache[j] # None => cache[j] \in Final)
  BY DEF RecoveryInv, PlaceInv, RecoveryAssumed, submitVars, workerVars, Has, Connected,
     TypeInv, TypeOK, StoreTypeOK, DataTypeOK, StrandStep, Stranded, HandledBy, Final
<1> SUFFICES ASSUME ~(task[p][j] \in InHand /\ task'[p][j] = "idle")
             PROVE  FALSE
  BY DEF LossWindow
<1> USE DEF InHand, AfterDlq, BeforeStrip
<1>1. CASE task[p][j] \in {"decide"} \cup AfterDlq
  <2>1. jobStatus'[j] = "failed"
    BY <1>0, <1>1, TaskEffect DEF Retry
  <2> QED
    BY <1>0, <2>1 DEF Terminal
<1>2. CASE task[p][j] = "clear"
  <2>1. jobStatus'[j] \in Final
    BY <1>0, <1>2, TaskEffect DEF Answered
  <2> QED
    BY <1>0, <2>1 DEF Terminal
<1>3. CASE task[p][j] \notin {"decide", "clear"} \cup AfterDlq
  <2>1. task[p][j] \notin InHand
    BY <1>0, <1>3, TaskEffect
  <2>2. UNCHANGED storeVars
    <3>1. ~Strip(p, j)
      BY <1>0 DEF Strip, Step, TypeInv, TypeOK, WatchdogTypeOK
    <3> QED
      BY <1>3, <2>1, <3>1 DEF TaskNext, OwnerAlive, OwnerSilent, CheckResult,
         ClearFinished, ReadRetries, MoveToDlq, DlqInsert, DlqStatus, ResetPending,
         PgPending, Requeue, DlqInsertFails, TaskFails, Step, Finish
  <2>3. UNCHANGED <<queue, marker, jobStatus>>
    BY <2>2 DEF storeVars, dataVars, redisVars
  <2>4. \A q \in Passes : task[q][j] \notin InHand
    BY <1>0, <2>1
  <2> QED
    BY <1>0, <2>3, <2>4, StrandedSame DEF StrandStep, Queued, Occurrences
<1> QED
  BY <1>1, <1>2, <1>3

LEMMA ScanLoss ==
    ASSUME RecoveryAssumed, UNCHANGED <<submitVars, workerVars>>, TypeInv,
           NEW p \in Passes, Scan(p), NEW j \in Jobs, StrandStep(j)
    PROVE  FALSE
<1>1. /\ UNCHANGED <<queue, marker, jobStatus, request>>
      /\ \A q \in Passes : task[q][j] \notin InHand
      /\ \A w \in Workers : Has(w, j)' <=> Has(w, j)
  BY DEF RecoveryAssumed, Scan, Idle, InHand, storeVars, dataVars, redisVars,
     submitVars, workerVars, Has, Connected
<1> QED
  BY <1>1, StrandedSame DEF StrandStep, Queued, Occurrences

\* As long as Redis keeps its data, its answers arrive, and a worker that runs
\* keeps its heartbeat until its shutdown deletes it, a job gets out of every process's reach
\* without an answer only in the two windows the code leaves open: between BRPOP
\* and the marker (or with the error that ends the loop), and between the
\* watchdog's HDEL and its LPUSH.  Any other crash, drop, release, failed
\* statement or recovery keeps it within reach.
THEOREM LossWindows ==
    ASSUME RecoveryAssumed
    PROVE  Spec => LostOnlyInWindows
<1>1. RecoveryInv /\ [Next]_vars =>
        [Lost = 0 => \A j \in Jobs : StrandStep(j) => LossWindow(j)]_vars
  <2> SUFFICES ASSUME RecoveryInv, Next, NEW j \in Jobs, StrandStep(j)
               PROVE  LossWindow(j)
    OBVIOUS
  <2>0. PlaceInv /\ TypeInv /\ NoRepeat /\ faults["redis"] = 0 /\ ~LinkStep
    BY NoLink DEF RecoveryInv, PlaceInv, World, FaultsOK
  <2>1. ASSUME NEW i \in Jobs, ApiStep(i)
        PROVE  LossWindow(j)
    BY <2>0, <2>1, ApiLoss, ApiSame, SameKept, KeptLoss
  <2>2. ASSUME NEW w \in Workers, WorkerStep(w)
        PROVE  LossWindow(j)
    BY <2>2, WorkerLoss
  <2>3. CASE WatchdogStep
    <3>1. ASSUME NEW p \in Passes, Scan(p)
          PROVE  LossWindow(j)
      BY <2>0, <2>3, <3>1, ScanLoss DEF WatchdogStep
    <3>2. ASSUME NEW p \in Passes, NEW i \in Jobs,
                 TaskNext(p, i) \/ DlqInsertFails(p, i) \/ TaskFails(p, i)
          PROVE  LossWindow(j)
      BY <2>0, <2>3, <3>2, TaskLoss, TaskKept, KeptLoss DEF WatchdogStep
    <3>3. CASE WatchdogDies
      BY <2>3, <3>3, DogDiesKept, KeptLoss DEF WatchdogStep
    <3> QED
      BY <2>3, <3>1, <3>2, <3>3 DEF WatchdogStep, WatchdogNext
  <2>4. CASE TimeStep \/ LapseStep
    BY <2>0, <2>4, TimeSame, SameKept, KeptLoss
  <2> QED
    BY <2>0, <2>1, <2>2, <2>3, <2>4 DEF Next
<1> QED
  BY <1>1, RecoveryStays, PTL DEF Spec, LostOnlyInWindows

-----------------------------------------------------------------------------
(* What the cache replays is final.                                        *)

\* What the cache says is on record in PostgreSQL too, and so is what a worker
\* is about to put there.
OnRecord(j) ==
    /\ cache[j] # None => /\ submission[j] = cache[j]
                          /\ row[j] # None /\ resolveStatus(row[j]) = cache[j]
    /\ \A w \in Workers : held[w] = j /\ at[w] \in {"setFinal", "cacheResult"} =>
         submission[j] = resolveStatus(outcome[w])

RecordInv ==
    /\ RecoveryInv /\ Undisturbed /\ ResultInv /\ RowInv
    /\ \A j \in Jobs : OnRecord(j)

LEMMA OnRecordKept ==
    ASSUME NEW j \in Jobs, OnRecord(j), DataSame(j), HandsSame(j)
    PROVE  OnRecord(j)'
BY DEF OnRecord, DataSame, HandsSame, resolveStatus

LEMMA HeldIsHas ==
    ASSUME Undisturbed, NEW w \in Workers, NEW j \in Jobs
    PROVE  Has(w, j) <=> held[w] = j
BY DEF Undisturbed, Has, Connected

LEMMA ApiOnRecord ==
    ASSUME RecordInv, NEW i \in Jobs, ApiStep(i)
    PROVE  OnRecord(i)'
<1>0. /\ TypeInv /\ Placed(i) /\ Answered(i) /\ ~Accepted(i) /\ Undisturbed
      /\ UNCHANGED <<cache, held>>
  BY ApiEffect DEF RecordInv, RecoveryInv, PlaceInv, Accepted
<1>1. cache[i] = None /\ \A w \in Workers : held[w] # i
  BY <1>0, HeldIsHas DEF Placed, Answered, Unheld
<1> QED
  BY <1>0, <1>1 DEF OnRecord

\* What the commands of a worker do to the two tables.
LEMMA WorkRecords ==
    ASSUME TypeInv, NEW w \in Workers, Work(w), at[w] \notin Missing,
           NEW j \in Jobs, held[w] = j
    PROVE  /\ at'[w] = "setFinal" => PgFinal(w)
           /\ at'[w] = "cacheResult" => SetFinal(w)
           /\ cache'[j] # cache[j] => CacheResult(w)
           /\ at[w] # "release"
<1> USE DEF TypeInv, TypeOK, WorkerTypeOK, Missing, Go, RedisStep, PgStep, PgFails,
            storeVars, dataVars, redisVars, UpdateSubmission, InsertRow, SetStatus
<1>1. CASE Load(w)
  BY <1>1 DEF Load
<1>2. CASE RunJob(w)
  BY <1>2 DEF RunJob, SetRunning, PgRunning, ExecuteThrows, Execute, InsertResult,
     InsertDuplicate, PgFinal, SetFinal, CacheResult
<1>3. CASE PgFaultStep(w)
  BY <1>3 DEF PgFaultStep, FallbackInsertFails, FallbackPgFails, PgRunningFails,
     InsertResultFails, PgFinalFails, PgFailedFails
<1> QED
  BY <1>1, <1>2, <1>3 DEF Work, FallbackInsert, FallbackPg, FallbackSet,
     FallbackCache, SetFailed, PgFailed

LEMMA WorkOnRecord ==
    ASSUME RecordInv, NEW w \in Workers, WorkerStep(w), Work(w),
           NEW j \in Jobs, held[w] = j
    PROVE  OnRecord(j)'
<1>0. /\ TypeInv /\ ResultInv /\ Undisturbed /\ PlaceInv /\ OnRecord(j) /\ Answered(j)
      /\ Placed(j) /\ RowInv /\ at[w] \notin Missing /\ Has(w, j) /\ WorkerNext(w)
      /\ held' = held
  BY HeldIsHas, WorkMoves DEF RecordInv, RecoveryInv, PlaceInv, World, WorkerOK,
     WorkerStep
<1>1. \A v \in Workers : held[v] = j => v = w
  BY <1>0, HeldIsHas DEF Placed
<1>2. at[w] # "release" /\ cache[j] = None
  BY <1>0, WorkRecords DEF Answered
<1>3. submission[j] # None
  BY <1>0 DEF RowInv, Reach, Loose
<1> USE DEF TypeInv, TypeOK, StoreTypeOK, DataTypeOK, OnRecord
<1>4. CASE CacheResult(w)
  <2>1. /\ at[w] = "cacheResult" /\ at'[w] = "release" /\ UNCHANGED <<submission, row>>
        /\ cache'[j] = resolveStatus(outcome[w])
    BY <1>0, <1>4 DEF CacheResult, RedisStep, Go, SetResult, pgVars, WorkerTypeOK
  <2>2. row[j] = outcome[w] /\ row[j] # None
    BY <1>0, <2>1, RowKnown DEF Recorded
  <2> QED
    BY <1>0, <1>1, <2>1, <2>2 DEF resolveStatus
<1>5. CASE PgFinal(w)
  <2>1. /\ UNCHANGED <<cache, row, outcome>> /\ at'[w] = "setFinal"
        /\ submission'[j] = resolveStatus(outcome[w])
    BY <1>0, <1>3, <1>5 DEF PgFinal, PgStep, Go, UpdateSubmission, redisVars,
       WorkerTypeOK
  <2> QED
    BY <1>0, <1>1, <1>2, <2>1 DEF resolveStatus
<1>6. CASE SetFinal(w)
  <2>1. /\ UNCHANGED <<cache, submission, row, outcome>> /\ at[w] = "setFinal"
    BY <1>0, <1>6 DEF SetFinal, RedisStep, Go, SetStatus, pgVars
  <2> QED
    BY <1>0, <1>1, <1>2, <2>1 DEF resolveStatus
<1>7. CASE ~CacheResult(w) /\ ~PgFinal(w) /\ ~SetFinal(w)
  BY <1>0, <1>1, <1>2, <1>7, WorkRecords
<1> QED
  BY <1>4, <1>5, <1>6, <1>7

LEMMA WorkerOnRecord ==
    ASSUME RecordInv, NEW w \in Workers, WorkerStep(w), NEW j \in Jobs
    PROVE  OnRecord(j)'
<1>0. /\ TypeInv /\ NoRepeat /\ Undisturbed /\ OnRecord(j) /\ Answered(j) /\ Placed(j)
      /\ WorkerNext(w) /\ (at[w] \in HandsFree => held[w] = None) /\ j # None
  BY NoneAssumption DEF RecordInv, RecoveryInv, PlaceInv, World, WorkerOK, WorkerStep
<1>1. CASE held[w] # j /\ held'[w] # j
  BY <1>0, <1>1, WorkerSame, OnRecordKept DEF Same
<1>2. CASE held[w] = j /\ Work(w)
  BY <1>2, WorkOnRecord
<1>3. CASE Pop(w, j)
  <2>1. cache[j] = None /\ \A v \in Workers : held[v] # j
    BY <1>0, <1>3, PopTakes, HeldIsHas DEF Answered, Placed, Unheld
  <2>2. /\ cache' = cache /\ at'[w] = "popped"
        /\ \A v \in Workers : v # w => held'[v] = held[v]
    BY <1>0, <1>3 DEF Pop, Go, Dequeue, TypeInv, TypeOK, WorkerTypeOK
  <2> QED
    BY <2>1, <2>2 DEF OnRecord
<1>4. CASE held[w] = j /\ ~Work(w)
  <2>1. UNCHANGED <<cache, submission, row>>
    BY <1>0, <1>4, LoopSplit DEF Pop, PollEnds, Drop, Claim, Release, Unwind, Beat,
       Sigterm, DrainEnds, Exit, Crash, Start, Dequeue, SetMarker, ClearMarker,
       SetHeartbeats, pgVars, storeVars, dataVars, redisVars
  <2>2. held'[w] # j \/ at'[w] = "marked" \/ (at'[w] = at[w] /\ outcome'[w] = outcome[w])
    BY <1>0, <1>4, LoopSplit DEF Pop, PollEnds, Drop, Claim, RedisStep, Release,
       Unwind, Beat, Sigterm, DrainEnds, Exit, Crash, Start, Halt, Go, HandsFree,
       workerVars, TypeInv, TypeOK, WorkerTypeOK
  <2>3. \A v \in Workers : v # w =>
          held'[v] = held[v] /\ at'[v] = at[v] /\ outcome'[v] = outcome[v]
    BY <1>0, WorkerAlone
  <2>4. \A v \in Workers : held'[v] = j /\ at'[v] \in {"setFinal", "cacheResult"} =>
          held[v] = j /\ at'[v] = at[v] /\ outcome'[v] = outcome[v]
    BY <1>4, <2>2, <2>3
  <2> QED
    BY <1>0, <2>1, <2>4 DEF OnRecord, resolveStatus
<1> QED
  BY <1>0, <1>1, <1>2, <1>3, <1>4, PopOnly

\* Before HDEL a task only reads, or deletes the marker.
LEMMA TaskReads ==
    ASSUME TypeInv, NEW p \in Passes, NEW i \in Jobs,
           TaskNext(p, i) \/ DlqInsertFails(p, i) \/ TaskFails(p, i),
           task[p][i] \notin InHand \cup AfterDlq
    PROVE  UNCHANGED <<queue, jobStatus, payload, retryCount, cache, dlq, submission,
                       row, heartbeat>>
<1> USE DEF InHand, AfterDlq, Step, Finish, storeVars, dataVars, redisVars, pgVars,
            hashVars
<1>1. CASE OwnerAlive(p, i) \/ OwnerSilent(p, i) \/ CheckResult(p, i)
           \/ ReadRetries(p, i) \/ ClearFinished(p, i) \/ Strip(p, i)
  BY <1>1 DEF OwnerAlive, OwnerSilent, CheckResult, ReadRetries, ClearFinished, Strip,
     ClearMarker
<1> QED
  BY <1>1 DEF TaskNext, MoveToDlq, DlqInsert, DlqStatus, ResetPending, PgPending,
     Requeue, DlqInsertFails, TaskFails

LEMMA TaskOnRecord ==
    ASSUME RecoveryAssumed, RecordInv, UNCHANGED <<submitVars, workerVars>>,
           NEW p \in Passes, NEW i \in Jobs,
           TaskNext(p, i) \/ DlqInsertFails(p, i) \/ TaskFails(p, i)
    PROVE  OnRecord(i)'
<1>0. /\ TypeInv /\ PlaceInv /\ OnRecord(i) /\ Answered(i) /\ Undisturbed
      /\ UNCHANGED <<at, held, outcome, cache>>
  BY TaskEffect DEF RecordInv, RecoveryInv, PlaceInv, workerVars
<1>1. CASE task[p][i] \notin InHand \cup AfterDlq
  BY <1>0, <1>1, TaskReads DEF OnRecord, resolveStatus
<1>2. CASE task[p][i] \in InHand \cup AfterDlq
  <2>1. cache[i] = None
    BY <1>0, <1>2 DEF Answered, InHand, AfterDlq
  <2>2. \A w \in Workers : held[w] # i
    BY <1>0, <1>2, OwnerGone, HeldIsHas DEF Unheld
  <2> QED
    BY <1>0, <2>1, <2>2 DEF OnRecord
<1> QED
  BY <1>1, <1>2

LEMMA RecordInvStep ==
    ASSUME RecoveryAssumed, RecordInv, [Next]_vars
    PROVE  RecordInv'
<1>0. /\ RecoveryInv' /\ Undisturbed' /\ ResultInv' /\ RowInv'
      /\ RecoveryInv /\ PlaceInv /\ TypeInv /\ NoRepeat /\ faults["redis"] = 0
      /\ ~LinkStep /\ \A j \in Jobs : OnRecord(j)
  BY RecoveryStep, UndisturbedStep, ResultStep, RowStep, NoLink
     DEF RecordInv, RecoveryInv, PlaceInv, World, FaultsOK
<1> SUFFICES ASSUME NEW j \in Jobs
             PROVE  OnRecord(j)'
  BY <1>0 DEF RecordInv
<1>a. Kept(j) => OnRecord(j)'
  BY <1>0, OnRecordKept DEF Kept
<1>1. ASSUME NEW i \in Jobs, ApiStep(i)
      PROVE  OnRecord(j)'
  BY <1>0, <1>a, <1>1, ApiOnRecord, ApiSame, SameKept
<1>2. ASSUME NEW w \in Workers, WorkerStep(w)
      PROVE  OnRecord(j)'
  BY <1>2, WorkerOnRecord
<1>3. CASE WatchdogStep
  <2>1. ASSUME NEW p \in Passes, Scan(p)
        PROVE  OnRecord(j)'
    BY <1>0, <1>3, <2>1, QuietSame, HandsKept, OnRecordKept
       DEF WatchdogStep, Scan, storeVars
  <2>2. ASSUME NEW p \in Passes, NEW i \in Jobs,
               TaskNext(p, i) \/ DlqInsertFails(p, i) \/ TaskFails(p, i)
        PROVE  OnRecord(j)'
    BY <1>0, <1>a, <1>3, <2>2, TaskOnRecord, TaskKept DEF WatchdogStep
  <2>3. CASE WatchdogDies
    BY <1>a, <1>3, <2>3, DogDiesKept DEF WatchdogStep
  <2> QED
    BY <1>3, <2>1, <2>2, <2>3 DEF WatchdogStep, WatchdogNext
<1>4. CASE TimeStep \/ LapseStep
  BY <1>0, <1>a, <1>4, TimeSame, SameKept
<1>5. CASE UNCHANGED vars
  BY <1>a, <1>5, StutterSame, SameKept
<1> QED
  BY <1>0, <1>1, <1>2, <1>3, <1>4, <1>5 DEF Next

LEMMA RecordInit ==
    ASSUME RecoveryAssumed, Budget["signal"] = 0, Init
    PROVE  RecordInv
<1>1. RecoveryInv /\ Undisturbed
  BY RecoveryInit DEF Init, WorkerInit, Undisturbed
<1>2. ResultInv
  BY InitType, NoneIsPlain DEF Init, EmptyRedis, EmptyPg, WorkerInit, DoneBacked,
     RecordOK, Recorded, ResultInv
<1>3. RowInv
  BY NoneAssumption DEF Init, EmptyRedis, SubmitInit, WorkerInit, WatchdogInit, Idle,
     RowInv, Reach, Loose, Queued, Occurrences
<1>4. \A j \in Jobs : OnRecord(j)
  BY NoneAssumption DEF Init, EmptyRedis, WorkerInit, OnRecord
<1> QED
  BY <1>1, <1>2, <1>3, <1>4 DEF RecordInv

LEMMA RecordStays ==
    ASSUME RecoveryAssumed, Budget["signal"] = 0
    PROVE  Spec => []RecordInv
<1>1. Init => RecordInv
  BY RecordInit
<1>2. RecordInv /\ [Next]_vars => RecordInv'
  BY RecordInvStep
<1> QED
  BY <1>1, <1>2, PTL DEF Spec

\* Once the cache of a job can be replayed, the hash, the submission and the row
\* say the same, the job is in no list, and no task of the watchdog will put it
\* back in one, though one may have read its marker before its worker released
\* it: EXISTS exec:result comes after, and the worker is alive before.
THEOREM CachedStaysFinal ==
    ASSUME RecoveryAssumed, Budget["signal"] = 0
    PROVE  Spec => []CachedIsFinal
<1>1. RecordInv => CachedIsFinal
  <2> SUFFICES ASSUME RecordInv, NEW j \in Jobs, cache[j] # None
               PROVE  /\ jobStatus[j] = cache[j] /\ submission[j] = cache[j]
                      /\ row[j] # None /\ resolveStatus(row[j]) = cache[j]
                      /\ ~Queued(j) /\ HandledBy(j) = {}
    BY DEF CachedIsFinal
  <2>1. OnRecord(j) /\ Answered(j)
    BY DEF RecordInv, RecoveryInv
  <2> QED
    BY <2>1 DEF OnRecord, Answered, HandledBy, InHand
<1> QED
  BY <1>1, RecordStays, PTL

-----------------------------------------------------------------------------
(* One ticket.  While passes do not overlap, a job is given to one process *)
(* after the other, although several may be executing it.  Whether owners  *)
(* are alive plays no part in it, nor does what a command finds: with an   *)
(* answer of Redis lost, a job may be queued twice, and the proof counts.  *)

\* The marker, or the task that has read one and may still delete another.
Reserve(j) ==
    IF marker[j] # None \/ \E p \in Passes : task[p][j] \in {"ttl"} \cup BeforeStrip
      THEN 1 ELSE 0
InTask(j) == IF \E p \in Passes : task[p][j] \in InHand THEN 1 ELSE 0
\* The request that has yet to queue the job.
Coming(j) == IF request[j] \in {"new"} \cup InFlight THEN 1 ELSE 0
Entries(j) == Cardinality(Occurrences(j))
Popped(j) == Cardinality(Unmarked(j))

Tokens(j) == Entries(j) + Popped(j) + Reserve(j) + InTask(j) + Coming(j)

Early == {"new", "admitted", "inserted"}

\* A count that a task has read is about to be written, and a job that was given
\* up cannot be given again to a task whose count allows another retry.
Ledger(j) ==
    /\ IsFiniteSet(Unmarked(j))
    /\ Tokens(j) + dlq[j] <= 1 + Lost
    /\ Tokens(j) + retryCount[j] <= MAX_RETRIES + 1 + Lost
    /\ \A p \in Passes : task[p][j] \in {"strip", "decide"} =>
         /\ Tokens(j) + count[p][j] <= MAX_RETRIES + 2 + Lost
         /\ dlq[j] # 0 => count[p][j] > MAX_RETRIES
    /\ dlq[j] # 0 => retryCount[j] > MAX_RETRIES
    /\ request[j] \in Early => ~Loose(j) /\ dlq[j] = 0

TicketInv == TypeInv /\ \A j \in Jobs : Ledger(j)

\* What a step does to the ledger of a job.
SameCount(j) == retryCount'[j] = retryCount[j] /\ dlq'[j] = dlq[j]

Noted(j) ==
    \/ SameCount(j)
    \/ retryCount'[j] = 0 /\ dlq'[j] = 0
    \/ \E p \in Passes :
         /\ task[p][j] = "decide" /\ retryCount'[j] = count[p][j]
         /\ \/ ~Exhausted(p, j) /\ dlq'[j] = dlq[j]
            \/ /\ Exhausted(p, j) /\ dlq'[j] = dlq[j] + 1
               /\ Tokens(j)' + 1 + Lost <= Tokens(j) + Lost'

Read(j) ==
    \A p \in Passes : task'[p][j] \in {"strip", "decide"} =>
        \/ task[p][j] \in {"strip", "decide"} /\ count'[p][j] = count[p][j]
        \/ task[p][j] = "retries" /\ count'[p][j] = retryCount[j] + 1 /\ SameCount(j)

Booked(j) ==
    /\ IsFiniteSet(Unmarked(j)')
    /\ Tokens(j)' + Lost <= Tokens(j) + Lost'
    /\ Noted(j) /\ Read(j)

\* An answer may be lost at the step, and none comes back.
LostGrows == Lost \in Int /\ Lost' \in Int /\ Lost <= Lost'

-----------------------------------------------------------------------------
(* Counting.                                                               *)

LEMMA OccurrencesFinite ==
    ASSUME TypeInv, NEW j \in Jobs
    PROVE  IsFiniteSet(Occurrences(j)) /\ Entries(j) \in Nat
<1>1. Len(queue) \in Int
  BY DEF TypeInv, TypeOK, StoreTypeOK, DataTypeOK
<1>2. IsFiniteSet(Occurrences(j))
  <2>1. Occurrences(j) \in SUBSET (1..Len(queue)) /\ IsFiniteSet(1..Len(queue))
    BY <1>1, FS_Interval DEF Occurrences
  <2> QED
    BY <2>1, FS_Subset
<1> QED
  BY <1>2, FS_CardinalityType DEF Entries

LEMMA EnqueueEntries ==
    ASSUME TypeInv, NEW i \in Jobs, Enqueue(i), NEW j \in Jobs
    PROVE  /\ Entries(j)' \in Nat
           /\ Entries(j)' <= Entries(j) + 1
           /\ j # i => Entries(j)' <= Entries(j)
<1> DEFINE A == Occurrences(j)
           B == Occurrences(j)' \ {1}
           f == [k \in B |-> k - 1]
<1>1. /\ Len(queue') = Len(queue) + 1 /\ queue'[1] = i
      /\ \A k \in 1..Len(queue') : k = 1 \/ (k - 1 \in 1..Len(queue) /\ queue'[k] = queue[k - 1])
      /\ Len(queue) \in Nat
  BY DEF Enqueue, TypeInv, TypeOK, StoreTypeOK, DataTypeOK
<1>2. IsFiniteSet(A) /\ Entries(j) = Cardinality(A) /\ Entries(j) \in Nat
  BY OccurrencesFinite DEF Entries
<1>3. \A k \in B : k \in Int /\ k - 1 \in A
  BY <1>1 DEF Occurrences
<1>4. f \in Injection(B, A)
  BY <1>3 DEF Injection, IsInjective
<1>5. IsFiniteSet(B) /\ Cardinality(B) <= Cardinality(A)
  BY <1>2, <1>4, FS_Injection
<1>6. Occurrences(j)' \subseteq B \cup {1} /\ (j # i => Occurrences(j)' \subseteq B)
  BY <1>1 DEF Occurrences
<1> HIDE DEF A, B, f
<1>a. ASSUME NEW x
      PROVE  IsFiniteSet(B \cup {x}) /\ Cardinality(B \cup {x}) <= Cardinality(B) + 1
  <2>1. /\ IsFiniteSet(B \cup {x}) /\ Cardinality(B) \in Nat
        /\ Cardinality(B \cup {x}) = IF x \in B THEN Cardinality(B) ELSE Cardinality(B) + 1
    BY <1>5, FS_AddElement, FS_CardinalityType
  <2> QED
    BY <2>1
<1>7. IsFiniteSet(B \cup {1}) /\ Cardinality(B \cup {1}) <= Cardinality(B) + 1
  BY <1>a
<1>8. /\ IsFiniteSet(Occurrences(j)')
      /\ Cardinality(Occurrences(j)') <= Cardinality(B \cup {1})
      /\ j # i => Cardinality(Occurrences(j)') <= Cardinality(B)
  BY <1>5, <1>6, <1>7, FS_Subset
<1>9. /\ Cardinality(A) \in Nat /\ Cardinality(B) \in Nat
      /\ Cardinality(B \cup {1}) \in Nat /\ Cardinality(Occurrences(j)') \in Nat
  BY <1>2, <1>5, <1>7, <1>8, FS_CardinalityType
<1> QED
  BY <1>2, <1>5, <1>7, <1>8, <1>9 DEF Entries

LEMMA DequeueEntries ==
    ASSUME TypeInv, NEW i \in Jobs, Dequeue(i), NEW j \in Jobs
    PROVE  /\ Entries(j)' \in Nat
           /\ Entries(j)' <= Entries(j)
           /\ j = i => Entries(j)' + 1 <= Entries(j)
<1> DEFINE n == Len(queue)
           A == Occurrences(j)
<1>1. /\ n \in Nat /\ n >= 1 /\ queue[n] = i
      /\ Len(queue') = n - 1 /\ \A k \in 1..(n - 1) : queue'[k] = queue[k]
  BY DequeueShape DEF TypeInv, TypeOK, StoreTypeOK, DataTypeOK
<1>2. IsFiniteSet(A) /\ Entries(j) = Cardinality(A) /\ Entries(j) \in Nat
  BY OccurrencesFinite DEF Entries
<1>3. Occurrences(j)' \subseteq A \ {n} /\ (j = i => n \in A)
  BY <1>1 DEF Occurrences
<1> HIDE DEF n, A
<1>4. /\ IsFiniteSet(A \ {n}) /\ Cardinality(A \ {n}) <= Cardinality(A)
      /\ n \in A => Cardinality(A \ {n}) = Cardinality(A) - 1
  BY <1>2, FS_RemoveElement
<1>5. /\ IsFiniteSet(Occurrences(j)')
      /\ Cardinality(Occurrences(j)') <= Cardinality(A \ {n})
  BY <1>3, <1>4, FS_Subset
<1>6. Cardinality(A \ {n}) \in Nat /\ Cardinality(Occurrences(j)') \in Nat
  BY <1>4, <1>5, FS_CardinalityType
<1> QED
  BY <1>2, <1>3, <1>4, <1>5, <1>6 DEF Entries

LEMMA SameEntries ==
    ASSUME TypeInv, NEW j \in Jobs, queue' = queue \/ queue' = <<>>
    PROVE  Entries(j)' \in Nat /\ Entries(j)' <= Entries(j)
<1>1. Occurrences(j)' \subseteq Occurrences(j)
  BY DEF Occurrences
<1>2. IsFiniteSet(Occurrences(j)) /\ Entries(j) \in Nat
  BY OccurrencesFinite
<1>3. /\ IsFiniteSet(Occurrences(j)')
      /\ Cardinality(Occurrences(j)') <= Cardinality(Occurrences(j))
  BY <1>1, <1>2, FS_Subset
<1> QED
  BY <1>2, <1>3, FS_CardinalityType DEF Entries

\* Popping puts one worker among the unmarked; nothing else does.
LEMMA FewerPopped ==
    ASSUME NEW j \in Jobs, IsFiniteSet(Unmarked(j)), Unmarked(j)' \subseteq Unmarked(j)
    PROVE  /\ IsFiniteSet(Unmarked(j)') /\ Popped(j) \in Nat /\ Popped(j)' \in Nat
           /\ Popped(j)' <= Popped(j)
<1>1. /\ IsFiniteSet(Unmarked(j)')
      /\ Cardinality(Unmarked(j)') <= Cardinality(Unmarked(j))
  BY FS_Subset
<1> QED
  BY <1>1, FS_CardinalityType DEF Popped

LEMMA OneMorePopped ==
    ASSUME NEW j \in Jobs, NEW w, IsFiniteSet(Unmarked(j)),
           Unmarked(j)' \subseteq Unmarked(j) \cup {w}
    PROVE  /\ IsFiniteSet(Unmarked(j)') /\ Popped(j) \in Nat /\ Popped(j)' \in Nat
           /\ Popped(j)' <= Popped(j) + 1
<1> DEFINE B == Unmarked(j) \cup {w}
<1>1. IsFiniteSet(B) /\ Cardinality(B) <= Cardinality(Unmarked(j)) + 1
  BY FS_AddElement, FS_CardinalityType
<1>2. IsFiniteSet(Unmarked(j)') /\ Cardinality(Unmarked(j)') <= Cardinality(B)
  BY <1>1, FS_Subset
<1>3. /\ Cardinality(B) \in Nat /\ Cardinality(Unmarked(j)) \in Nat
      /\ Cardinality(Unmarked(j)') \in Nat
  BY <1>1, <1>2, FS_CardinalityType
<1> HIDE DEF B
<1> QED
  BY <1>1, <1>2, <1>3 DEF Popped

LEMMA OneLessPopped ==
    ASSUME NEW j \in Jobs, NEW w \in Unmarked(j), IsFiniteSet(Unmarked(j)),
           Unmarked(j)' \subseteq Unmarked(j) \ {w}
    PROVE  /\ IsFiniteSet(Unmarked(j)') /\ Popped(j) \in Nat /\ Popped(j)' \in Nat
           /\ Popped(j)' + 1 <= Popped(j)
<1> DEFINE B == Unmarked(j) \ {w}
<1>1. IsFiniteSet(B) /\ Cardinality(B) = Cardinality(Unmarked(j)) - 1
  BY FS_RemoveElement
<1>2. IsFiniteSet(Unmarked(j)') /\ Cardinality(Unmarked(j)') <= Cardinality(B)
  BY <1>1, FS_Subset
<1>3. /\ Cardinality(B) \in Nat /\ Cardinality(Unmarked(j)) \in Nat
      /\ Cardinality(Unmarked(j)') \in Nat
  BY <1>1, <1>2, FS_CardinalityType
<1> HIDE DEF B
<1> QED
  BY <1>1, <1>2, <1>3 DEF Popped

LEMMA Small ==
    ASSUME NEW j \in Jobs
    PROVE  /\ Reserve(j) \in {0, 1} /\ InTask(j) \in {0, 1} /\ Coming(j) \in {0, 1}
           /\ Reserve(j)' \in {0, 1} /\ InTask(j)' \in {0, 1} /\ Coming(j)' \in {0, 1}
BY DEF Reserve, InTask, Coming

-----------------------------------------------------------------------------
(* What every step does to the ledger of a job.                            *)

\* Nothing that a task has read for the job changes, or the tasks are gone.
LEMMA TasksStay ==
    ASSUME NEW j \in Jobs, marker'[j] \in {marker[j], None},
           TasksSame(j) \/ Forgotten(j)
    PROVE  Reserve(j)' <= Reserve(j) /\ InTask(j)' <= InTask(j) /\ Read(j)
<1>1. CASE TasksSame(j)
  BY <1>1 DEF TasksSame, Reserve, InTask, Read
<1>2. CASE Forgotten(j)
  BY <1>2 DEF Forgotten, Reserve, InTask, Read, BeforeStrip, InHand
<1> QED
  BY <1>1, <1>2

\* A step that puts no ticket up and counts nothing.
LEMMA QuietBooked ==
    ASSUME NEW j \in Jobs, Ledger(j), LostGrows,
           Entries(j) \in Nat, Entries(j)' \in Nat,
           Entries(j)' + Lost <= Entries(j) + Lost',
           Unmarked(j)' \subseteq Unmarked(j),
           marker'[j] \in {marker[j], None}, TasksSame(j) \/ Forgotten(j),
           request'[j] = request[j],
           SameCount(j) \/ (retryCount'[j] = 0 /\ dlq'[j] = 0)
    PROVE  Booked(j)
<1>1. /\ IsFiniteSet(Unmarked(j)') /\ Popped(j) \in Nat /\ Popped(j)' \in Nat
      /\ Popped(j)' <= Popped(j)
  BY FewerPopped DEF Ledger
<1>2. Reserve(j)' <= Reserve(j) /\ InTask(j)' <= InTask(j) /\ Read(j)
  BY TasksStay
<1>3. Coming(j)' = Coming(j)
  BY DEF Coming
<1>4. Tokens(j)' + Lost <= Tokens(j) + Lost'
  BY <1>1, <1>2, <1>3, Small DEF Tokens, LostGrows
<1> QED
  BY <1>1, <1>2, <1>4 DEF Booked, Noted

LEMMA ApiBooked ==
    ASSUME TypeInv, NEW i \in Jobs, ApiStep(i), NEW j \in Jobs, Ledger(j), LostGrows
    PROVE  Booked(j)
<1> USE DEF TypeInv, TypeOK, StoreTypeOK, DataTypeOK, SubmitTypeOK
<1>0. /\ SubmitNext(i) /\ UNCHANGED <<marker, dlq, at, held, task, count>>
      /\ Unmarked(j)' = Unmarked(j) /\ marker'[j] = marker[j] /\ TasksSame(j)
      /\ Entries(j) \in Nat
  BY ApiEffect, OccurrencesFinite DEF ApiStep, Unmarked, TasksSame
<1>1. \/ queue' = queue /\ retryCount' = retryCount
      \/ StoreJob(i)
      \/ EnqueueJob(i)
  BY <1>0 DEF SubmitNext, SubmitProgress, Admit, Reject, HandlerDies, InsertSubmission,
     InsertSubmissionFails, CreateSubmission, PgFails, storeVars, dataVars, redisVars
<1>2. j # i => request'[j] = request[j]
  BY <1>0 DEF SubmitNext, SubmitProgress, Admit, Reject, HandlerDies, InsertSubmission,
     InsertSubmissionFails, StoreJob, EnqueueJob, Advance
<1>3. SameCount(j) \/ (retryCount'[j] = 0 /\ dlq'[j] = 0)
  <2>1. CASE StoreJob(i)
    BY <1>0, <2>1 DEF StoreJob, SetJob, Advance, Early, Ledger, SameCount
  <2>2. CASE EnqueueJob(i)
    BY <1>0, <2>2 DEF EnqueueJob, Enqueue, hashVars, SameCount
  <2> QED
    BY <1>0, <1>1, <2>1, <2>2 DEF SameCount
<1>4. CASE j # i
  <2>1. Entries(j)' \in Nat /\ Entries(j)' <= Entries(j)
    BY <1>1, <1>4, SameEntries, EnqueueEntries DEF StoreJob, SetJob, EnqueueJob
  <2> QED
    <3> HIDE DEF TypeInv, TypeOK, StoreTypeOK, DataTypeOK, SubmitTypeOK
    <3>1. Entries(j)' + Lost <= Entries(j) + Lost'
      BY <1>0, <2>1 DEF LostGrows
    <3> QED
      BY <1>0, <1>2, <1>3, <1>4, <2>1, <3>1, QuietBooked
<1>5. CASE j = i
  <2>1. /\ Entries(j)' \in Nat
        /\ Entries(j)' + Coming(j)' <= Entries(j) + Coming(j)
    <3>1. CASE EnqueueJob(i)
      <4>1. Coming(j) = 1 /\ Coming(j)' = 0
        BY <1>5, <3>1 DEF EnqueueJob, Advance, Coming, InFlight
      <4> QED
        BY <1>0, <3>1, <4>1, EnqueueEntries DEF EnqueueJob
    <3>2. CASE ~EnqueueJob(i)
      <4>1. Coming(j)' <= Coming(j)
        BY <1>0, <1>5, <3>2 DEF SubmitNext, SubmitProgress, Admit, Reject, HandlerDies,
           InsertSubmission, InsertSubmissionFails, StoreJob, Advance, Coming, InFlight
      <4>2. Entries(j)' \in Nat /\ Entries(j)' <= Entries(j)
        BY <1>1, <3>2, SameEntries DEF StoreJob, SetJob
      <4> QED
        BY <1>0, <4>1, <4>2 DEF Coming
    <3> QED
      BY <3>1, <3>2
  <2>2. /\ IsFiniteSet(Unmarked(j)') /\ Popped(j) \in Nat /\ Popped(j)' \in Nat
        /\ Popped(j)' <= Popped(j)
    BY <1>0, FewerPopped DEF Ledger
  <2>3. Reserve(j)' <= Reserve(j) /\ InTask(j)' <= InTask(j) /\ Read(j)
    BY <1>0, TasksStay
  <2>4. Tokens(j)' + Lost <= Tokens(j) + Lost'
    <3> HIDE DEF TypeInv, TypeOK, StoreTypeOK, DataTypeOK, SubmitTypeOK
    <3> QED
      BY <1>0, <2>1, <2>2, <2>3, Small DEF Tokens, LostGrows
  <2> QED
    BY <1>3, <2>2, <2>3, <2>4 DEF Booked, Noted
<1> QED
  BY <1>4, <1>5

\* What a worker does, apart from BRPOP and HSET exec:processing, takes tickets
\* away.
LEMMA WorkerShrinks ==
    ASSUME TypeInv, NEW w \in Workers, WorkerNext(w), NEW j \in Jobs
    PROVE  \/ \E i \in Jobs : Pop(w, i)
           \/ Claim(w)
           \/ /\ queue' = queue /\ marker'[j] \in {marker[j], None}
              /\ Unmarked(j)' \subseteq Unmarked(j)
<1> USE DEF TypeInv, TypeOK, StoreTypeOK, DataTypeOK, WorkerTypeOK
<1>0. \A v \in Workers : v # w => at'[v] = at[v] /\ held'[v] = held[v]
  BY WorkerAlone
<1>1. CASE Work(w)
  <2>1. UNCHANGED <<queue, marker, held>> /\ at'[w] # "popped"
    BY <1>1, WorkMoves DEF Active, BeforeResult, Recording, Missing, Failing, Releasing
  <2> QED
    BY <1>0, <2>1 DEF Unmarked
<1>2. CASE PollEnds(w) \/ Drop(w) \/ Exit(w) \/ Crash(w) \/ Start(w)
  <2>1. UNCHANGED <<queue, marker>> /\ at'[w] # "popped"
    BY <1>2 DEF PollEnds, Drop, Exit, Crash, Start, Go, Halt, SetHeartbeats, storeVars,
       dataVars, redisVars
  <2> QED
    BY <1>0, <2>1 DEF Unmarked
<1>3. CASE Release(w) \/ Unwind(w)
  <2>1. queue' = queue /\ marker'[j] \in {marker[j], None} /\ at'[w] # "popped"
    BY <1>3 DEF Release, Unwind, Go, Halt, ClearMarker
  <2> QED
    BY <1>0, <2>1 DEF Unmarked
<1>4. CASE Beat(w) \/ Sigterm(w) \/ DrainEnds(w)
  BY <1>4 DEF Beat, Sigterm, DrainEnds, SetHeartbeats, workerVars, dataVars, redisVars,
     Unmarked
<1> QED
  BY <1>1, <1>2, <1>3, <1>4, LoopSplit

LEMMA WorkerBooked ==
    ASSUME TypeInv, NEW w \in Workers, WorkerStep(w), NEW j \in Jobs, Ledger(j), LostGrows
    PROVE  Booked(j)
<1>0. /\ WorkerNext(w) /\ Entries(j) \in Nat
      /\ UNCHANGED <<retryCount, dlq, request, task, owner, count>>
      /\ SameCount(j) /\ TasksSame(j) /\ request'[j] = request[j]
  BY WorkerCounts, OccurrencesFinite DEF WorkerStep, SameCount, TasksSame
<1>q. ASSUME Entries(j)' \in Nat, Entries(j)' <= Entries(j),
             Unmarked(j)' \subseteq Unmarked(j), marker'[j] \in {marker[j], None}
      PROVE  Booked(j)
  <2>1. Entries(j)' + Lost <= Entries(j) + Lost'
    BY <1>0, <1>q DEF LostGrows
  <2> QED
    BY <1>0, <1>q, <2>1, QuietBooked
<1>1. CASE /\ queue' = queue /\ marker'[j] \in {marker[j], None}
           /\ Unmarked(j)' \subseteq Unmarked(j)
  BY <1>q, <1>1, SameEntries
<1>2. ASSUME NEW i \in Jobs, Pop(w, i)
      PROVE  Booked(j)
  <2>1. /\ marker' = marker /\ held'[w] = i
        /\ \A v \in Workers : v # w => at'[v] = at[v] /\ held'[v] = held[v]
    BY <1>2 DEF Pop, Go, Dequeue, TypeInv, TypeOK, WorkerTypeOK
  <2>2. /\ Entries(j)' \in Nat /\ Entries(j)' <= Entries(j)
        /\ j = i => Entries(j)' + 1 <= Entries(j)
    BY <1>2, DequeueEntries DEF Pop
  <2>3. CASE j # i
    BY <1>q, <2>1, <2>2, <2>3 DEF Unmarked
  <2>4. CASE j = i
    <3>1. Unmarked(j)' \subseteq Unmarked(j) \cup {w}
      BY <2>1 DEF Unmarked
    <3>2. /\ IsFiniteSet(Unmarked(j)') /\ Popped(j) \in Nat /\ Popped(j)' \in Nat
          /\ Popped(j)' <= Popped(j) + 1
      BY <3>1, OneMorePopped DEF Ledger
    <3>3. Reserve(j)' <= Reserve(j) /\ InTask(j)' <= InTask(j) /\ Read(j)
      BY <1>0, <2>1, TasksStay
    <3>4. Coming(j)' = Coming(j)
      BY <1>0 DEF Coming
    <3>5. Tokens(j)' + Lost <= Tokens(j) + Lost'
      BY <1>0, <2>2, <2>4, <3>2, <3>3, <3>4, Small DEF Tokens, LostGrows
    <3> QED
      BY <1>0, <3>2, <3>3, <3>5 DEF Booked, Noted
  <2> QED
    BY <2>3, <2>4
<1>3. CASE Claim(w)
  <2>1. /\ queue' = queue /\ held' = held /\ at[w] = "popped" /\ at'[w] = "marked"
        /\ \A v \in Workers : v # w => at'[v] = at[v]
        /\ held[w] # j => marker'[j] = marker[j]
    BY <1>3 DEF Claim, RedisStep, Go, SetMarker, TypeInv, TypeOK, StoreTypeOK, DataTypeOK,
       WorkerTypeOK
  <2>2. Unmarked(j)' \subseteq Unmarked(j) \ {w}
    BY <2>1 DEF Unmarked
  <2>3. Entries(j)' \in Nat /\ Entries(j)' <= Entries(j)
    BY <2>1, SameEntries
  <2>4. CASE held[w] # j
    BY <1>q, <2>1, <2>2, <2>3, <2>4
  <2>5. CASE held[w] = j
    <3>1. w \in Unmarked(j)
      BY <2>1, <2>5 DEF Unmarked
    <3>2. /\ IsFiniteSet(Unmarked(j)') /\ Popped(j) \in Nat /\ Popped(j)' \in Nat
          /\ Popped(j)' + 1 <= Popped(j)
      BY <2>2, <3>1, OneLessPopped DEF Ledger
    <3>3. InTask(j)' = InTask(j) /\ Coming(j)' = Coming(j) /\ Read(j)
      BY <1>0 DEF InTask, Coming, Read
    <3>4. Tokens(j)' + Lost <= Tokens(j) + Lost'
      BY <1>0, <2>3, <3>2, <3>3, Small DEF Tokens, LostGrows
    <3> QED
      BY <1>0, <3>2, <3>3, <3>4 DEF Booked, Noted
  <2> QED
    BY <2>4, <2>5
<1> QED
  BY <1>0, <1>1, <1>2, <1>3, WorkerShrinks

\* A task is about one job, unless the process goes.
LEMMA TaskOthers ==
    ASSUME TypeInv, NEW p \in Passes, NEW i \in Jobs,
           TaskNext(p, i) \/ DlqInsertFails(p, i) \/ TaskFails(p, i),
           NEW j \in Jobs, j # i
    PROVE  /\ queue' = queue \/ Enqueue(i)
           /\ marker'[j] = marker[j] /\ SameCount(j)
           /\ TasksSame(j) \/ Forgotten(j)
<1> USE DEF TypeInv, TypeOK, StoreTypeOK, DataTypeOK, SameCount
<1>1. queue' = queue \/ Enqueue(i)
  BY TaskMoves
<1>2. marker' = marker \/ ClearMarker(i)
  BY DEF TaskNext, OwnerAlive, OwnerSilent, CheckResult, ClearFinished,
     ReadRetries, Strip, MoveToDlq, DlqInsert, DlqStatus, ResetPending,
     PgPending, Requeue, DlqInsertFails, TaskFails, PgFails, DeadLetter,
     InsertRow, UpdateSubmission, SetPending, Enqueue, storeVars, dataVars,
     redisVars
<1>3. \/ retryCount' = retryCount /\ dlq' = dlq
      \/ DeadLetter(i, count[p][i])
      \/ SetPending(i, count[p][i])
  BY DEF TaskNext, OwnerAlive, OwnerSilent, CheckResult, ClearFinished,
     ReadRetries, Strip, MoveToDlq, DlqInsert, DlqStatus, ResetPending,
     PgPending, Requeue, DlqInsertFails, TaskFails, PgFails, ClearMarker,
     InsertRow, UpdateSubmission, Enqueue, storeVars, dataVars, redisVars, hashVars
<1>4. TasksSame(j) \/ Forgotten(j)
  BY TaskAlone, ForgetKept DEF TasksSame
<1> QED
  BY <1>1, <1>2, <1>3, <1>4 DEF ClearMarker, DeadLetter, SetPending

LEMMA TaskBooked ==
    ASSUME TypeInv, \A p, q \in Passes : p = q, UNCHANGED <<submitVars, workerVars>>,
           NEW p \in Passes, NEW i \in Jobs,
           TaskNext(p, i) \/ DlqInsertFails(p, i) \/ TaskFails(p, i),
           NEW j \in Jobs, Ledger(j), LostGrows
    PROVE  Booked(j)
<1>0. /\ \A q \in Passes : q = p
      /\ UNCHANGED <<request, at, held>>
      /\ request'[j] = request[j] /\ Unmarked(j)' = Unmarked(j)
      /\ Coming(j)' = Coming(j) /\ Entries(j) \in Nat
  BY OccurrencesFinite DEF submitVars, workerVars, Unmarked, Coming
<1>1. CASE j # i
  <2>1. /\ queue' = queue \/ Enqueue(i)
        /\ marker'[j] = marker[j] /\ SameCount(j) /\ (TasksSame(j) \/ Forgotten(j))
    BY <1>1, TaskOthers
  <2>2. Entries(j)' \in Nat /\ Entries(j)' <= Entries(j)
    BY <1>1, <2>1, SameEntries, EnqueueEntries
  <2>3. Entries(j)' + Lost <= Entries(j) + Lost'
    BY <1>0, <2>2 DEF LostGrows
  <2> QED
    BY <1>0, <2>1, <2>2, <2>3, QuietBooked
<1>2. CASE j = i
  <2> DEFINE t == task[p][j]
             u == task'[p][j]
             Before == {"ttl"} \cup BeforeStrip
  <2>1. /\ Reserve(j) = IF marker[j] # None \/ t \in Before THEN 1 ELSE 0
        /\ Reserve(j)' = IF marker'[j] # None \/ u \in Before THEN 1 ELSE 0
        /\ InTask(j) = IF t \in InHand THEN 1 ELSE 0
        /\ InTask(j)' = IF u \in InHand THEN 1 ELSE 0
    BY <1>0 DEF Reserve, InTask
  <2>2. /\ IsFiniteSet(Unmarked(j)') /\ Popped(j) \in Nat /\ Popped(j)' \in Nat
        /\ Popped(j)' <= Popped(j)
    BY <1>0, FewerPopped DEF Ledger
  <2>3. /\ Entries(j)' \in Nat
        /\ Entries(j)' + Reserve(j)' + InTask(j)' <= Entries(j) + Reserve(j) + InTask(j)
        /\ MoveToDlq(p, i) => Entries(j)' + Reserve(j)' + InTask(j)' + 1
                                <= Entries(j) + Reserve(j) + InTask(j)
    <3>1. CASE t = "requeue" /\ Enqueue(i)
      <4>1. Requeue(p, i)
        BY <1>2, <3>1 DEF TaskNext, OwnerAlive, OwnerSilent, CheckResult, ClearFinished,
           ReadRetries, Strip, MoveToDlq, DlqInsert, DlqStatus, ResetPending,
           PgPending, DlqInsertFails, TaskFails, Step, Finish
      <4>2. t = "requeue" /\ u = "idle" /\ marker' = marker
        BY <1>2, <3>1, <4>1 DEF Requeue, Finish, Enqueue, TypeInv, TypeOK, WatchdogTypeOK
      <4>3. /\ InTask(j) = 1 /\ InTask(j)' = 0 /\ Reserve(j)' = Reserve(j)
            /\ ~MoveToDlq(p, i)
        BY <1>2, <2>1, <4>2 DEF InHand, BeforeStrip, MoveToDlq, Step
      <4>4. Entries(j)' \in Nat /\ Entries(j)' <= Entries(j) + 1
        BY <3>1, EnqueueEntries
      <4> QED
        BY <1>0, <4>3, <4>4, Small
    <3>2. CASE queue' = queue
      <4>1. Entries(j)' \in Nat /\ Entries(j)' <= Entries(j)
        BY <3>2, SameEntries
      <4>2. /\ Reserve(j)' + InTask(j)' <= Reserve(j) + InTask(j)
            /\ MoveToDlq(p, i) => Reserve(j)' + InTask(j)' + 1 <= Reserve(j) + InTask(j)
        <5> HIDE DEF t, u
        <5>1. CASE t \in Before /\ u \in {"idle"} \cup Before
                   /\ marker'[j] \in {marker[j], None}
          <6>1. ~MoveToDlq(p, i)
            BY <1>2, <5>1 DEF MoveToDlq, Step, BeforeStrip, t
          <6> QED
            BY <2>1, <5>1, <6>1 DEF BeforeStrip, InHand
        <5>2. CASE t \in BeforeStrip /\ u \in InHand /\ marker'[j] = None
          <6>1. ~MoveToDlq(p, i)
            BY <1>2, <5>2 DEF MoveToDlq, Step, BeforeStrip, t
          <6> QED
            BY <2>1, <5>2, <6>1 DEF BeforeStrip, InHand
        <5>3. CASE t \in InHand \cup AfterDlq /\ u \in {"idle"} \cup InHand \cup AfterDlq
                   /\ marker' = marker
          <6>1. t \in AfterDlq => u \notin InHand
            BY <1>2, <5>3, TaskEffect DEF t, u, AfterDlq, InHand
          <6>2. MoveToDlq(p, i) => t \in InHand /\ u \notin InHand
            BY <1>2 DEF MoveToDlq, Step, InHand, t, u, TypeInv, TypeOK, WatchdogTypeOK
          <6> QED
            BY <2>1, <5>3, <6>1, <6>2 DEF BeforeStrip, InHand, AfterDlq
        <5> QED
          BY <1>2, <5>1, <5>2, <5>3, TaskMoves DEF t, u, BeforeStrip
      <4> QED
        BY <1>0, <4>1, <4>2, <2>1
    <3> QED
      BY <1>2, <3>1, <3>2, TaskMoves
  <2>4. /\ Tokens(j)' + Lost <= Tokens(j) + Lost'
        /\ MoveToDlq(p, i) => Tokens(j)' + 1 + Lost <= Tokens(j) + Lost'
    <3> HIDE DEF t, u
    <3> QED
      BY <1>0, <2>2, <2>3, Small DEF Tokens, LostGrows
  <2>5. Noted(j)
    <3>1. CASE MoveToDlq(p, i)
      <4>1. task[p][j] = "decide" /\ Exhausted(p, j) /\ DeadLetter(j, count[p][j])
        BY <1>2, <3>1 DEF MoveToDlq, Step
      <4>2. retryCount'[j] = count[p][j] /\ dlq'[j] = dlq[j] + 1
        BY <4>1 DEF DeadLetter, TypeInv, TypeOK, StoreTypeOK, DataTypeOK
      <4> QED
        BY <2>4, <3>1, <4>1, <4>2 DEF Noted
    <3>2. CASE ~MoveToDlq(p, i)
      BY <1>2, <3>2, TaskEffect DEF Noted, SameCount, Exhausted
    <3> QED
      BY <3>1, <3>2
  <2>6. Read(j)
    BY <1>0, <1>2, TaskEffect DEF Read, SameCount
  <2> QED
    BY <2>2, <2>4, <2>5, <2>6 DEF Booked
<1> QED
  BY <1>1, <1>2

LEMMA ScanBooked ==
    ASSUME TypeInv, \A p, q \in Passes : p = q, UNCHANGED <<submitVars, workerVars>>,
           NEW p \in Passes, Scan(p), NEW j \in Jobs, Ledger(j), LostGrows
    PROVE  Booked(j)
<1>1. /\ \A q \in Passes : q = p
      /\ UNCHANGED <<queue, marker, retryCount, dlq, request, at, held>>
      /\ Unmarked(j)' = Unmarked(j) /\ Coming(j)' = Coming(j) /\ SameCount(j)
      /\ task'[p][j] = IF Orphanable(j) THEN "ttl" ELSE "idle"
      /\ Orphanable(j) => marker[j] # None
      /\ Entries(j) \in Nat
  BY OccurrencesFinite DEF TypeInv, TypeOK, WatchdogTypeOK, Scan, Orphanable, submitVars,
     workerVars, storeVars, dataVars, redisVars, hashVars, Unmarked, Coming, SameCount
<1>2. Entries(j)' \in Nat /\ Entries(j)' <= Entries(j)
  BY <1>1, SameEntries
<1>3. /\ IsFiniteSet(Unmarked(j)') /\ Popped(j) \in Nat /\ Popped(j)' \in Nat
      /\ Popped(j)' <= Popped(j)
  BY <1>1, FewerPopped DEF Ledger
<1>4. Reserve(j)' <= Reserve(j) /\ InTask(j)' <= InTask(j) /\ Read(j)
  BY <1>1 DEF Reserve, InTask, Read, InHand, BeforeStrip
<1>5. Tokens(j)' + Lost <= Tokens(j) + Lost'
  BY <1>1, <1>2, <1>3, <1>4, Small DEF Tokens, LostGrows
<1> QED
  BY <1>1, <1>3, <1>4, <1>5 DEF Booked, Noted

\* Redis executes a command once more: no more than one ticket is put up for it.
LEMMA LinkBooked ==
    ASSUME TypeInv, \A p, q \in Passes : p = q, LinkStep, NEW j \in Jobs, Ledger(j),
           LostGrows, Lost' = Lost + 1
    PROVE  Booked(j)
<1>0. /\ UNCHANGED <<request, at, held>>
      /\ request'[j] = request[j] /\ Unmarked(j)' = Unmarked(j)
      /\ Coming(j)' = Coming(j) /\ Entries(j) \in Nat
      /\ marker \in [Jobs -> Ids \cup {None}] /\ retryCount \in [Jobs -> Nat]
      /\ dlq \in [Jobs -> Nat]
  BY OccurrencesFinite DEF LinkStep, AnswerLost, submitVars, workerVars, Unmarked, Coming,
     TypeInv, TypeOK, StoreTypeOK, DataTypeOK
<1>1. /\ IsFiniteSet(Unmarked(j)') /\ Popped(j) \in Nat /\ Popped(j)' \in Nat
      /\ Popped(j)' <= Popped(j)
  BY <1>0, FewerPopped DEF Ledger
<1>q. ASSUME Entries(j)' \in Nat, Entries(j)' <= Entries(j) + 1,
             marker'[j] \in {marker[j], None}, TasksSame(j) \/ Forgotten(j),
             SameCount(j) \/ (retryCount'[j] = 0 /\ dlq'[j] = 0)
      PROVE  Booked(j)
  <2>1. Entries(j)' + Lost <= Entries(j) + Lost'
    BY <1>0, <1>q DEF LostGrows
  <2> QED
    BY <1>0, <1>q, <2>1, QuietBooked
<1>s. queue' = queue => Entries(j)' \in Nat /\ Entries(j)' <= Entries(j)
  BY SameEntries
\* The count of a task is written, and the task goes or is there still.
<1>t. ASSUME NEW p \in Passes, task[p][j] = "decide", queue' = queue,
             marker' = marker, TasksSame(j) \/ Forgotten(j),
             \/ ~Exhausted(p, j) /\ SetPending(j, count[p][j])
             \/ Exhausted(p, j) /\ DeadLetter(j, count[p][j])
      PROVE  Booked(j)
  <2>1. Reserve(j)' <= Reserve(j) /\ InTask(j)' <= InTask(j) /\ Read(j)
    BY <1>t, TasksStay
  <2>2. Tokens(j)' <= Tokens(j) /\ Tokens(j) \in Int /\ Tokens(j)' \in Int
    BY <1>0, <1>1, <1>s, <1>t, <2>1, Small DEF Tokens
  <2>3. Tokens(j)' + 1 + Lost <= Tokens(j) + Lost'
    BY <2>2 DEF LostGrows
  <2>4. /\ retryCount'[j] = count[p][j]
        /\ ~Exhausted(p, j) => dlq'[j] = dlq[j]
        /\ Exhausted(p, j) => dlq'[j] = dlq[j] + 1
    BY <1>0, <1>t DEF SetPending, DeadLetter
  <2>5. Noted(j)
    BY <1>t, <2>3, <2>4 DEF Noted
  <2>6. Tokens(j)' + Lost <= Tokens(j) + Lost'
    BY <2>2 DEF LostGrows
  <2> QED
    BY <1>1, <2>1, <2>5, <2>6 DEF Booked
<1>2. CASE AnswerLost
  <2>0. TasksSame(j)
    BY <1>2 DEF AnswerLost, watchVars, TasksSame
  <2>1. ASSUME NEW i \in Jobs, Enqueue(i) \/ Dequeue(i)
        PROVE  Booked(j)
    <3>1. Entries(j)' \in Nat /\ Entries(j)' <= Entries(j) + 1
      BY <1>0, <2>1, EnqueueEntries, DequeueEntries
    <3>2. marker' = marker /\ SameCount(j)
      BY <2>1 DEF Enqueue, Dequeue, hashVars, SameCount
    <3> QED
      BY <1>q, <2>0, <3>1, <3>2
  <2>2. ASSUME NEW i, NEW k, SetMarker(i, k)
        PROVE  Booked(j)
    <3>1. Entries(j)' \in Nat /\ Entries(j)' <= Entries(j) /\ SameCount(j)
      BY <1>s, <2>2 DEF SetMarker, hashVars, SameCount
    <3>2. InTask(j)' = InTask(j) /\ Read(j)
      BY <2>0 DEF TasksSame, InTask, Read
    <3>3. Tokens(j)' + Lost <= Tokens(j) + Lost'
      BY <1>0, <1>1, <3>1, <3>2, Small DEF Tokens, LostGrows
    <3> QED
      BY <1>1, <3>1, <3>2, <3>3 DEF Booked, Noted
  <2>3. ASSUME NEW i, ClearMarker(i)
        PROVE  Booked(j)
    <3>1. queue' = queue /\ marker'[j] \in {marker[j], None} /\ SameCount(j)
      BY <1>0, <2>3 DEF ClearMarker, hashVars, SameCount
    <3> QED
      BY <1>0, <1>q, <1>s, <2>0, <3>1
  <2>4. ASSUME NEW i, NEW s, NEW hs,
               SetStatus(i, s) \/ SetResult(i, s) \/ SetHeartbeats(hs)
        PROVE  Booked(j)
    <3>1. queue' = queue /\ marker' = marker /\ SameCount(j)
      BY <2>4 DEF SetStatus, SetResult, SetHeartbeats, hashVars, SameCount
    <3> QED
      BY <1>0, <1>q, <1>s, <2>0, <3>1
  <2>5. ASSUME NEW i \in Jobs, request[i] = "inserted", SetJob(i)
        PROVE  Booked(j)
    <3>1. queue' = queue /\ marker' = marker
      BY <2>5 DEF SetJob
    <3>2. SameCount(j) \/ (retryCount'[j] = 0 /\ dlq'[j] = 0)
      BY <1>0, <2>5 DEF SetJob, SameCount, Ledger, Early
    <3> QED
      BY <1>0, <1>q, <1>s, <2>0, <3>1, <3>2
  <2>6. ASSUME NEW p \in Passes, NEW i \in Jobs, task[p][i] = "decide",
               \/ ~Exhausted(p, i) /\ SetPending(i, count[p][i])
               \/ Exhausted(p, i) /\ DeadLetter(i, count[p][i])
        PROVE  Booked(j)
    <3>1. queue' = queue /\ marker' = marker
      BY <2>6 DEF SetPending, DeadLetter
    <3>2. CASE i # j
      <4>1. SameCount(j)
        BY <1>0, <2>6, <3>2 DEF SetPending, DeadLetter, SameCount
      <4> QED
        BY <1>0, <1>q, <1>s, <2>0, <3>1, <4>1
    <3>3. CASE i = j
      BY <1>t, <2>0, <2>6, <3>1, <3>3
    <3> QED
      BY <3>2, <3>3
  <2>7. ASSUME NEW i \in Jobs, SubmitCommand(i)
        PROVE  Booked(j)
    BY <2>1, <2>5, <2>7 DEF SubmitCommand
  <2>8. ASSUME NEW w \in Workers, LoopCommand(w)
        PROVE  Booked(j)
    BY <2>1, <2>2, <2>3, <2>4, <2>8 DEF LoopCommand
  <2>9. ASSUME NEW p \in Passes, NEW i \in Jobs, TaskCommand(p, i)
        PROVE  Booked(j)
    BY <2>1, <2>3, <2>6, <2>9 DEF TaskCommand
  <2> QED
    BY <1>2, <2>7, <2>8, <2>9 DEF AnswerLost
<1>3. ASSUME NEW p \in Passes, NEW i \in Jobs, DeadLetterFails(p, i)
      PROVE  Booked(j)
  <2>0. TasksSame(j) \/ Forgotten(j)
    <3>1. CASE Forget
      BY <3>1, ForgetKept
    <3>2. CASE Finish(p, i, "decide")
      BY <3>2 DEF Finish, TasksSame, Forgotten, TypeInv, TypeOK, WatchdogTypeOK
    <3> QED
      BY <1>3, <3>1, <3>2 DEF DeadLetterFails
  <2>1. CASE UNCHANGED dataVars
    <3>1. queue' = queue /\ marker' = marker /\ SameCount(j)
      BY <2>1 DEF dataVars, redisVars, SameCount
    <3> QED
      BY <1>0, <1>q, <1>s, <2>0, <3>1
  <2>2. CASE DeadLetter(i, count[p][i])
    <3>1. queue' = queue /\ marker' = marker /\ task[p][i] = "decide" /\ Exhausted(p, i)
      BY <1>3, <2>2 DEF DeadLetter, DeadLetterFails
    <3>2. CASE i # j
      <4>1. SameCount(j)
        BY <1>0, <2>2, <3>2 DEF DeadLetter, SameCount
      <4> QED
        BY <1>0, <1>q, <1>s, <2>0, <3>1, <4>1
    <3>3. CASE i = j
      <4>1. \A q \in Passes : q = p
        OBVIOUS
      <4>2. Forgotten(j)
        <5>1. CASE Forget
          BY <5>1, ForgetKept
        <5>2. CASE Finish(p, i, "decide")
          BY <3>3, <4>1, <5>2 DEF Finish, Forgotten, TypeInv, TypeOK, WatchdogTypeOK
        <5> QED
          BY <1>3, <5>1, <5>2 DEF DeadLetterFails
      <4>3. InTask(j)' + 1 <= InTask(j) /\ Reserve(j)' <= Reserve(j) /\ Read(j)
        BY <3>1, <3>3, <4>2 DEF Forgotten, InTask, Reserve, Read, InHand, BeforeStrip
      <4>4. Tokens(j)' + 1 + Lost <= Tokens(j) + Lost'
        BY <1>0, <1>1, <1>s, <3>1, <4>3, Small DEF Tokens, LostGrows
      <4>5. Tokens(j)' + Lost <= Tokens(j) + Lost'
        BY <1>0, <1>1, <1>s, <3>1, <4>3, Small DEF Tokens, LostGrows
      <4>6. retryCount'[j] = count[p][j] /\ dlq'[j] = dlq[j] + 1
        BY <1>0, <2>2, <3>3 DEF DeadLetter
      <4>7. Noted(j)
        BY <3>1, <3>3, <4>4, <4>6 DEF Noted
      <4> QED
        BY <1>1, <4>3, <4>5, <4>7 DEF Booked
    <3> QED
      BY <3>2, <3>3
  <2> QED
    BY <1>3, <2>1, <2>2 DEF DeadLetterFails
<1> QED
  BY <1>2, <1>3 DEF LinkStep

LEMMA StepBooked ==
    ASSUME TypeInv, \A p, q \in Passes : p = q, [Next]_vars, NEW j \in Jobs, Ledger(j),
           LostGrows, LinkStep => Lost' = Lost + 1
    PROVE  Booked(j)
<1>0. Entries(j) \in Nat
  BY OccurrencesFinite
<1>q. ASSUME queue' = queue \/ queue' = <<>>,
             marker'[j] \in {marker[j], None}, UNCHANGED <<at, held, request>>,
             TasksSame(j) \/ Forgotten(j),
             SameCount(j) \/ (retryCount'[j] = 0 /\ dlq'[j] = 0)
      PROVE  Booked(j)
  <2>1. Entries(j)' \in Nat /\ Entries(j)' + Lost <= Entries(j) + Lost'
    BY <1>0, <1>q, SameEntries DEF LostGrows
  <2>2. Unmarked(j)' = Unmarked(j) /\ request'[j] = request[j]
    BY <1>q DEF Unmarked
  <2> QED
    BY <1>0, <1>q, <2>1, <2>2, QuietBooked
<1>1. ASSUME NEW i \in Jobs, ApiStep(i)
      PROVE  Booked(j)
  BY <1>1, ApiBooked
<1>2. ASSUME NEW w \in Workers, WorkerStep(w)
      PROVE  Booked(j)
  BY <1>2, WorkerBooked
<1>3. CASE WatchdogStep
  <2>1. ASSUME NEW p \in Passes, Scan(p)
        PROVE  Booked(j)
    BY <1>3, <2>1, ScanBooked DEF WatchdogStep
  <2>2. ASSUME NEW p \in Passes, NEW i \in Jobs,
               TaskNext(p, i) \/ DlqInsertFails(p, i) \/ TaskFails(p, i)
        PROVE  Booked(j)
    BY <1>3, <2>2, TaskBooked DEF WatchdogStep
  <2>3. CASE WatchdogDies
    <3>1. UNCHANGED <<queue, marker, retryCount, dlq, at, held, request>>
      BY <1>3, <2>3 DEF WatchdogStep, WatchdogDies, dataVars, redisVars, submitVars,
         workerVars
    <3> QED
      BY <1>q, <2>3, <3>1, ForgetKept DEF WatchdogDies, SameCount
  <2> QED
    BY <1>3, <2>1, <2>2, <2>3 DEF WatchdogStep, WatchdogNext
<1>4. CASE TimeStep \/ LapseStep
  <2>1. /\ UNCHANGED <<at, held, request, task, owner, count>>
        /\ \/ UNCHANGED <<queue, marker, retryCount, dlq>>
           \/ /\ queue' = <<>> /\ marker'[j] = None
              /\ retryCount'[j] = 0 /\ dlq'[j] = 0
    BY <1>4 DEF TimeStep, LapseStep, Lapse, MarkerAges, RedisRestarts, SetHeartbeats,
       hashVars, submitVars, workerVars, watchVars
  <2> QED
    BY <1>q, <2>1 DEF TasksSame, SameCount
<1>5. CASE LinkStep
  BY <1>5, LinkBooked
<1>6. CASE UNCHANGED vars
  <2>1. UNCHANGED <<queue, marker, retryCount, dlq, at, held, request, task, owner, count>>
    BY <1>6 DEF vars, storeVars, dataVars, redisVars, submitVars, workerVars, watchVars
  <2> QED
    BY <1>q, <2>1 DEF TasksSame, SameCount
<1> QED
  BY <1>1, <1>2, <1>3, <1>4, <1>5, <1>6 DEF Next

-----------------------------------------------------------------------------
(* The ledger is kept.                                                     *)

LEMMA LostStep ==
    ASSUME TypeInv, [Next]_vars
    PROVE  LostGrows /\ (LinkStep => Lost' = Lost + 1)
<1>0. /\ Budget["link"] \in Nat /\ faults["link"] \in Nat /\ faults'["link"] \in Nat
      /\ "link" \in FaultKinds /\ faults \in [FaultKinds -> Nat]
  BY Kinds, BudgetAssumption, StepType DEF TypeInv, TypeOK, StoreTypeOK
<1>1. faults'["link"] <= faults["link"]
  <2>1. CASE Next
    BY <1>0, <2>1, FaultsFall
  <2>2. CASE UNCHANGED vars
    BY <1>0, <2>2 DEF vars, storeVars
  <2> QED
    BY <2>1, <2>2
<1>2. LinkStep => faults'["link"] = faults["link"] - 1
  BY <1>0 DEF LinkStep, AnswerLost, DeadLetterFails, Spend
<1> QED
  BY <1>0, <1>1, <1>2 DEF LostGrows, Lost

LEMMA FreshStep ==
    ASSUME TypeInv, [Next]_vars, NEW j \in Jobs
    PROVE  /\ Loose(j)' => Loose(j) \/ request[j] = "stored"
           /\ request'[j] \in Early => request[j] \in Early
<1>1. ASSUME NEW i \in Jobs, ApiStep(i)
      PROVE  /\ Loose(j)' => Loose(j) \/ request[j] = "stored"
             /\ request'[j] \in Early => request[j] \in Early
  <2>1. request'[j] \in Early => request[j] \in Early
    BY <1>1 DEF ApiStep, SubmitNext, SubmitProgress, Admit, Reject, HandlerDies,
       InsertSubmission, InsertSubmissionFails, StoreJob, EnqueueJob, Advance, Early,
       TypeInv, TypeOK, SubmitTypeOK
  <2> QED
    BY <1>1, <2>1, ApiReach
<1>2. CASE \/ \E w \in Workers : WorkerStep(w)
           \/ WatchdogStep \/ LinkStep
  <2>1. request' = request
    BY <1>2 DEF WorkerStep, WatchdogStep, LinkStep, AnswerLost, submitVars
  <2> QED
    BY <1>2, <2>1, WorkerReach, WatchdogReach, LinkReach
<1>3. CASE TimeStep \/ LapseStep \/ UNCHANGED vars
  <2>1. /\ UNCHANGED <<request, held, task>>
        /\ queue' = queue \/ queue' = <<>>
        /\ marker'[j] # None => marker[j] # None
    BY <1>3 DEF TimeStep, LapseStep, Lapse, MarkerAges, SetHeartbeats, RedisRestarts,
       vars, storeVars, dataVars, redisVars, submitVars, workerVars, watchVars
  <2>2. Queued(j)' => Queued(j)
    BY <2>1 DEF Queued, Occurrences
  <2> QED
    BY <2>1, <2>2 DEF Loose
<1> QED
  BY <1>1, <1>2, <1>3 DEF Next

LEMMA TokensNat ==
    ASSUME TypeInv, NEW j \in Jobs, Ledger(j)
    PROVE  Tokens(j) \in Nat
<1>1. Entries(j) \in Nat /\ Popped(j) \in Nat
  BY OccurrencesFinite, FS_CardinalityType DEF Ledger, Popped
<1> QED
  BY <1>1, Small DEF Tokens

LEMMA LedgerKept ==
    ASSUME TypeInv, TypeInv', \A p, q \in Passes : p = q, NEW j \in Jobs, Ledger(j),
           Booked(j), LostGrows, Tokens(j)' \in Nat,
           Loose(j)' => Loose(j) \/ request[j] = "stored",
           request'[j] \in Early => request[j] \in Early
    PROVE  Ledger(j)'
<1>0. /\ Tokens(j) \in Nat /\ Tokens(j)' \in Nat /\ Lost \in Int /\ Lost' \in Int
      /\ MAX_RETRIES \in Nat /\ dlq[j] \in Nat /\ retryCount[j] \in Nat
      /\ dlq'[j] \in Nat /\ retryCount'[j] \in Nat
      /\ \A p \in Passes : count[p][j] \in Nat /\ count'[p][j] \in Nat
      /\ Lost <= Lost' /\ Tokens(j)' + Lost <= Tokens(j) + Lost'
  BY TokensNat, RetriesAssumption DEF Booked, LostGrows, TypeInv, TypeOK, StoreTypeOK,
     DataTypeOK, WatchdogTypeOK
<1>l. /\ Tokens(j) + dlq[j] <= 1 + Lost
      /\ Tokens(j) + retryCount[j] <= MAX_RETRIES + 1 + Lost
      /\ \A p \in Passes : task[p][j] \in {"strip", "decide"} =>
           /\ Tokens(j) + count[p][j] <= MAX_RETRIES + 2 + Lost
           /\ dlq[j] # 0 => count[p][j] > MAX_RETRIES
      /\ dlq[j] # 0 => retryCount[j] > MAX_RETRIES
  BY DEF Ledger
<1>n. Noted(j) /\ Read(j) /\ IsFiniteSet(Unmarked(j)')
  BY DEF Booked
<1>1. /\ Tokens(j)' + dlq'[j] <= 1 + Lost'
      /\ Tokens(j)' + retryCount'[j] <= MAX_RETRIES + 1 + Lost'
      /\ dlq'[j] # 0 => retryCount'[j] > MAX_RETRIES
  BY <1>0, <1>l, <1>n DEF Noted, SameCount, Exhausted
<1>2. ASSUME NEW p \in Passes, task'[p][j] \in {"strip", "decide"}
      PROVE  /\ Tokens(j)' + count'[p][j] <= MAX_RETRIES + 2 + Lost'
             /\ dlq'[j] # 0 => count'[p][j] > MAX_RETRIES
  <2>1. CASE task[p][j] = "retries" /\ count'[p][j] = retryCount[j] + 1 /\ SameCount(j)
    BY <1>0, <1>l, <2>1 DEF SameCount
  <2>2. CASE task[p][j] \in {"strip", "decide"} /\ count'[p][j] = count[p][j]
    <3>1. Tokens(j)' + count'[p][j] <= MAX_RETRIES + 2 + Lost'
      BY <1>0, <1>l, <2>2
    <3>2. dlq'[j] # 0 => count[p][j] > MAX_RETRIES
      BY <1>0, <1>l, <1>n, <2>2 DEF Noted, SameCount, Exhausted
    <3> QED
      BY <2>2, <3>1, <3>2
  <2> QED
    BY <1>n, <1>2, <2>1, <2>2 DEF Read
<1>3. ASSUME request'[j] \in Early
      PROVE  ~Loose(j)' /\ dlq'[j] = 0
  <2>1. request[j] \in Early /\ ~Loose(j) /\ dlq[j] = 0 /\ request[j] # "stored"
    BY <1>3 DEF Ledger, Early
  <2>2. \A p \in Passes : task[p][j] # "decide"
    BY <2>1 DEF Loose
  <2> QED
    BY <1>n, <2>1, <2>2 DEF Noted, SameCount
<1> QED
  BY <1>n, <1>1, <1>2, <1>3 DEF Ledger

LEMMA TicketStep ==
    ASSUME TicketInv, \A p, q \in Passes : p = q, [Next]_vars
    PROVE  TicketInv'
<1>0. TypeInv /\ TypeInv' /\ LostGrows /\ (LinkStep => Lost' = Lost + 1)
  BY StepType, LostStep DEF TicketInv
<1>1. ASSUME NEW j \in Jobs
      PROVE  Ledger(j)'
  <2>1. Ledger(j)
    BY DEF TicketInv
  <2>2. Booked(j)
    BY <1>0, <2>1, StepBooked
  <2>3. Entries(j)' \in Nat /\ Popped(j)' \in Nat
    <3>1. Len(queue') \in Nat
      BY <1>0 DEF TypeInv, TypeOK, StoreTypeOK, DataTypeOK
    <3>2. /\ Occurrences(j)' \in SUBSET (1..Len(queue')) /\ IsFiniteSet(1..Len(queue'))
      BY <3>1, FS_Interval DEF Occurrences
    <3>3. IsFiniteSet(Occurrences(j)') /\ IsFiniteSet(Unmarked(j)')
      BY <2>2, <3>2, FS_Subset DEF Booked
    <3> QED
      BY <3>3, FS_CardinalityType DEF Entries, Popped
  <2>4. Tokens(j)' \in Nat
    BY <2>3, Small DEF Tokens
  <2> QED
    BY <1>0, <2>1, <2>2, <2>4, FreshStep, LedgerKept
<1> QED
  BY <1>0, <1>1 DEF TicketInv

LEMMA TicketStays ==
    ASSUME \A p, q \in Passes : p = q
    PROVE  Spec => []TicketInv
<1>1. Init => TicketInv
  <2> SUFFICES ASSUME Init, NEW j \in Jobs PROVE Ledger(j)
    BY InitType DEF TicketInv
  <2>2. Occurrences(j) = {} /\ Unmarked(j) = {}
    BY DEF Init, EmptyRedis, WorkerInit, Occurrences, Unmarked
  <2>3. Entries(j) = 0 /\ Popped(j) = 0 /\ IsFiniteSet(Unmarked(j))
    BY <2>2, FS_EmptySet DEF Entries, Popped
  <2>4. /\ marker[j] = None /\ dlq[j] = 0 /\ retryCount[j] = 0
        /\ \A p \in Passes : task[p][j] = "idle"
        /\ request[j] = "new" /\ \A w \in Workers : held[w] = None
    BY DEF Init, EmptyRedis, WatchdogInit, Idle, SubmitInit, WorkerInit
  <2>5. Reserve(j) = 0 /\ InTask(j) = 0 /\ Coming(j) = 1
    BY <2>4 DEF Reserve, InTask, Coming, BeforeStrip, InHand
  <2>6. Lost = 0 /\ MAX_RETRIES \in Nat
    BY Kinds, BudgetAssumption, RetriesAssumption DEF Init, Lost
  <2>7. ~Loose(j)
    BY <2>2, <2>4, NoneAssumption DEF Loose, Queued
  <2> QED
    BY <2>3, <2>4, <2>5, <2>6, <2>7 DEF Ledger, Tokens
<1>2. TicketInv /\ [Next]_vars => TicketInv'
  BY TicketStep
<1> QED
  BY <1>1, <1>2, PTL DEF Spec

LEMMA TicketsCounted ==
    ASSUME TicketInv, \A p, q \in Passes : p = q, NEW j \in Jobs
    PROVE  Tickets(j) \in Nat /\ Tickets(j) <= Tokens(j) /\ Tokens(j) \in Nat
<1>0. Ledger(j) /\ TypeInv /\ Entries(j) \in Nat /\ Popped(j) \in Nat
  BY OccurrencesFinite, FS_CardinalityType DEF TicketInv, Ledger, Popped
<1> DEFINE C == {marker[j]} \ {None}
           D == HandledBy(j)
<1>1. /\ Cardinality(C) \in {0, 1} /\ (C = {} => Cardinality(C) = 0)
      /\ Cardinality(D) \in {0, 1} /\ (D = {} => Cardinality(D) = 0)
  <2>1. \A x, y \in C : x = y
    OBVIOUS
  <2>2. \A x, y \in D : x = y
    BY DEF HandledBy
  <2> HIDE DEF C, D
  <2> QED
    BY <2>1, <2>2, AtMostOne
<1>2. (C # {} => Reserve(j) = 1) /\ (D # {} => InTask(j) = 1)
  BY DEF Reserve, InTask, HandledBy
<1>3. Tickets(j) = Entries(j) + Popped(j) + Cardinality(C) + Cardinality(D)
  BY DEF Tickets, Entries, Popped
<1> HIDE DEF C, D
<1> QED
  BY <1>0, <1>1, <1>2, <1>3, Small DEF Tokens

\* Whatever fails and whoever is taken for dead, as long as one pass has ended
\* before the next begins: only one process at a time can be given a job, but for
\* one more per answer of Redis that was lost, and none once it is in the dead
\* letter queue, but for those.
THEOREM TicketIsUnique ==
    ASSUME \A p, q \in Passes : p = q
    PROVE  Spec => []OneTicket
<1>1. TicketInv => OneTicket
  <2> SUFFICES ASSUME TicketInv, NEW j \in Jobs
               PROVE  Tickets(j) + dlq[j] <= 1 + Lost
    BY DEF OneTicket
  <2>1. /\ Ledger(j) /\ dlq[j] \in Nat /\ Lost \in Int
    BY BudgetAssumption, Kinds DEF TicketInv, TypeInv, TypeOK, StoreTypeOK, DataTypeOK, Lost
  <2> QED
    BY <2>1, TicketsCounted DEF Ledger
<1> QED
  BY <1>1, TicketStays, PTL

\* Under the same assumption alone, a job is put up MAX_RETRIES times again at
\* most, but for one more per lost answer, and reaches the dead letter queue only
\* with every retry used up: the count a task has read bounds what it writes.
THEOREM GivenUpForGood ==
    ASSUME \A p, q \in Passes : p = q
    PROVE  Spec => []GivenUpOnce
<1>1. TicketInv => GivenUpOnce
  <2> SUFFICES ASSUME TicketInv, NEW j \in Jobs
               PROVE  /\ retryCount[j] + Tickets(j) <= MAX_RETRIES + 1 + Lost
                      /\ dlq[j] # 0 => retryCount[j] > MAX_RETRIES
    BY DEF GivenUpOnce
  <2>1. /\ Ledger(j) /\ retryCount[j] \in Nat /\ Lost \in Int /\ MAX_RETRIES \in Nat
    BY BudgetAssumption, RetriesAssumption, Kinds
       DEF TicketInv, TypeInv, TypeOK, StoreTypeOK, DataTypeOK, Lost
  <2> QED
    BY <2>1, TicketsCounted DEF Ledger
<1> QED
  BY <1>1, TicketStays, PTL

=============================================================================

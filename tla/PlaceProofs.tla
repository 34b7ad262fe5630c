----------------------------- MODULE PlaceProofs ----------------------------
(***************************************************************************)
(* Where a job is.  Under the assumptions of the recovery protocol a job   *)
(* is in one place at a time, whoever dies wherever, and what a worker is  *)
(* running is marked as its own.                                           *)
(*                                                                         *)
(* The argument is made job by job.  A step concerns one job: all others   *)
(* are the Same after it.  Placed says, of one job, which places exclude   *)
(* each other: a job in the queue is nowhere else; a job in a worker's     *)
(* hands carries that worker's marker from Claim to Release, and no task   *)
(* of the watchdog has gone past its owner's heartbeat with it, because a  *)
(* worker that runs has one.                                               *)
(***************************************************************************)
EXTENDS EngineProofs, FiniteSetTheorems

\* A worker that is told to stop takes no heartbeat from a worker that runs, by
\* its DEL or by its silence: no other has its id, and it does not outlive its
\* own heartbeat.
StopsSafely ==
    /\ \A v, w \in Workers : WorkerId[v] = WorkerId[w] => v = w
    /\ ~DrainOutlivesHeartbeat

\* What the protocol takes for granted: stopping is safe or nobody is told to
\* stop, passes of the watchdog do not overlap, a worker that runs keeps its
\* heartbeat until its shutdown deletes it, Redis keeps its data, and no answer of
\* Redis is lost.  Workers, handlers and the watchdog may die, and PostgreSQL may
\* fail, at any step.
\* While nobody is told to stop, workers may share one id, as the replicas of
\* docker-compose.yml do: a heartbeat that one of them keeps is then not the
\* others' to lose.
RecoveryAssumed ==
    /\ StopsSafely \/ Budget["signal"] = 0
    /\ \A p, q \in Passes : p = q
    /\ ~StallsPossible
    /\ Budget["redis"] = 0 /\ Budget["link"] = 0

Unheld(j) == \A w \in Workers : ~Has(w, j)
Untouched(j) == \A p \in Passes : task[p][j] = "idle"

Placed(j) ==
    /\ Queued(j) => marker[j] = None /\ Unheld(j) /\ Untouched(j)
    /\ ~Accepted(j) => ~Queued(j) /\ marker[j] = None /\ Unheld(j) /\ Untouched(j)
    /\ request[j] \in {"stored", "queued"} => j \in payload
    /\ \A w \in Workers : Has(w, j) =>
         /\ \A v \in Workers : Has(v, j) => v = w
         /\ at[w] = "popped" => marker[j] = None /\ Untouched(j)
         /\ at[w] # "popped" => /\ marker[j] = WorkerId[w]
                                /\ \A p \in Passes : task[p][j] \in {"idle", "ttl"}
    /\ \A p \in Passes :
         /\ task[p][j] \in {"ttl"} \cup BeforeStrip => marker[j] \in {None, owner[p][j]}
         /\ task[p][j] \in InHand \cup AfterDlq => marker[j] = None

NoRepeat == \A k, l \in 1..Len(queue) : queue[k] = queue[l] => k = l

\* A worker without a job holds none, none finds a job without its payload, and
\* one that runs has a heartbeat.
WorkerOK(w) ==
    /\ at[w] \in HandsFree => held[w] = None
    /\ at[w] \notin Missing
    /\ at[w] # "dead" /\ Connected(w) => WorkerId[w] \in heartbeat
    /\ ~StopsSafely => leaving[w] = "none"

FaultsOK ==
    /\ faults["redis"] = 0 /\ faults["link"] = 0
    /\ ~StopsSafely => faults["signal"] = 0

World == NoRepeat /\ FaultsOK /\ \A w \in Workers : WorkerOK(w)

PlaceInv == TypeInv /\ World /\ \A j \in Jobs : Placed(j)

-----------------------------------------------------------------------------
(* The queue.                                                              *)

LEMMA QueuedAt ==
    ASSUME NEW j \in Jobs
    PROVE  Queued(j) <=> \E k \in 1..Len(queue) : queue[k] = j
BY DEF Queued, Occurrences

LEMMA EnqueueQueued ==
    ASSUME queue \in Seq(Jobs), NEW i \in Jobs, Enqueue(i)
    PROVE  /\ \A j \in Jobs : Queued(j)' <=> Queued(j) \/ j = i
           /\ NoRepeat /\ ~Queued(i) => NoRepeat'
<1>1. /\ Len(queue') = Len(queue) + 1 /\ queue'[1] = i
      /\ \A k \in 1..Len(queue) : queue'[k + 1] = queue[k]
      /\ \A k \in 1..Len(queue') : k = 1 \/ (k - 1 \in 1..Len(queue) /\ queue'[k] = queue[k - 1])
      /\ Len(queue) \in Nat
  BY DEF Enqueue
<1>2. ASSUME NEW j \in Jobs
      PROVE  Queued(j)' <=> Queued(j) \/ j = i
  <2>1. ASSUME Queued(j) PROVE Queued(j)'
    <3>1. PICK k \in 1..Len(queue) : queue[k] = j
      BY <2>1, QueuedAt
    <3>2. k + 1 \in 1..Len(queue') /\ queue'[k + 1] = j
      BY <1>1, <3>1
    <3> QED
      BY <3>2 DEF Queued, Occurrences
  <2>2. ASSUME j = i PROVE Queued(j)'
    <3>1. 1 \in 1..Len(queue') /\ queue'[1] = j
      BY <1>1, <2>2
    <3> QED
      BY <3>1 DEF Queued, Occurrences
  <2>3. ASSUME Queued(j)', j # i PROVE Queued(j)
    <3>1. PICK k \in 1..Len(queue') : queue'[k] = j
      BY <2>3 DEF Queued, Occurrences
    <3>2. k - 1 \in 1..Len(queue) /\ queue[k - 1] = j
      BY <1>1, <2>3, <3>1
    <3> QED
      BY <3>2 DEF Queued, Occurrences
  <2> QED
    BY <2>1, <2>2, <2>3
<1>3. ASSUME NoRepeat, ~Queued(i) PROVE NoRepeat'
  <2> SUFFICES ASSUME NEW k \in 1..Len(queue'), NEW l \in 1..Len(queue'),
                      queue'[k] = queue'[l]
               PROVE  k = l
    BY DEF NoRepeat
  <2>1. \A m \in 1..Len(queue) : queue[m] # i
    BY <1>3, QueuedAt
  <2>2. CASE k = 1 \/ l = 1
    BY <1>1, <2>1, <2>2
  <2>3. CASE k # 1 /\ l # 1
    <3>1. k - 1 = l - 1
      BY <1>1, <1>3, <2>3 DEF NoRepeat
    <3> QED  BY <3>1
  <2> QED
    BY <2>2, <2>3
<1> QED
  BY <1>2, <1>3

LEMMA DequeueShape ==
    ASSUME queue \in Seq(Jobs), NEW i \in Jobs, Dequeue(i)
    PROVE  LET n == Len(queue)
           IN  /\ n \in Nat /\ n >= 1 /\ queue[n] = i /\ Len(queue') = n - 1
               /\ \A k \in 1..(n - 1) : queue'[k] = queue[k]
<1> DEFINE n == Len(queue)
<1>0. n \in Nat /\ n # 0
  BY DEF Dequeue
<1>a. queue[n] = i /\ queue' = SubSeq(queue, 1, n - 1)
  BY DEF Dequeue
<1>b. Len(queue') = n - 1
  <2> HIDE DEF n
  <2>0. n - 1 \in Nat /\ n - 1 <= n
    BY <1>0
  <2>1. PICK m \in Nat : m = n - 1 /\ m <= n
    BY <2>0
  <2> USE DEF n
  <2>2. Len(SubSeq(queue, 1, m)) = m
    BY <1>0, <2>1
  <2> QED
    BY <1>a, <2>1, <2>2
<1>c. ASSUME NEW k \in 1..(n - 1)
      PROVE  queue'[k] = queue[k]
  <2>1. k \in Nat /\ 1 <= k /\ k <= n - 1 /\ 1 + k - 1 = k
    BY <1>0
  <2>2. SubSeq(queue, 1, n - 1)[k] = queue[1 + k - 1]
    BY <1>0, <2>1
  <2> QED
    BY <1>a, <2>1, <2>2
<1> QED
  BY <1>0, <1>a, <1>b, <1>c

LEMMA DequeueQueued ==
    ASSUME queue \in Seq(Jobs), NEW i \in Jobs, Dequeue(i)
    PROVE  /\ Queued(i)
           /\ \A j \in Jobs : Queued(j)' => Queued(j)
           /\ NoRepeat => /\ \A j \in Jobs : Queued(j)' <=> Queued(j) /\ j # i
                          /\ NoRepeat'
<1> DEFINE n == Len(queue)
<1>1. /\ n \in Nat /\ n >= 1 /\ queue[n] = i
      /\ Len(queue') = n - 1 /\ \A k \in 1..(n - 1) : queue'[k] = queue[k]
  BY DequeueShape
<1>2. Queued(i)
  BY <1>1 DEF Queued, Occurrences
<1>3. ASSUME NEW j \in Jobs, Queued(j)'
      PROVE  Queued(j) /\ (NoRepeat => j # i)
  <2>1. PICK k \in 1..(n - 1) : queue'[k] = j
    BY <1>1, <1>3 DEF Queued, Occurrences
  <2>2. k \in 1..n /\ queue[k] = j /\ k # n
    BY <1>1, <2>1
  <2> QED
    BY <1>1, <2>2 DEF Queued, Occurrences, NoRepeat
<1>4. ASSUME NEW j \in Jobs, Queued(j), j # i
      PROVE  Queued(j)'
  <2>1. PICK k \in 1..n : queue[k] = j
    BY <1>4 DEF Queued, Occurrences
  <2>2. k \in 1..Len(queue') /\ queue'[k] = j
    BY <1>1, <1>4, <2>1
  <2> QED
    BY <2>2 DEF Queued, Occurrences
<1>5. NoRepeat => NoRepeat'
  BY <1>1 DEF NoRepeat
<1> QED
  BY <1>2, <1>3, <1>4, <1>5

-----------------------------------------------------------------------------
(* What a step leaves alone: the jobs it does not concern.                 *)

DataSame(j) ==
    /\ Queued(j)' <=> Queued(j)
    /\ j \in payload' <=> j \in payload
    /\ marker'[j] = marker[j] /\ jobStatus'[j] = jobStatus[j]
    /\ retryCount'[j] = retryCount[j] /\ cache'[j] = cache[j] /\ dlq'[j] = dlq[j]
    /\ submission'[j] = submission[j] /\ row'[j] = row[j]

HandsSame(j) ==
    \A w \in Workers :
        /\ held'[w] = j <=> held[w] = j
        /\ Has(w, j)' <=> Has(w, j)
        /\ held[w] = j => at'[w] = at[w] /\ outcome'[w] = outcome[w]

TasksSame(j) ==
    \A p \in Passes : /\ task'[p][j] = task[p][j] /\ owner'[p][j] = owner[p][j]
                      /\ count'[p][j] = count[p][j]

Same(j) ==
    DataSame(j) /\ HandsSame(j) /\ TasksSame(j) /\ request'[j] = request[j]

\* A command for one job changes nothing of another.
LEMMA CommandSame ==
    ASSUME TypeInv, NoRepeat, NEW i \in Jobs, NEW j \in Jobs, j # i,
           NEW k, NEW s, NEW n, NEW o,
           \/ Enqueue(i) \/ Dequeue(i) \/ SetMarker(i, k) \/ ClearMarker(i)
           \/ SetJob(i) \/ SetStatus(i, s) \/ SetPending(i, n) \/ DeadLetter(i, n)
           \/ SetResult(i, s)
           \/ CreateSubmission(i) \/ UpdateSubmission(i, s) \/ InsertRow(i, o)
    PROVE  DataSame(j)
<1> USE DEF DataSame, TypeInv, TypeOK, StoreTypeOK, DataTypeOK, hashVars, pgVars,
            redisVars
<1>1. CASE Enqueue(i)
  BY <1>1, EnqueueQueued DEF Enqueue
<1>2. CASE Dequeue(i)
  BY <1>2, DequeueQueued DEF Dequeue
<1>3. CASE SetMarker(i, k) \/ ClearMarker(i)
  BY <1>3 DEF SetMarker, ClearMarker, Queued, Occurrences
<1>4. CASE SetJob(i) \/ SetStatus(i, s) \/ SetPending(i, n) \/ DeadLetter(i, n)
  BY <1>4 DEF SetJob, SetStatus, SetPending, DeadLetter, Queued, Occurrences
<1>5. CASE SetResult(i, s)
  BY <1>5 DEF SetResult, Queued, Occurrences
<1>6. CASE CreateSubmission(i) \/ UpdateSubmission(i, s) \/ InsertRow(i, o)
  BY <1>6 DEF CreateSubmission, UpdateSubmission, InsertRow, Queued, Occurrences
<1> QED
  BY <1>1, <1>2, <1>3, <1>4, <1>5, <1>6

LEMMA QuietSame ==
    ASSUME NEW j \in Jobs, NEW hs,
           \/ UNCHANGED dataVars \/ SetHeartbeats(hs)
           \/ \E i \in Jobs : MarkerAges(i)
    PROVE  DataSame(j)
BY DEF DataSame, Queued, Occurrences, SetHeartbeats, MarkerAges, hashVars, pgVars,
       redisVars, dataVars

\* A worker leaves the loops of the others alone.
LEMMA WorkerAlone ==
    ASSUME TypeInv, NEW w \in Workers, WorkerNext(w),
           NEW v \in Workers, v # w
    PROVE  /\ at'[v] = at[v] /\ held'[v] = held[v]
           /\ outcome'[v] = outcome[v] /\ leaving'[v] = leaving[v]
<1> USE DEF TypeInv, TypeOK, WorkerTypeOK, Go, RedisStep, PgStep, Halt
<1>1. CASE TakeJob(w)
  BY <1>1 DEF TakeJob, Pop, PollEnds, Drop, Claim, Load
<1>2. CASE RunJob(w)
  BY <1>2 DEF RunJob, SetRunning, PgRunning, ExecuteThrows, Execute, InsertResult,
     InsertDuplicate, PgFinal, SetFinal, CacheResult
<1>3. CASE EndJob(w)
  BY <1>3 DEF EndJob, FallbackInsert, FallbackPg, FallbackSet, FallbackCache,
     SetFailed, PgFailed, Release, Unwind
<1>4. CASE PgFaultStep(w)
  BY <1>4 DEF PgFaultStep, FallbackInsertFails, FallbackPgFails, PgRunningFails,
     InsertResultFails, PgFinalFails, PgFailedFails
<1>5. CASE Beat(w) \/ Sigterm(w) \/ DrainEnds(w) \/ Exit(w) \/ Crash(w) \/ Start(w)
  BY <1>5 DEF Beat, Sigterm, DrainEnds, Exit, Crash, Start, workerVars
<1> QED
  BY <1>1, <1>2, <1>3, <1>4, <1>5 DEF WorkerNext, LoopStep

\* A worker's commands are for the job it holds before the step, or after it.
LEMMA WorkerData ==
    ASSUME TypeInv, NoRepeat, NEW w \in Workers, WorkerNext(w),
           NEW j \in Jobs, held[w] # j, held'[w] # j
    PROVE  DataSame(j)
<1>1. at[w] \notin HandsFree => held[w] \in Jobs
  BY DEF TypeInv, HandsOK
<1> USE <1>1 DEF HandsFree, Go, RedisStep, PgStep, PgFails, storeVars
<1>2. CASE TakeJob(w)
  <2>1. ASSUME NEW i \in Jobs, Pop(w, i)
        PROVE  DataSame(j)
    BY <2>1, CommandSame DEF Pop, TypeInv, TypeOK, WorkerTypeOK
  <2>2. CASE PollEnds(w) \/ Drop(w) \/ Load(w)
    BY <2>2, QuietSame DEF PollEnds, Drop, Load
  <2>3. CASE Claim(w)
    BY <2>3, CommandSame DEF Claim
  <2> QED
    BY <1>2, <2>1, <2>2, <2>3 DEF TakeJob
<1>3. CASE RunJob(w)
  <2>1. CASE SetRunning(w) \/ PgRunning(w) \/ InsertResult(w)
    BY <2>1, CommandSame DEF SetRunning, PgRunning, InsertResult
  <2>2. CASE PgFinal(w) \/ SetFinal(w) \/ CacheResult(w)
    BY <2>2, CommandSame DEF PgFinal, SetFinal, CacheResult
  <2>3. CASE ExecuteThrows(w) \/ InsertDuplicate(w) \/ \E o \in Outcomes : Execute(w, o)
    BY <2>3, QuietSame DEF ExecuteThrows, InsertDuplicate, Execute
  <2> QED
    BY <1>3, <2>1, <2>2, <2>3 DEF RunJob
<1>4. CASE EndJob(w)
  <2>1. CASE FallbackInsert(w) \/ FallbackPg(w) \/ FallbackSet(w)
    BY <2>1, CommandSame, QuietSame DEF FallbackInsert, FallbackPg, FallbackSet
  <2>2. CASE FallbackCache(w) \/ SetFailed(w) \/ PgFailed(w)
    BY <2>2, CommandSame DEF FallbackCache, SetFailed, PgFailed
  <2>3. CASE Release(w) \/ Unwind(w)
    BY <2>3, CommandSame DEF Release, Unwind
  <2> QED
    BY <1>4, <2>1, <2>2, <2>3 DEF EndJob
<1>5. CASE PgFaultStep(w)
  <2>1. CASE FallbackInsertFails(w) \/ InsertResultFails(w)
    BY <2>1, CommandSame, QuietSame DEF FallbackInsertFails, InsertResultFails
  <2>2. CASE FallbackPgFails(w) \/ PgRunningFails(w)
    BY <2>2, CommandSame, QuietSame DEF FallbackPgFails, PgRunningFails
  <2>3. CASE PgFinalFails(w) \/ PgFailedFails(w)
    BY <2>3, CommandSame, QuietSame DEF PgFinalFails, PgFailedFails
  <2> QED
    BY <1>5, <2>1, <2>2, <2>3 DEF PgFaultStep
<1>6. CASE Beat(w) \/ Sigterm(w) \/ DrainEnds(w) \/ Exit(w) \/ Crash(w) \/ Start(w)
  BY <1>6, QuietSame DEF Beat, Sigterm, DrainEnds, Exit, Crash, Start
<1> QED
  BY <1>2, <1>3, <1>4, <1>5, <1>6 DEF WorkerNext, LoopStep

LEMMA WorkerSame ==
    ASSUME TypeInv, NoRepeat, NEW w \in Workers, WorkerStep(w),
           NEW j \in Jobs, held[w] # j, held'[w] # j
    PROVE  Same(j)
<1>1. DataSame(j)
  BY WorkerData DEF WorkerStep
<1>2. HandsSame(j)
  BY WorkerAlone DEF WorkerStep, HandsSame, Has, Connected
<1> QED
  BY <1>1, <1>2 DEF WorkerStep, Same, TasksSame, submitVars, watchVars

LEMMA ApiSame ==
    ASSUME TypeInv, NoRepeat, NEW i \in Jobs, ApiStep(i), NEW j \in Jobs, j # i
    PROVE  Same(j)
<1>1. DataSame(j) /\ request'[j] = request[j]
  <2> USE DEF Advance, PgFails, storeVars, TypeInv, TypeOK, SubmitTypeOK
  <2>1. CASE Admit(i) \/ Reject(i) \/ HandlerDies(i)
    BY <2>1, QuietSame DEF Admit, Reject, HandlerDies
  <2>2. CASE InsertSubmission(i) \/ InsertSubmissionFails(i)
    BY <2>2, CommandSame, QuietSame DEF InsertSubmission, InsertSubmissionFails
  <2>3. CASE StoreJob(i) \/ EnqueueJob(i)
    BY <2>3, CommandSame DEF StoreJob, EnqueueJob
  <2> QED
    BY <2>1, <2>2, <2>3 DEF ApiStep, SubmitNext, SubmitProgress
<1> QED
  BY <1>1 DEF ApiStep, Same, TasksSame, HandsSame, Has, Connected, workerVars, watchVars

\* What one await of the watchdog does to the tasks.
LEMMA TaskAlone ==
    ASSUME TypeInv, NEW p \in Passes, NEW i \in Jobs,
           TaskNext(p, i) \/ DlqInsertFails(p, i) \/ TaskFails(p, i)
    PROVE  \/ Forget
           \/ \A q \in Passes, j \in Jobs : q # p \/ j # i =>
                /\ task'[q][j] = task[q][j] /\ owner'[q][j] = owner[q][j]
                /\ count'[q][j] = count[q][j]
<1> USE DEF TypeInv, TypeOK, WatchdogTypeOK, Step, Finish
<1>1. CASE OwnerAlive(p, i) \/ OwnerSilent(p, i) \/ CheckResult(p, i)
           \/ ClearFinished(p, i) \/ ReadRetries(p, i) \/ Strip(p, i)
  BY <1>1 DEF OwnerAlive, OwnerSilent, CheckResult, ClearFinished, ReadRetries, Strip
<1>2. CASE MoveToDlq(p, i) \/ DlqInsert(p, i) \/ DlqStatus(p, i)
           \/ ResetPending(p, i) \/ PgPending(p, i) \/ Requeue(p, i)
  BY <1>2 DEF MoveToDlq, DlqInsert, DlqStatus, ResetPending, PgPending, Requeue
<1>3. CASE DlqInsertFails(p, i) \/ TaskFails(p, i)
  BY <1>3 DEF DlqInsertFails, TaskFails
<1> QED
  BY <1>1, <1>2, <1>3 DEF TaskNext

LEMMA TaskData ==
    ASSUME TypeInv, NoRepeat, NEW p \in Passes, NEW i \in Jobs,
           TaskNext(p, i) \/ DlqInsertFails(p, i) \/ TaskFails(p, i),
           NEW j \in Jobs, j # i
    PROVE  DataSame(j)
<1> USE DEF PgFails, storeVars
<1>1. CASE OwnerAlive(p, i) \/ OwnerSilent(p, i) \/ CheckResult(p, i)
           \/ ReadRetries(p, i)
  BY <1>1, QuietSame DEF OwnerAlive, OwnerSilent, CheckResult, ReadRetries
<1>2. CASE ClearFinished(p, i) \/ Strip(p, i) \/ MoveToDlq(p, i)
  BY <1>2, CommandSame DEF ClearFinished, Strip, MoveToDlq
<1>3. CASE DlqInsert(p, i) \/ DlqStatus(p, i) \/ DlqInsertFails(p, i)
  BY <1>3, CommandSame, QuietSame DEF DlqInsert, DlqStatus, DlqInsertFails
<1>4. CASE ResetPending(p, i) \/ PgPending(p, i) \/ Requeue(p, i) \/ TaskFails(p, i)
  BY <1>4, CommandSame, QuietSame DEF ResetPending, PgPending, Requeue, TaskFails
<1> QED
  BY <1>1, <1>2, <1>3, <1>4 DEF TaskNext

\* No task is left of any pass.
Forgotten(j) == \A p \in Passes : task'[p][j] = "idle"

Kept(j) ==
    /\ DataSame(j) /\ HandsSame(j) /\ request'[j] = request[j]
    /\ TasksSame(j) \/ Forgotten(j)

LEMMA SameKept == ASSUME NEW j \in Jobs, Same(j) PROVE Kept(j)
BY DEF Same, Kept

LEMMA HandsKept ==
    ASSUME NEW j \in Jobs, UNCHANGED <<submitVars, workerVars>>
    PROVE  HandsSame(j) /\ request'[j] = request[j]
BY DEF HandsSame, Has, Connected, submitVars, workerVars

LEMMA ForgetKept == ASSUME NEW j \in Jobs, Forget PROVE Forgotten(j)
BY DEF Forget, Forgotten, Idle

LEMMA TaskKept ==
    ASSUME TypeInv, NoRepeat, UNCHANGED <<submitVars, workerVars>>,
           NEW p \in Passes, NEW i \in Jobs,
           TaskNext(p, i) \/ DlqInsertFails(p, i) \/ TaskFails(p, i),
           NEW j \in Jobs, j # i
    PROVE  /\ Kept(j)
           /\ TaskNext(p, i) \/ DlqInsertFails(p, i) => Same(j)
<1>1. DataSame(j) /\ HandsSame(j) /\ request'[j] = request[j]
  BY TaskData, HandsKept
<1>2. TasksSame(j) \/ Forgotten(j)
  BY TaskAlone, ForgetKept DEF TasksSame
<1>3. ASSUME TaskNext(p, i) \/ DlqInsertFails(p, i)
      PROVE  TasksSame(j)
  <2> USE DEF Step, Finish, TasksSame, TypeInv, TypeOK, WatchdogTypeOK
  <2>1. CASE OwnerAlive(p, i) \/ OwnerSilent(p, i) \/ CheckResult(p, i)
             \/ ClearFinished(p, i)
    BY <2>1 DEF OwnerAlive, OwnerSilent, CheckResult, ClearFinished
  <2>2. CASE ReadRetries(p, i) \/ Strip(p, i) \/ MoveToDlq(p, i)
    BY <2>2 DEF ReadRetries, Strip, MoveToDlq
  <2>3. CASE DlqInsert(p, i) \/ DlqStatus(p, i) \/ DlqInsertFails(p, i)
    BY <2>3 DEF DlqInsert, DlqStatus, DlqInsertFails
  <2>4. CASE ResetPending(p, i) \/ PgPending(p, i) \/ Requeue(p, i)
    BY <2>4 DEF ResetPending, PgPending, Requeue
  <2> QED
    BY <1>3, <2>1, <2>2, <2>3, <2>4 DEF TaskNext
<1> QED
  BY <1>1, <1>2, <1>3 DEF Kept, Same

LEMMA DogDiesKept ==
    ASSUME WatchdogDies, UNCHANGED <<submitVars, workerVars>>, NEW j \in Jobs
    PROVE  Kept(j)
BY QuietSame, HandsKept, ForgetKept DEF WatchdogDies, Kept

LEMMA NoLink == ASSUME faults["link"] = 0 PROVE ~LinkStep
BY DEF LinkStep, AnswerLost, DeadLetterFails, Spend

\* Time concerns no job, and neither does a heartbeat.
LEMMA TimeSame ==
    ASSUME NEW j \in Jobs, TimeStep \/ LapseStep, faults["redis"] = 0
    PROVE  Same(j)
<1>1. DataSame(j)
  <2>1. ~RedisRestarts
    BY DEF RedisRestarts, Spend
  <2>2. CASE TimeStep
    BY <2>1, <2>2, QuietSame DEF TimeStep
  <2>3. ASSUME NEW i \in Ids, Lapse(i)
        PROVE  DataSame(j)
    BY <2>3, QuietSame DEF Lapse
  <2> QED
    BY <2>2, <2>3 DEF LapseStep
<1> QED
  BY <1>1, HandsKept DEF TimeStep, LapseStep, Lapse, Same, TasksSame, watchVars

LEMMA StutterSame ==
    ASSUME NEW j \in Jobs, UNCHANGED vars
    PROVE  Same(j)
BY QuietSame, HandsKept DEF vars, storeVars, Same, TasksSame, watchVars

-----------------------------------------------------------------------------
(* The job a step concerns.                                                *)

LEMMA PlacedKept ==
    ASSUME NEW j \in Jobs, Placed(j), Kept(j)
    PROVE  Placed(j)'
<1> USE DEF Placed, Kept, DataSame, HandsSame, Accepted, Unheld, Untouched, Has
<1>1. CASE TasksSame(j)
  BY <1>1 DEF TasksSame
<1>2. CASE Forgotten(j)
  BY <1>2 DEF Forgotten, BeforeStrip, InHand, AfterDlq
<1> QED
  BY <1>1, <1>2 DEF Kept

\* What a worker does for a marked job, from Load to the last record of its
\* result, moves its own loop and nothing that Placed speaks of.
Work(w) ==
    \/ Load(w) \/ RunJob(w) \/ PgFaultStep(w)
    \/ FallbackInsert(w) \/ FallbackPg(w) \/ FallbackSet(w) \/ FallbackCache(w)
    \/ SetFailed(w) \/ PgFailed(w)

LEMMA WorkMoves ==
    ASSUME TypeInv, NEW w \in Workers, Work(w)
    PROVE  /\ at[w] \in {"marked"} \cup Active
           /\ at[w] = "marked" => /\ Connected(w)
                                  /\ held[w] \in payload => at'[w] \notin Missing
           /\ at[w] \in Active \ Missing => at'[w] \in Active \ Missing
           /\ at'[w] \in Active
           /\ \A v \in Workers : v # w => at'[v] = at[v]
           /\ UNCHANGED <<held, leaving, queue, marker, payload, heartbeat,
                          retryCount, dlq>>
<1> USE DEF TypeInv, TypeOK, WorkerTypeOK, Active, BeforeResult, Recording, Missing,
            Failing, Releasing, Go, RedisStep, PgStep, PgFails, storeVars, dataVars,
            redisVars, hashVars, pgVars, SetStatus, SetResult, UpdateSubmission,
            InsertRow
<1>1. CASE Load(w)
  BY <1>1 DEF Load
<1>2. CASE SetRunning(w) \/ PgRunning(w) \/ ExecuteThrows(w)
           \/ \E o \in Outcomes : Execute(w, o)
  BY <1>2 DEF SetRunning, PgRunning, ExecuteThrows, Execute
<1>3. CASE InsertResult(w) \/ InsertDuplicate(w) \/ PgFinal(w) \/ SetFinal(w)
           \/ CacheResult(w)
  BY <1>3 DEF InsertResult, InsertDuplicate, PgFinal, SetFinal, CacheResult
<1>4. CASE FallbackInsert(w) \/ FallbackPg(w) \/ FallbackSet(w) \/ FallbackCache(w)
           \/ SetFailed(w) \/ PgFailed(w)
  BY <1>4 DEF FallbackInsert, FallbackPg, FallbackSet, FallbackCache, SetFailed,
     PgFailed
<1>5. CASE PgFaultStep(w)
  BY <1>5 DEF PgFaultStep, FallbackInsertFails, FallbackPgFails, PgRunningFails,
     InsertResultFails, PgFinalFails, PgFailedFails
<1> QED
  BY <1>1, <1>2, <1>3, <1>4, <1>5 DEF Work, RunJob

LEMMA WorkPlaced ==
    ASSUME TypeInv, NEW w \in Workers, Work(w), UNCHANGED <<submitVars, watchVars>>,
           NEW j \in Jobs, Placed(j)
    PROVE  Placed(j)'
<1>1. /\ at[w] # "popped" /\ at'[w] # "popped"
      /\ \A v \in Workers : v # w => at'[v] = at[v]
      /\ UNCHANGED <<held, leaving, queue, marker, payload, request, task, owner>>
  BY WorkMoves DEF submitVars, watchVars, Active, BeforeResult, Recording, Missing,
     Failing, Releasing
<1> QED
  BY <1>1 DEF Placed, Queued, Occurrences, Accepted, Unheld, Untouched, Has, Connected

LEMMA ApiPlaced ==
    ASSUME TypeInv, NEW i \in Jobs, ApiStep(i), Placed(i)
    PROVE  Placed(i)'
<1> USE DEF TypeInv, TypeOK, SubmitTypeOK, StoreTypeOK, DataTypeOK, InFlight
<1>1. /\ request[i] # "queued"
      /\ UNCHANGED <<marker, held, at, leaving, task, owner>>
      /\ payload \subseteq payload'
      /\ request'[i] \in {"stored", "queued"} => i \in payload'
  <2> USE DEF ApiStep, workerVars, watchVars, Advance, PgFails, storeVars, dataVars,
              redisVars, pgVars, Placed
  <2>1. CASE Admit(i) \/ Reject(i) \/ HandlerDies(i)
    BY <2>1 DEF Admit, Reject, HandlerDies
  <2>2. CASE InsertSubmission(i) \/ InsertSubmissionFails(i)
    BY <2>2 DEF InsertSubmission, InsertSubmissionFails, CreateSubmission
  <2>3. CASE StoreJob(i) \/ EnqueueJob(i)
    BY <2>3 DEF StoreJob, EnqueueJob, SetJob, Enqueue, hashVars
  <2> QED
    BY <2>1, <2>2, <2>3 DEF SubmitNext, SubmitProgress
<1>2. Queued(i)' => request'[i] = "queued"
  <2>1. CASE EnqueueJob(i)
    BY <2>1 DEF EnqueueJob, Advance
  <2>2. CASE ~EnqueueJob(i)
    <3>1. queue' = queue
      BY <2>2 DEF ApiStep, SubmitNext, SubmitProgress, Admit, Reject, HandlerDies,
         InsertSubmission, InsertSubmissionFails, StoreJob, CreateSubmission, SetJob,
         PgFails, storeVars, dataVars, redisVars
    <3> QED
      BY <1>1, <3>1 DEF Queued, Occurrences, Placed, Accepted
  <2> QED
    BY <2>1, <2>2
<1> QED
  BY <1>1, <1>2 DEF Placed, Accepted, Unheld, Untouched, Has, Connected, BeforeStrip,
     InHand, AfterDlq

\* The steps of a worker that give a job up: Drop, Release, Unwind, and its end.
LEMMA LeavePlaced ==
    ASSUME PlaceInv, NEW w \in Workers, NEW j \in Jobs, held[w] = j,
           UNCHANGED <<queue, payload, request, task, owner>>,
           \/ marker'[j] = marker[j]
           \/ marker'[j] = None /\ Has(w, j) /\ at[w] # "popped",
           held'[w] = None,
           \A v \in Workers : v # w => /\ at'[v] = at[v] /\ held'[v] = held[v]
                                       /\ leaving'[v] = leaving[v]
    PROVE  Placed(j)'
<1>1. Placed(j) /\ (j # None)
  BY NoneAssumption DEF PlaceInv
<1>2. \A v \in Workers : Has(v, j)' => v # w /\ Has(v, j)
  BY <1>1 DEF Has, Connected
<1>3. Queued(j)' <=> Queued(j)
  BY DEF Queued, Occurrences
<1>4. CASE marker'[j] = marker[j]
  BY <1>1, <1>2, <1>3, <1>4 DEF Placed, Accepted, Unheld, Untouched
<1>5. CASE Has(w, j) /\ at[w] # "popped" /\ marker'[j] = None
  <2>1. Unheld(j)'
    BY <1>1, <1>2, <1>5 DEF Placed, Unheld
  <2> QED
    BY <1>1, <1>3, <1>5, <2>1
       DEF Placed, Accepted, Unheld, Untouched, BeforeStrip, InHand, AfterDlq
<1> QED
  BY <1>4, <1>5

LEMMA PopPlaced ==
    ASSUME PlaceInv, NEW w \in Workers, NEW j \in Jobs, Pop(w, j),
           UNCHANGED <<submitVars, watchVars>>
    PROVE  Placed(j)'
<1> USE DEF PlaceInv, World, TypeInv, TypeOK, StoreTypeOK, DataTypeOK, WorkerTypeOK
<1>1. Queued(j) /\ ~Queued(j)'
  BY DequeueQueued DEF Pop
<1>2. marker[j] = None /\ Unheld(j) /\ Untouched(j) /\ Accepted(j)
  BY <1>1 DEF Placed
<1>3. /\ UNCHANGED <<marker, payload, leaving, request, task, owner>>
      /\ at'[w] = "popped" /\ held'[w] = j
      /\ \A v \in Workers : v # w => at'[v] = at[v] /\ held'[v] = held[v]
  BY DEF Pop, Go, Dequeue, hashVars, submitVars, watchVars
<1>4. \A v \in Workers : Has(v, j)' => v = w
  BY <1>2, <1>3 DEF Unheld, Has, Connected
<1> QED
  BY <1>1, <1>2, <1>3, <1>4
     DEF Placed, Accepted, Unheld, Untouched, BeforeStrip, InHand, AfterDlq

LEMMA ClaimPlaced ==
    ASSUME PlaceInv, NEW w \in Workers, NEW j \in Jobs, held[w] = j, Claim(w),
           UNCHANGED <<submitVars, watchVars>>
    PROVE  Placed(j)'
<1> USE DEF PlaceInv, World, TypeInv, TypeOK, StoreTypeOK, DataTypeOK, WorkerTypeOK
<1>1. /\ UNCHANGED <<queue, payload, held, leaving, request, task, owner>>
      /\ at[w] = "popped" /\ at'[w] = "marked" /\ marker'[j] = WorkerId[w]
      /\ \A v \in Workers : v # w => at'[v] = at[v]
      /\ Has(w, j)
  BY DEF Claim, RedisStep, Go, SetMarker, hashVars, submitVars, watchVars, Has
<1>2. /\ ~Queued(j) /\ Accepted(j) /\ Untouched(j)
      /\ \A v \in Workers : Has(v, j) => v = w
  BY <1>1 DEF Placed, Unheld
<1>3. /\ ~Queued(j)'
      /\ \A v \in Workers : Has(v, j)' <=> Has(v, j)
  BY <1>1, <1>2 DEF Queued, Occurrences, Has, Connected
<1> QED
  BY <1>1, <1>2, <1>3
     DEF Placed, Accepted, Unheld, Untouched, BeforeStrip, InHand, AfterDlq

\* A worker that is not in the middle of a job holds none, so none of its timers
\* and signals moves one; DEL and QUIT take it out of the job's places.
LEMMA TimerPlaced ==
    ASSUME TypeInv, NEW w \in Workers, Beat(w) \/ Sigterm(w) \/ DrainEnds(w),
           UNCHANGED <<submitVars, watchVars>>, NEW j \in Jobs, Placed(j)
    PROVE  Placed(j)'
<1>1. /\ UNCHANGED <<queue, marker, payload, at, held, request, task, owner>>
      /\ \A v \in Workers : Has(v, j)' => Has(v, j)
  BY DEF Beat, Sigterm, DrainEnds, SetHeartbeats, hashVars, submitVars, watchVars,
     workerVars, dataVars, redisVars, Has, Connected, TypeInv, TypeOK, WorkerTypeOK
<1> QED
  BY <1>1 DEF Placed, Queued, Occurrences, Accepted, Unheld, Untouched

LEMMA LoopSplit ==
    ASSUME NEW w \in Workers, WorkerNext(w)
    PROVE  \/ Work(w) \/ (\E i \in Jobs : Pop(w, i))
           \/ PollEnds(w) \/ Drop(w) \/ Claim(w) \/ Release(w) \/ Unwind(w)
           \/ Beat(w) \/ Sigterm(w) \/ DrainEnds(w) \/ Exit(w) \/ Crash(w) \/ Start(w)
BY DEF WorkerNext, LoopStep, TakeJob, EndJob, Work

LEMMA WorkerPlaced ==
    ASSUME PlaceInv, NEW w \in Workers, WorkerStep(w), NEW j \in Jobs
    PROVE  Placed(j)'
<1>0. /\ TypeInv /\ NoRepeat /\ Placed(j) /\ WorkerNext(w)
      /\ UNCHANGED <<submitVars, watchVars>>
      /\ (at[w] \in HandsFree => held[w] = None) /\ j # None
  BY NoneAssumption DEF PlaceInv, World, WorkerOK, WorkerStep
<1>1. CASE held[w] # j /\ held'[w] # j
  BY <1>0, <1>1, WorkerSame, SameKept, PlacedKept
<1>2. ASSUME NEW i \in Jobs, Pop(w, i), held[w] = j \/ held'[w] = j
      PROVE  Placed(j)'
  <2>1. j = i
    BY <1>0, <1>2 DEF Pop, Go, HandsFree, TypeInv, TypeOK, WorkerTypeOK
  <2> QED
    BY <1>0, <1>2, <2>1, PopPlaced
<1>3. CASE held[w] = j /\ (Drop(w) \/ Release(w) \/ Unwind(w) \/ Exit(w) \/ Crash(w))
  <2>1. UNCHANGED <<request, task, owner>>
    BY <1>0 DEF submitVars, watchVars
  <2>2. \A v \in Workers : v # w => /\ at'[v] = at[v] /\ held'[v] = held[v]
                                    /\ leaving'[v] = leaving[v]
    BY <1>0, WorkerAlone
  <2>3. held'[w] = None
    BY <1>0, <1>3 DEF Drop, Release, Unwind, Exit, Crash, Halt, TypeInv, TypeOK,
       WorkerTypeOK
  <2>4. CASE Drop(w) \/ Exit(w) \/ Crash(w)
    <3>1. UNCHANGED <<queue, payload, request, task, owner>> /\ marker'[j] = marker[j]
      BY <2>1, <2>4 DEF Drop, Exit, Crash, storeVars, dataVars, redisVars
    <3>2. held[w] = j
      BY <1>3
    <3> QED
      BY <2>2, <2>3, <3>1, <3>2, LeavePlaced
  <2>5. CASE Release(w) \/ Unwind(w)
    <3>1. /\ UNCHANGED <<queue, payload>> /\ marker'[j] = None
          /\ Has(w, j) /\ at[w] # "popped"
      BY <1>0, <1>3, <2>5 DEF Release, Unwind, Go, ClearMarker, hashVars, Has, TypeInv,
         TypeOK, StoreTypeOK, DataTypeOK
    <3> QED
      BY <1>3, <2>1, <2>2, <2>3, <3>1, LeavePlaced
  <2> QED
    BY <1>3, <2>4, <2>5
<1>4. CASE Work(w) \/ Beat(w) \/ Sigterm(w) \/ DrainEnds(w)
  BY <1>0, <1>4, WorkPlaced, TimerPlaced
<1>5. CASE Claim(w)
  BY <1>0, <1>1, <1>5, ClaimPlaced DEF Claim, RedisStep
<1>6. CASE PollEnds(w) \/ Start(w)
  BY <1>0, <1>1, <1>6 DEF PollEnds, Start, Go, HandsFree
<1>7. CASE held'[w] = j /\ (Drop(w) \/ Release(w) \/ Unwind(w) \/ Exit(w) \/ Crash(w))
  BY <1>0, <1>7 DEF Drop, Release, Unwind, Exit, Crash, Halt, TypeInv, TypeOK,
       WorkerTypeOK
<1> QED
  BY <1>0, <1>1, <1>2, <1>3, <1>4, <1>5, <1>6, <1>7, LoopSplit

\* The course of a task, as far as markers go.
LEMMA TaskMoves ==
    ASSUME TypeInv, NEW p \in Passes, NEW i \in Jobs,
           TaskNext(p, i) \/ DlqInsertFails(p, i) \/ TaskFails(p, i)
    PROVE  /\ payload' = payload /\ heartbeat' = heartbeat
           /\ queue' = queue \/ (task[p][i] = "requeue" /\ Enqueue(i))
           /\ \/ /\ task[p][i] = "ttl" /\ task'[p][i] = "idle"
                 /\ marker' = marker
              \/ /\ task[p][i] = "ttl" /\ task'[p][i] = "exists"
                 /\ owner' = owner /\ marker' = marker /\ owner[p][i] \notin heartbeat
              \/ /\ task[p][i] \in BeforeStrip /\ task'[p][i] \in BeforeStrip
                 /\ owner' = owner /\ marker' = marker
              \/ /\ task[p][i] \in BeforeStrip /\ task'[p][i] \in {"idle"} \cup InHand
                 /\ marker'[i] = None
              \/ /\ task[p][i] \in InHand \cup AfterDlq
                 /\ task'[p][i] \in {"idle"} \cup InHand \cup AfterDlq
                 /\ marker' = marker
<1> DEFINE t == task[p][i]
           u == task'[p][i]
<1>a. /\ \A from, to : Step(p, i, from, to) => t = from /\ u = to /\ owner' = owner
      /\ \A from : Finish(p, i, from) => t = from /\ u = "idle"
      /\ Forget => u = "idle"
  BY DEF TypeInv, TypeOK, WatchdogTypeOK, Step, Finish, Forget, Idle
<1>b. marker \in [Jobs -> Ids \cup {None}]
  BY DEF TypeInv, TypeOK, StoreTypeOK, DataTypeOK
<1> HIDE DEF t, u
<1> SUFFICES /\ payload' = payload /\ heartbeat' = heartbeat
             /\ queue' = queue \/ (t = "requeue" /\ Enqueue(i))
             /\ \/ t = "ttl" /\ u = "idle" /\ marker' = marker
                \/ /\ t = "ttl" /\ u = "exists" /\ owner' = owner /\ marker' = marker
                   /\ owner[p][i] \notin heartbeat
                \/ /\ t \in BeforeStrip /\ u \in BeforeStrip /\ owner' = owner
                   /\ marker' = marker
                \/ /\ t \in BeforeStrip /\ u \in {"idle"} \cup InHand
                   /\ marker'[i] = None
                \/ /\ t \in InHand \cup AfterDlq
                   /\ u \in {"idle"} \cup InHand \cup AfterDlq /\ marker' = marker
  BY DEF t, u
<1> USE <1>a DEF storeVars, dataVars, redisVars, hashVars, pgVars, BeforeStrip,
                 InHand, AfterDlq, PgFails
<1>1. CASE OwnerAlive(p, i) \/ OwnerSilent(p, i)
  BY <1>1 DEF OwnerAlive, OwnerSilent
<1>2. CASE CheckResult(p, i)
  BY <1>2 DEF CheckResult
<1>c. CASE ReadRetries(p, i)
  BY <1>c DEF ReadRetries, t, u, TypeInv, TypeOK, WatchdogTypeOK
<1>3. CASE ClearFinished(p, i) \/ Strip(p, i)
  BY <1>b, <1>3 DEF ClearFinished, Strip, ClearMarker
<1>4. CASE MoveToDlq(p, i) \/ ResetPending(p, i)
  BY <1>4 DEF MoveToDlq, ResetPending, DeadLetter, SetPending
<1>5. CASE DlqInsert(p, i) \/ DlqInsertFails(p, i)
  BY <1>5 DEF DlqInsert, DlqInsertFails, InsertRow
<1>6. CASE DlqStatus(p, i) \/ PgPending(p, i)
  BY <1>6 DEF DlqStatus, PgPending, UpdateSubmission
<1>7. CASE Requeue(p, i)
  BY <1>7 DEF Requeue, Enqueue
<1>8. CASE TaskFails(p, i)
  BY <1>8 DEF TaskFails, UpdateSubmission, t
<1> QED
  BY <1>1, <1>2, <1>c, <1>3, <1>4, <1>5, <1>6, <1>7, <1>8 DEF TaskNext

\* A worker that has marked a job it holds has a heartbeat, so no task that is
\* past OwnerSilent, and no task about to be, has its job.
LEMMA OwnerGone ==
    ASSUME RecoveryAssumed, PlaceInv, NEW p \in Passes, NEW i \in Jobs,
           \/ task[p][i] \in BeforeStrip \cup InHand \cup AfterDlq
           \/ task[p][i] = "ttl" /\ owner[p][i] \notin heartbeat
    PROVE  Unheld(i)
<1> SUFFICES ASSUME NEW w \in Workers, Has(w, i)
             PROVE  FALSE
  BY DEF Unheld
<1>1. Placed(i) /\ WorkerOK(w) /\ WorkerId[w] \in Ids /\ i # None
  BY WorkerIdAssumption, NoneAssumption DEF PlaceInv, World
<1>2. at[w] # "popped" /\ marker[i] = WorkerId[w] /\ task[p][i] = "ttl"
  BY <1>1 DEF Placed, Untouched, BeforeStrip, InHand, AfterDlq
<1>3. owner[p][i] = WorkerId[w]
  BY <1>1, <1>2, NoneAssumption DEF Placed
<1>4. WorkerId[w] \in heartbeat
  BY <1>1 DEF WorkerOK, Has, HandsFree
<1> QED
  BY <1>2, <1>3, <1>4 DEF BeforeStrip, InHand, AfterDlq

LEMMA TaskPlaced ==
    ASSUME RecoveryAssumed, PlaceInv, UNCHANGED <<submitVars, workerVars>>,
           NEW p \in Passes, NEW i \in Jobs,
           TaskNext(p, i) \/ DlqInsertFails(p, i) \/ TaskFails(p, i)
    PROVE  Placed(i)'
<1>0. /\ TypeInv /\ Placed(i) /\ \A q \in Passes : q = p
      /\ UNCHANGED <<request, at, held, leaving>>
      /\ \A w \in Workers : Has(w, i)' <=> Has(w, i)
  BY DEF PlaceInv, RecoveryAssumed, submitVars, workerVars, Has, Connected
<1>1. task[p][i] # "idle"
  BY <1>0, TaskMoves DEF BeforeStrip, InHand, AfterDlq
<1>2. ~Queued(i) /\ Accepted(i)
  BY <1>0, <1>1 DEF Placed, Untouched
<1>3. CASE task[p][i] = "ttl" /\ task'[p][i] = "idle"
  <2>1. marker' = marker /\ payload' = payload /\ ~Queued(i)'
    BY <1>0, <1>2, <1>3, TaskMoves DEF Queued, Occurrences, BeforeStrip, InHand, AfterDlq
  <2> QED
    BY <1>0, <1>2, <1>3, <2>1 DEF Placed, Accepted, Unheld, Untouched, BeforeStrip,
       InHand, AfterDlq
<1>4. CASE ~(task[p][i] = "ttl" /\ task'[p][i] = "idle")
  <2>1. Unheld(i) /\ Unheld(i)'
    BY <1>0, <1>4, TaskMoves, OwnerGone DEF Unheld
  <2>2. /\ task'[p][i] \in {"ttl"} \cup BeforeStrip => marker'[i] \in {None, owner'[p][i]}
        /\ task'[p][i] \in InHand \cup AfterDlq => marker'[i] = None
    BY <1>0, <1>4, TaskMoves DEF Placed, BeforeStrip, InHand, AfterDlq
  <2>3. Queued(i)' => task'[p][i] = "idle" /\ marker'[i] = None
    <3>1. CASE queue' = queue
      BY <1>2, <3>1 DEF Queued, Occurrences
    <3>2. CASE task[p][i] = "requeue" /\ Enqueue(i)
      <4>1. marker[i] = None /\ marker' = marker
        BY <1>0, <3>2 DEF Placed, InHand, Enqueue
      <4>2. Requeue(p, i)
        BY <3>2 DEF TaskNext, OwnerAlive, OwnerSilent, CheckResult, ClearFinished,
           ReadRetries, Strip, MoveToDlq, DlqInsert, DlqStatus, ResetPending,
           PgPending, DlqInsertFails, TaskFails, Step, Finish
      <4>3. task'[p][i] = "idle"
        BY <1>0, <4>2 DEF Requeue, Finish, TypeInv, TypeOK, WatchdogTypeOK
      <4> QED
        BY <4>1, <4>3
    <3> QED
      BY <1>0, <3>1, <3>2, TaskMoves
  <2>4. payload' = payload
    BY <1>0, TaskMoves
  <2> QED
    BY <1>0, <1>2, <2>1, <2>2, <2>3, <2>4 DEF Placed, Accepted, Unheld, Untouched
<1> QED
  BY <1>3, <1>4

LEMMA ScanPlaced ==
    ASSUME RecoveryAssumed, PlaceInv, UNCHANGED <<submitVars, workerVars>>,
           NEW p \in Passes, Scan(p), NEW j \in Jobs
    PROVE  Placed(j)'
<1>1. /\ \A q \in Passes : q = p
      /\ UNCHANGED <<queue, marker, payload, request, at, held, leaving>>
      /\ task[p][j] = "idle"
      /\ task'[p][j] = IF Orphanable(j) THEN "ttl" ELSE "idle"
      /\ Orphanable(j) => owner'[p][j] = marker[j] /\ marker[j] # None
  BY DEF RecoveryAssumed, PlaceInv, TypeInv, TypeOK, WatchdogTypeOK, Scan, Idle,
     Orphanable, submitVars, workerVars, storeVars, dataVars, redisVars
<1> QED
  BY <1>1 DEF PlaceInv, Placed, Queued, Occurrences, Accepted, Unheld, Untouched, Has,
     Connected, BeforeStrip, InHand, AfterDlq

LEMMA PlacedStep ==
    ASSUME RecoveryAssumed, PlaceInv, Next, NEW j \in Jobs
    PROVE  Placed(j)'
<1>0. TypeInv /\ NoRepeat /\ Placed(j) /\ faults["redis"] = 0 /\ ~LinkStep
  BY NoLink DEF PlaceInv, World, FaultsOK
<1>1. ASSUME NEW i \in Jobs, ApiStep(i)
      PROVE  Placed(j)'
  BY <1>0, <1>1, ApiPlaced, ApiSame, SameKept, PlacedKept
<1>2. ASSUME NEW w \in Workers, WorkerStep(w)
      PROVE  Placed(j)'
  BY <1>2, WorkerPlaced
<1>3. CASE WatchdogStep
  <2>1. ASSUME NEW p \in Passes, Scan(p)
        PROVE  Placed(j)'
    BY <1>3, <2>1, ScanPlaced DEF WatchdogStep
  <2>2. ASSUME NEW p \in Passes, NEW i \in Jobs,
               TaskNext(p, i) \/ DlqInsertFails(p, i) \/ TaskFails(p, i)
        PROVE  Placed(j)'
    BY <1>0, <1>3, <2>2, TaskPlaced, TaskKept, PlacedKept DEF WatchdogStep
  <2>3. CASE WatchdogDies
    BY <1>0, <1>3, <2>3, DogDiesKept, PlacedKept DEF WatchdogStep
  <2> QED
    BY <1>3, <2>1, <2>2, <2>3 DEF WatchdogStep, WatchdogNext
<1>4. CASE TimeStep \/ LapseStep
  BY <1>0, <1>4, TimeSame, SameKept, PlacedKept
<1> QED
  BY <1>0, <1>1, <1>2, <1>3, <1>4 DEF Next

-----------------------------------------------------------------------------
(* The world a job lives in.                                               *)

LEMMA WorkerQueue ==
    ASSUME NEW w \in Workers, WorkerNext(w)
    PROVE  \/ queue' = queue
           \/ \E i \in Jobs : Pop(w, i)
<1>1. CASE PollEnds(w) \/ Drop(w) \/ Claim(w) \/ Release(w) \/ Unwind(w)
  BY <1>1 DEF PollEnds, Drop, Claim, Release, Unwind, SetMarker, ClearMarker, storeVars,
     dataVars, redisVars
<1>2. CASE Beat(w) \/ Sigterm(w) \/ DrainEnds(w) \/ Exit(w) \/ Crash(w) \/ Start(w)
  BY <1>2 DEF Beat, Sigterm, DrainEnds, Exit, Crash, Start, SetHeartbeats, storeVars,
     dataVars, redisVars
<1>3. CASE Load(w) \/ RunJob(w)
  BY <1>3 DEF Load, RunJob, SetRunning, PgRunning, ExecuteThrows, Execute, InsertResult,
     InsertDuplicate, PgFinal, SetFinal, CacheResult, SetStatus, SetResult,
     UpdateSubmission, InsertRow, storeVars, dataVars, redisVars
<1>4. CASE FallbackInsert(w) \/ FallbackPg(w) \/ FallbackSet(w) \/ FallbackCache(w)
           \/ SetFailed(w) \/ PgFailed(w)
  BY <1>4 DEF FallbackInsert, FallbackPg, FallbackSet, FallbackCache, SetFailed,
     PgFailed, SetStatus, SetResult, UpdateSubmission, InsertRow, dataVars, redisVars
<1>5. CASE PgFaultStep(w)
  BY <1>5 DEF PgFaultStep, FallbackInsertFails, FallbackPgFails, PgRunningFails,
     InsertResultFails, PgFinalFails, PgFailedFails, PgFails, UpdateSubmission,
     InsertRow, dataVars, redisVars
<1> QED
  BY <1>1, <1>2, <1>3, <1>4, <1>5, LoopSplit DEF Work

LEMMA ApiQueue ==
    ASSUME NEW i \in Jobs, SubmitNext(i)
    PROVE  queue' = queue \/ EnqueueJob(i)
BY DEF SubmitNext, SubmitProgress, Admit, Reject, HandlerDies, InsertSubmission,
   InsertSubmissionFails, StoreJob, CreateSubmission, SetJob, PgFails, storeVars,
   dataVars, redisVars

\* Nobody puts a job in the queue that is in it.
LEMMA NoRepeatStep ==
    ASSUME TypeInv, NoRepeat, Next, ~LinkStep,
           \A j \in Jobs : Queued(j) => Accepted(j) /\ Untouched(j)
    PROVE  NoRepeat'
<1>0. queue \in Seq(Jobs)
  BY DEF TypeInv, TypeOK, StoreTypeOK, DataTypeOK
<1>1. CASE queue' = queue
  BY <1>0, <1>1 DEF NoRepeat
<1>2. ASSUME NEW i \in Jobs, EnqueueJob(i)
      PROVE  NoRepeat'
  BY <1>0, <1>2, EnqueueQueued DEF Accepted, EnqueueJob, Advance
<1>3. ASSUME NEW p \in Passes, NEW i \in Jobs, task[p][i] = "requeue", Enqueue(i)
      PROVE  NoRepeat'
  BY <1>0, <1>3, EnqueueQueued DEF Untouched
<1>4. ASSUME NEW w \in Workers, NEW i \in Jobs, Pop(w, i)
      PROVE  NoRepeat'
  BY <1>0, <1>4, DequeueQueued DEF Pop
<1>5. CASE WatchdogStep
  BY <1>0, <1>1, <1>3, <1>5, TaskMoves DEF WatchdogStep, WatchdogNext, Scan,
     WatchdogDies, storeVars, dataVars, redisVars
<1>6. CASE TimeStep \/ LapseStep
  <2>1. queue' = queue \/ queue' = <<>>
    BY <1>6 DEF TimeStep, LapseStep, Lapse, MarkerAges, SetHeartbeats, RedisRestarts
  <2> QED
    BY <1>1, <2>1 DEF NoRepeat
<1> QED
  BY <1>1, <1>2, <1>4, <1>5, <1>6, WorkerQueue, ApiQueue DEF Next, ApiStep, WorkerStep

\* Every fault is paid for.
LEMMA FaultsFall ==
    ASSUME TypeInv, Next, NEW l \in FaultKinds
    PROVE  faults'[l] <= faults[l]
<1>0. faults \in [FaultKinds -> Nat]
  BY DEF TypeInv, TypeOK, StoreTypeOK
<1>1. ASSUME NEW k \in FaultKinds, Spend(k)
      PROVE  faults'[l] <= faults[l]
  BY <1>0, <1>1 DEF Spend
<1>2. faults' = faults \/ \E k \in FaultKinds : Spend(k)
  <2> USE Kinds DEF NoFault, storeVars, PgFails, RedisStep
  <2>1. ASSUME NEW i \in Jobs, ApiStep(i)
        PROVE  faults' = faults \/ \E k \in FaultKinds : Spend(k)
    BY <2>1 DEF ApiStep, SubmitNext, SubmitProgress, Admit, Reject, HandlerDies,
       InsertSubmission, InsertSubmissionFails, StoreJob, EnqueueJob
  <2>2. ASSUME NEW w \in Workers, WorkerNext(w)
        PROVE  faults' = faults \/ \E k \in FaultKinds : Spend(k)
    <3>1. CASE Load(w) \/ RunJob(w)
      BY <3>1 DEF Load, RunJob, SetRunning, PgRunning, ExecuteThrows, Execute,
         InsertResult, InsertDuplicate, PgFinal, SetFinal, CacheResult
    <3>2. CASE FallbackInsert(w) \/ FallbackPg(w) \/ FallbackSet(w)
               \/ FallbackCache(w) \/ SetFailed(w) \/ PgFailed(w)
      BY <3>2 DEF FallbackInsert, FallbackPg, FallbackSet, FallbackCache, SetFailed,
         PgFailed
    <3>3. CASE PgFaultStep(w)
      BY <3>3 DEF PgFaultStep, FallbackInsertFails, FallbackPgFails, PgRunningFails,
         InsertResultFails, PgFinalFails, PgFailedFails
    <3>4. CASE ~Work(w)
      BY <2>2, <3>4, LoopSplit DEF Pop, PollEnds, Drop, Claim, Release, Unwind, Beat,
         Sigterm, DrainEnds, Exit, Crash, Start
    <3> QED
      BY <3>1, <3>2, <3>3, <3>4 DEF Work
  <2>3. CASE WatchdogNext
    BY <2>3 DEF WatchdogNext, TaskNext, Scan, OwnerAlive, OwnerSilent, CheckResult,
       ClearFinished, ReadRetries, Strip, MoveToDlq, DlqInsert, DlqStatus,
       ResetPending, PgPending, Requeue, DlqInsertFails, TaskFails, WatchdogDies
  <2>4. CASE TimeStep \/ LapseStep
    BY <2>4 DEF TimeStep, LapseStep, Lapse, MarkerAges, RedisRestarts
  <2>5. CASE LinkStep
    BY <2>5 DEF LinkStep, AnswerLost, DeadLetterFails
  <2> QED
    BY <2>1, <2>2, <2>3, <2>4, <2>5 DEF Next, WorkerStep, WatchdogStep
<1> QED
  BY <1>0, <1>1, <1>2

LEMMA FaultsZero ==
    ASSUME TypeInv, Next, NEW l \in FaultKinds, faults[l] = 0
    PROVE  faults'[l] = 0
<1>1. faults'[l] \in Nat
  BY StepType DEF TypeInv, TypeOK, StoreTypeOK
<1> QED
  BY <1>1, FaultsFall

LEMMA FaultsStep ==
    ASSUME PlaceInv, Next
    PROVE  FaultsOK'
BY FaultsZero, Kinds DEF PlaceInv, World, FaultsOK

\* A job that a worker loads has its payload: it was stored before it was queued.
LEMMA PayloadThere ==
    ASSUME PlaceInv, NEW w \in Workers, Connected(w), at[w] = "marked"
    PROVE  held[w] \in payload
BY DEF PlaceInv, TypeInv, HandsOK, HandsFree, Placed, Accepted, Unheld, Has

LEMMA WorkerHeartbeats ==
    ASSUME RecoveryAssumed, PlaceInv, NEW w \in Workers, WorkerNext(w), WorkerOK(w)'
    PROVE  \A v \in Workers : WorkerOK(v)'
<1> SUFFICES ASSUME NEW v \in Workers, v # w
             PROVE  WorkerOK(v)'
  OBVIOUS
<1>1. WorkerOK(v)
  BY DEF PlaceInv, World
<1>2. /\ at'[v] = at[v] /\ held'[v] = held[v]
      /\ outcome'[v] = outcome[v] /\ leaving'[v] = leaving[v]
  BY WorkerAlone DEF PlaceInv
<1>3. WorkerId[v] \in heartbeat => WorkerId[v] \in heartbeat'
  <2>1. WorkerId[v] # WorkerId[w] \/ leaving[w] = "none"
    BY DEF PlaceInv, World, WorkerOK, StopsSafely
  <2>2. CASE Work(w)
    BY <2>2, WorkMoves DEF PlaceInv
  <2>3. CASE ~Work(w)
    BY <2>1, <2>3, LoopSplit DEF Pop, PollEnds, Drop, Claim, Release, Unwind, Beat,
       Sigterm, DrainEnds, Exit, Crash, Start, Dequeue, SetMarker, ClearMarker,
       SetHeartbeats, storeVars, dataVars, redisVars
  <2> QED
    BY <2>2, <2>3
<1> QED
  BY <1>1, <1>2, <1>3 DEF WorkerOK, Connected

LEMMA WorkerOKStep ==
    ASSUME RecoveryAssumed, PlaceInv, NEW w \in Workers, WorkerNext(w)
    PROVE  WorkerOK(w)'
<1>0. /\ WorkerOK(w) /\ TypeInv /\ WorkerTypeOK
      /\ ~StopsSafely => faults["signal"] = 0
  BY DEF PlaceInv, World, FaultsOK, TypeInv, TypeOK
<1> USE <1>0 DEF WorkerOK, HandsFree, Missing, Connected, WorkerTypeOK
<1>1. CASE Work(w)
  <2>1. /\ at'[w] \in Active \ Missing /\ at[w] \in {"marked"} \cup Active
        /\ UNCHANGED <<held, leaving, heartbeat>>
    BY <1>1, WorkMoves, PayloadThere DEF Active
  <2> QED
    BY <2>1 DEF Active, BeforeResult, Recording, Failing, Releasing
<1>2. ASSUME NEW i \in Jobs, Pop(w, i)
      PROVE  WorkerOK(w)'
  BY <1>2 DEF Pop, Go, Dequeue
<1>3. CASE PollEnds(w) \/ Drop(w)
  BY <1>3 DEF PollEnds, Drop, Go, storeVars, dataVars, redisVars
<1>4. CASE Claim(w)
  BY <1>4 DEF Claim, RedisStep, Go, SetMarker
<1>5. CASE Release(w)
  BY <1>5 DEF Release, Go, ClearMarker
<1>6. CASE Unwind(w) \/ Exit(w) \/ Crash(w)
  BY <1>6 DEF Unwind, Exit, Crash, Halt
<1>7. CASE Start(w) \/ Beat(w)
  BY <1>7 DEF Start, Beat, Go, SetHeartbeats, workerVars
<1>8. CASE Sigterm(w)
  BY <1>8 DEF Sigterm, Spend, dataVars, redisVars
<1>9. CASE DrainEnds(w)
  BY <1>9 DEF DrainEnds
<1> QED
  BY <1>1, <1>2, <1>3, <1>4, <1>5, <1>6, <1>7, <1>8, <1>9, LoopSplit

LEMMA WorldStep ==
    ASSUME RecoveryAssumed, PlaceInv, Next
    PROVE  World'
<1>0. TypeInv /\ ~LinkStep /\ \A w \in Workers : WorkerOK(w)
  BY NoLink DEF PlaceInv, World, FaultsOK
<1>1. NoRepeat' /\ FaultsOK'
  <2>1. \A j \in Jobs : Queued(j) => Accepted(j) /\ Untouched(j)
    BY DEF PlaceInv, Placed
  <2> QED
    BY <1>0, <2>1, NoRepeatStep, FaultsStep DEF PlaceInv, World
<1>2. ASSUME NEW v \in Workers
      PROVE  WorkerOK(v)'
  <2>1. ASSUME UNCHANGED workerVars,
               WorkerId[v] \in heartbeat =>
                   WorkerId[v] \in heartbeat' \/ at[v] = "dead" \/ ~Connected(v)
        PROVE  WorkerOK(v)'
    BY <1>0, <2>1 DEF workerVars, WorkerOK, Connected
  <2>2. ASSUME NEW i \in Jobs, ApiStep(i)
        PROVE  WorkerOK(v)'
    <3>1. heartbeat' = heartbeat
      BY <2>2 DEF ApiStep, SubmitNext, SubmitProgress, Admit, Reject, HandlerDies,
         InsertSubmission, InsertSubmissionFails, StoreJob, EnqueueJob, Enqueue,
         CreateSubmission, SetJob, PgFails, storeVars, dataVars, redisVars
    <3> QED
      BY <2>1, <2>2, <3>1 DEF ApiStep
  <2>3. ASSUME NEW w \in Workers, WorkerStep(w)
        PROVE  WorkerOK(v)'
    BY <2>3, WorkerOKStep, WorkerHeartbeats DEF WorkerStep
  <2>4. CASE WatchdogStep
    <3>1. heartbeat' = heartbeat
      BY <1>0, <2>4, TaskMoves DEF WatchdogStep, WatchdogNext, Scan, WatchdogDies,
         storeVars, dataVars, redisVars
    <3> QED
      BY <2>1, <2>4, <3>1 DEF WatchdogStep
  <2>5. CASE TimeStep
    BY <2>1, <2>5 DEF TimeStep, MarkerAges, RedisRestarts, Spend, PlaceInv, World,
       FaultsOK
  <2>6. ASSUME NEW i \in Ids, Lapse(i), UNCHANGED workerVars
        PROVE  WorkerOK(v)'
    <3>1. CASE WorkerId[v] = i
      <4>1. at[v] = "dead" \/ (leaving[v] # "none" /\ ~StopsSafely)
        BY <2>6, <3>1, SwitchAssumption
           DEF Lapse, Covered, Draining, StopsSafely, RecoveryAssumed
      <4> QED
        BY <1>0, <2>1, <2>6, <4>1 DEF WorkerOK
    <3>2. CASE WorkerId[v] # i
      BY <2>1, <2>6, <3>2 DEF Lapse, SetHeartbeats
    <3> QED
      BY <3>1, <3>2
  <2> QED
    BY <1>0, <2>2, <2>3, <2>4, <2>5, <2>6 DEF Next, LapseStep, Lapse
<1> QED
  BY <1>1, <1>2 DEF World

LEMMA PlaceInit ==
    ASSUME RecoveryAssumed, Init
    PROVE  PlaceInv
<1>1. TypeInv
  BY InitType
<1>2. World
  BY DEF Init, EmptyRedis, WorkerInit, RecoveryAssumed, World, NoRepeat, FaultsOK,
     WorkerOK, HandsFree, Missing, FaultKinds
<1>3. ASSUME NEW j \in Jobs
      PROVE  Placed(j)
  BY <1>3, NoneAssumption DEF Init, EmptyRedis, SubmitInit, WorkerInit, WatchdogInit,
     Idle, Placed, Queued, Occurrences, Accepted, Unheld, Untouched, Has, BeforeStrip,
     InHand, AfterDlq
<1> QED
  BY <1>1, <1>2, <1>3 DEF PlaceInv

LEMMA PlaceStep ==
    ASSUME RecoveryAssumed, PlaceInv, [Next]_vars
    PROVE  PlaceInv'
<1>1. TypeInv'
  BY StepType DEF PlaceInv
<1>2. CASE Next
  BY <1>1, <1>2, PlacedStep, WorldStep DEF PlaceInv
<1>3. CASE UNCHANGED vars
  <2>1. \A j \in Jobs : Placed(j)'
    BY <1>3, StutterSame, SameKept, PlacedKept DEF PlaceInv
  <2>2. World'
    BY <1>3 DEF PlaceInv, World, NoRepeat, FaultsOK, WorkerOK, Connected, vars,
       storeVars, dataVars, redisVars, workerVars
  <2> QED
    BY <1>1, <2>1, <2>2 DEF PlaceInv
<1> QED
  BY <1>2, <1>3

LEMMA PlaceStays ==
    ASSUME RecoveryAssumed
    PROVE  Spec => []PlaceInv
<1>1. Init => PlaceInv
  BY PlaceInit
<1>2. PlaceInv /\ [Next]_vars => PlaceInv'
  BY PlaceStep
<1> QED
  BY <1>1, <1>2, PTL DEF Spec

-----------------------------------------------------------------------------
(* One place.                                                              *)

LEMMA AtMostOne ==
    ASSUME NEW S, \A x, y \in S : x = y
    PROVE  Cardinality(S) \in {0, 1} /\ (S = {} => Cardinality(S) = 0)
<1>1. CASE S = {}
  BY <1>1, FS_EmptySet
<1>2. CASE S # {}
  <2>1. PICK x : x \in S
    BY <1>2
  <2>2. S = {x}
    BY <2>1
  <2> QED
    BY <1>2, <2>2, FS_Singleton
<1> QED
  BY <1>1, <1>2

LEMMA PlacedOnce ==
    ASSUME RecoveryAssumed, PlaceInv, NEW j \in Jobs
    PROVE  Cardinality(Occurrences(j)) + Cardinality(HeldBy(j))
               + Cardinality(HandledBy(j)) <= 1
<1>0. Placed(j) /\ NoRepeat
  BY DEF PlaceInv, World
<1>1. \A k, l \in Occurrences(j) : k = l
  BY <1>0 DEF Occurrences, NoRepeat
<1>2. \A v, w \in HeldBy(j) : v = w
  BY <1>0 DEF HeldBy, Placed
<1>3. \A p, q \in HandledBy(j) : p = q
  BY DEF HandledBy, RecoveryAssumed
<1>4. \/ Occurrences(j) = {} /\ HeldBy(j) = {}
      \/ Occurrences(j) = {} /\ HandledBy(j) = {}
      \/ HeldBy(j) = {} /\ HandledBy(j) = {}
  <2>1. Queued(j) => HeldBy(j) = {} /\ HandledBy(j) = {}
    BY <1>0 DEF Placed, Unheld, Untouched, HeldBy, HandledBy, InHand
  <2>2. HandledBy(j) # {} => HeldBy(j) = {}
    BY OwnerGone DEF HandledBy, HeldBy, Unheld
  <2> QED
    BY <2>1, <2>2 DEF Queued
<1>5. /\ Cardinality(Occurrences(j)) \in {0, 1}
      /\ Occurrences(j) = {} => Cardinality(Occurrences(j)) = 0
  BY <1>1, AtMostOne
<1>6. /\ Cardinality(HeldBy(j)) \in {0, 1}
      /\ HeldBy(j) = {} => Cardinality(HeldBy(j)) = 0
  BY <1>2, AtMostOne
<1>7. /\ Cardinality(HandledBy(j)) \in {0, 1}
      /\ HandledBy(j) = {} => Cardinality(HandledBy(j)) = 0
  BY <1>3, AtMostOne
<1> QED
  BY <1>4, <1>5, <1>6, <1>7

\* Under the assumptions of the recovery protocol a job is one entry of the
\* queue, one worker's, or one task's that is about to requeue it, and never two
\* of them, whichever process dies between which two commands.
THEOREM OnePlaceHolds ==
    ASSUME RecoveryAssumed
    PROVE  Spec => []OnePlace
<1>1. PlaceInv => OnePlace
  BY PlacedOnce DEF OnePlace
<1> QED
  BY <1>1, PlaceStays, PTL

-----------------------------------------------------------------------------
(* Without signals a worker's hands are its own until it dies.             *)

Undisturbed ==
    faults["signal"] = 0 /\ \A w \in Workers : leaving[w] = "none"

LEMMA UndisturbedStep ==
    ASSUME PlaceInv, Undisturbed, [Next]_vars
    PROVE  Undisturbed'
<1>0. TypeInv /\ WorkerTypeOK
  BY DEF PlaceInv, TypeInv, TypeOK
<1>1. CASE Next
  <2>1. faults'["signal"] = 0
    BY <1>0, <1>1, FaultsZero, Kinds DEF Undisturbed
  <2>2. leaving' = leaving \/ \E w \in Workers : WorkerNext(w)
    BY <1>1 DEF Next, ApiStep, WorkerStep, WatchdogStep, TimeStep, LapseStep, Lapse,
       LinkStep, AnswerLost, workerVars
  <2>3. ASSUME NEW w \in Workers, WorkerNext(w)
        PROVE  \A v \in Workers : leaving'[v] = "none"
    <3>1. leaving'[w] = "none"
      <4>1. CASE Work(w)
        BY <1>0, <4>1, WorkMoves DEF Undisturbed
      <4>2. CASE ~Work(w)
        <5>1. ~Sigterm(w) /\ ~DrainEnds(w)
          BY DEF Undisturbed, Sigterm, Spend, DrainEnds
        <5>2. leaving' = leaving \/ Halt(w)
          BY <2>3, <4>2, <5>1, LoopSplit DEF Pop, PollEnds, Drop, Claim, RedisStep,
             Release, Unwind, Beat, Exit, Crash, Start, workerVars
        <5> QED
          BY <1>0, <5>2 DEF Undisturbed, Halt, WorkerTypeOK
      <4> QED
        BY <4>1, <4>2
    <3> QED
      BY <1>0, <2>3, <3>1, WorkerAlone DEF Undisturbed
  <2> QED
    BY <2>1, <2>2, <2>3 DEF Undisturbed
<1>2. CASE UNCHANGED vars
  BY <1>2 DEF Undisturbed, vars, storeVars, workerVars
<1> QED
  BY <1>1, <1>2

LEMMA UndisturbedStays ==
    ASSUME RecoveryAssumed, Budget["signal"] = 0
    PROVE  Spec => [](PlaceInv /\ Undisturbed)
<1>1. Init => PlaceInv /\ Undisturbed
  BY PlaceInit DEF Init, WorkerInit, Undisturbed
<1>2. PlaceInv /\ Undisturbed /\ [Next]_vars => (PlaceInv /\ Undisturbed)'
  BY PlaceStep, UndisturbedStep
<1> QED
  BY <1>1, <1>2, PTL DEF Spec

\* Between HSET exec:processing and the HDEL of its finally block a worker's job
\* is marked with the worker's id, so that the watchdog can find whose it was: no
\* other worker, pass or retry replaces or deletes the marker meanwhile.
THEOREM WorkMarked ==
    ASSUME RecoveryAssumed, Budget["signal"] = 0
    PROVE  Spec => []WorkIsMarked
<1>1. PlaceInv /\ Undisturbed => WorkIsMarked
  <2> SUFFICES ASSUME PlaceInv, Undisturbed, NEW w \in Workers,
                      at[w] \in {"marked"} \cup Active
               PROVE  marker[held[w]] = WorkerId[w]
    BY DEF WorkIsMarked
  <2>1. held[w] \in Jobs /\ Has(w, held[w]) /\ at[w] # "popped"
    BY DEF PlaceInv, TypeInv, HandsOK, HandsFree, Undisturbed, Has, Connected, Active,
       BeforeResult, Recording, Missing, Failing, Releasing
  <2> QED
    BY <2>1 DEF PlaceInv, Placed
<1> QED
  BY <1>1, UndisturbedStays, PTL

-----------------------------------------------------------------------------
(* Every job within reach has its row, whatever is assumed.                *)

\* The job is somewhere past its submit handler.
Loose(j) ==
    \/ Queued(j) \/ marker[j] # None
    \/ \E w \in Workers : held[w] = j
    \/ \E p \in Passes : task[p][j] # "idle"

Reach(j) == Loose(j) \/ request[j] \in {"inserted", "stored", "queued"}

RowInv == \A j \in Jobs : Reach(j) => submission[j] # None

\* A row of submissions is never deleted.
Durable(j) == submission[j] # None => submission'[j] # None

LEMMA RowDurable ==
    ASSUME TypeInv, Next, NEW j \in Jobs
    PROVE  Durable(j)
<1>0. /\ submission \in [Jobs -> Status \cup {None}] /\ None \notin Status
      /\ \A s : s \in {"pending", "running", "failed"} => s # None
  BY NoneAssumption DEF TypeInv, TypeOK, StoreTypeOK, DataTypeOK, Status, Final
<1> USE <1>0
<1>1. submission' = submission => Durable(j)
  BY DEF Durable
<1>2. ASSUME NEW i \in Jobs, CreateSubmission(i)
      PROVE  Durable(j)
  BY <1>2 DEF Durable, CreateSubmission
<1>3. ASSUME NEW i, i \in Jobs, NEW s, UpdateSubmission(i, s), s # None
      PROVE  Durable(j)
  BY <1>3 DEF Durable, UpdateSubmission
<1>4. ASSUME NEW i \in Jobs, ApiStep(i)
      PROVE  Durable(j)
  BY <1>1, <1>2, <1>4 DEF ApiStep, SubmitNext, SubmitProgress, Admit, Reject,
     HandlerDies, InsertSubmission, InsertSubmissionFails, StoreJob, EnqueueJob,
     Enqueue, SetJob, PgFails, storeVars, dataVars, pgVars
<1>5. ASSUME NEW w \in Workers, WorkerNext(w)
      PROVE  Durable(j)
  <2>0. /\ at[w] \notin HandsFree => held[w] \in Jobs
        /\ at[w] \in Recording => resolveStatus(outcome[w]) # None
    BY NoneAssumption, ResolveType DEF TypeInv, HandsOK, Status
  <2> USE <2>0 DEF HandsFree, Recording, Go, RedisStep, PgStep, PgFails, storeVars,
                   dataVars, pgVars
  <2>1. CASE SetRunning(w) \/ ExecuteThrows(w) \/ InsertResult(w) \/ InsertDuplicate(w)
             \/ SetFinal(w) \/ CacheResult(w) \/ \E o \in Outcomes : Execute(w, o)
    BY <1>1, <2>1 DEF SetRunning, ExecuteThrows, InsertResult, InsertDuplicate,
       SetFinal, CacheResult, Execute, SetStatus, SetResult, InsertRow
  <2>2. CASE PgRunning(w) \/ PgFinal(w) \/ PgFailed(w) \/ FallbackPg(w)
    BY <1>3, <2>2 DEF PgRunning, PgFinal, PgFailed, FallbackPg
  <2>3. CASE Load(w) \/ FallbackInsert(w) \/ FallbackSet(w) \/ FallbackCache(w)
             \/ SetFailed(w)
    BY <1>1, <2>3 DEF Load, FallbackInsert, FallbackSet, FallbackCache, SetFailed,
       SetStatus, SetResult, InsertRow
  <2>4. CASE FallbackInsertFails(w) \/ InsertResultFails(w)
    BY <1>1, <2>4 DEF FallbackInsertFails, InsertResultFails, InsertRow
  <2>5. CASE FallbackPgFails(w) \/ PgRunningFails(w) \/ PgFinalFails(w)
             \/ PgFailedFails(w)
    BY <1>1, <1>3, <2>5 DEF FallbackPgFails, PgRunningFails, PgFinalFails,
       PgFailedFails
  <2>6. CASE ~Work(w)
    BY <1>1, <1>5, <2>6, LoopSplit DEF Pop, PollEnds, Drop, Claim, Release, Unwind,
       Beat, Sigterm, DrainEnds, Exit, Crash, Start, Dequeue, SetMarker, ClearMarker,
       SetHeartbeats
  <2> QED
    BY <2>1, <2>2, <2>3, <2>4, <2>5, <2>6 DEF Work, RunJob, PgFaultStep
<1>6. CASE WatchdogStep
  <2> USE DEF PgFails, storeVars, dataVars, pgVars
  <2>1. ASSUME NEW p \in Passes, NEW i \in Jobs,
               DlqStatus(p, i) \/ PgPending(p, i) \/ TaskFails(p, i)
        PROVE  Durable(j)
    BY <1>1, <1>3, <2>1 DEF DlqStatus, PgPending, TaskFails
  <2>2. ASSUME NEW p \in Passes, NEW i \in Jobs,
               \/ OwnerAlive(p, i) \/ OwnerSilent(p, i) \/ CheckResult(p, i)
               \/ ClearFinished(p, i) \/ ReadRetries(p, i) \/ Strip(p, i)
        PROVE  submission' = submission
    BY <2>2 DEF OwnerAlive, OwnerSilent, CheckResult, ClearFinished, ReadRetries,
       Strip, ClearMarker
  <2>3. ASSUME NEW p \in Passes, NEW i \in Jobs,
               \/ MoveToDlq(p, i) \/ DlqInsert(p, i) \/ ResetPending(p, i)
               \/ Requeue(p, i) \/ DlqInsertFails(p, i)
        PROVE  submission' = submission
    BY <2>3 DEF MoveToDlq, DlqInsert, ResetPending, Requeue, DlqInsertFails,
       DeadLetter, InsertRow, SetPending, Enqueue
  <2>4. ASSUME WatchdogDies \/ \E p \in Passes : Scan(p)
        PROVE  submission' = submission
    BY <2>4 DEF WatchdogDies, Scan
  <2> QED
    BY <1>1, <1>6, <2>1, <2>2, <2>3, <2>4 DEF WatchdogStep, WatchdogNext, TaskNext
<1>7. CASE TimeStep \/ LapseStep
  BY <1>1, <1>7 DEF TimeStep, LapseStep, Lapse, MarkerAges, SetHeartbeats,
     RedisRestarts, pgVars
<1>8. CASE LinkStep
  BY <1>1, <1>8 DEF LinkStep, AnswerLost, DeadLetterFails, SubmitCommand, LoopCommand,
     TaskCommand, SetJob, Enqueue, Dequeue, SetMarker, ClearMarker, SetStatus,
     SetResult, SetHeartbeats, DeadLetter, SetPending, dataVars, pgVars
<1> QED
  BY <1>4, <1>5, <1>6, <1>7, <1>8 DEF Next, WorkerStep

LEMMA ApiReach ==
    ASSUME TypeInv, NEW i \in Jobs, ApiStep(i), NEW j \in Jobs
    PROVE  /\ Loose(j)' => Loose(j) \/ request[j] = "stored"
           /\ Reach(j)' => Reach(j) \/ submission'[j] # None
<1> USE DEF TypeInv, TypeOK, StoreTypeOK, DataTypeOK, SubmitTypeOK
<1>0. /\ SubmitNext(i) /\ UNCHANGED <<held, task>>
      /\ None \notin Status /\ "pending" \in Status
  BY NoneAssumption DEF ApiStep, workerVars, watchVars, Status
<1>1. marker' = marker
  BY <1>0 DEF SubmitNext, SubmitProgress, Admit, Reject, HandlerDies, InsertSubmission,
     InsertSubmissionFails, StoreJob, EnqueueJob, Enqueue, CreateSubmission, SetJob,
     PgFails, storeVars, dataVars, redisVars
<1>2. Queued(j)' => Queued(j) \/ request[j] = "stored"
  <2>1. CASE queue' = queue
    BY <2>1 DEF Queued, Occurrences
  <2>2. CASE EnqueueJob(i)
    BY <2>2, EnqueueQueued DEF EnqueueJob, Advance
  <2> QED
    BY <1>0, <2>1, <2>2, ApiQueue
<1>3. request'[j] \in {"inserted", "stored", "queued"} =>
        request[j] \in {"inserted", "stored", "queued"} \/ submission'[j] # None
  <2>1. CASE InsertSubmission(i)
    BY <1>0, <2>1 DEF InsertSubmission, Advance, CreateSubmission
  <2>2. CASE ~InsertSubmission(i)
    BY <1>0, <2>2 DEF SubmitNext, SubmitProgress, Admit, Reject, HandlerDies,
       InsertSubmissionFails, StoreJob, EnqueueJob, Advance
  <2> QED
    BY <2>1, <2>2
<1> QED
  BY <1>0, <1>1, <1>2, <1>3 DEF Loose, Reach

LEMMA WorkerReach ==
    ASSUME TypeInv, NEW w \in Workers, WorkerStep(w), NEW j \in Jobs, Loose(j)'
    PROVE  Loose(j)
<1> USE DEF TypeInv, TypeOK, StoreTypeOK, DataTypeOK, WorkerTypeOK
<1>0. WorkerNext(w) /\ UNCHANGED <<request, task>> /\ j # None
  BY NoneAssumption DEF WorkerStep, submitVars, watchVars
<1>1. CASE UNCHANGED <<queue, marker, held>>
  BY <1>0, <1>1 DEF Loose, Queued, Occurrences
<1>2. ASSUME NEW i \in Jobs, Pop(w, i)
      PROVE  Loose(j)
  BY <1>0, <1>2, DequeueQueued DEF Pop, Dequeue, Loose
<1>3. CASE Claim(w)
  BY <1>0, <1>3 DEF Claim, RedisStep, SetMarker, Loose, Queued, Occurrences
<1>4. CASE Drop(w) \/ Release(w) \/ Unwind(w) \/ Exit(w) \/ Crash(w)
  <2>1. /\ queue' = queue /\ (marker'[j] # None => marker[j] # None)
        /\ \A v \in Workers : held'[v] = j => held[v] = j
    BY <1>0, <1>4 DEF Drop, Release, Unwind, Exit, Crash, ClearMarker, Halt, storeVars,
       dataVars, redisVars
  <2> QED
    BY <1>0, <2>1 DEF Loose, Queued, Occurrences
<1>5. CASE Work(w)
  BY <1>1, <1>5, WorkMoves
<1>6. CASE PollEnds(w) \/ Beat(w) \/ Sigterm(w) \/ DrainEnds(w) \/ Start(w)
  BY <1>1, <1>6 DEF PollEnds, Beat, Sigterm, DrainEnds, Start, SetHeartbeats, Go,
     workerVars, storeVars, dataVars, redisVars
<1> QED
  BY <1>0, <1>2, <1>3, <1>4, <1>5, <1>6, LoopSplit

LEMMA WatchdogReach ==
    ASSUME TypeInv, WatchdogStep, NEW j \in Jobs, Loose(j)'
    PROVE  Loose(j)
<1>0. UNCHANGED <<request, held>>
  BY DEF WatchdogStep, submitVars, workerVars
<1>1. ASSUME NEW p \in Passes, Scan(p)
      PROVE  Loose(j)
  <2>1. \A q \in Passes : task'[q][j] # "idle" => task[q][j] # "idle" \/ marker[j] # None
    BY <1>1 DEF Scan, Orphanable, TypeInv, TypeOK, WatchdogTypeOK
  <2> QED
    BY <1>0, <1>1, <2>1 DEF Scan, storeVars, dataVars, redisVars, Loose, Queued,
       Occurrences
<1>2. ASSUME NEW p \in Passes, NEW i \in Jobs,
             TaskNext(p, i) \/ DlqInsertFails(p, i) \/ TaskFails(p, i)
      PROVE  Loose(j)
  <2>1. \A q \in Passes : task'[q][j] # "idle" => task[q][j] # "idle"
    BY <1>2, TaskAlone, TaskMoves DEF Forget, Idle, BeforeStrip, InHand, AfterDlq
  <2>2. Queued(j)' => Queued(j) \/ task[p][j] # "idle"
    <3>1. CASE queue' = queue
      BY <3>1 DEF Queued, Occurrences
    <3>2. CASE task[p][i] = "requeue" /\ Enqueue(i)
      BY <3>2, EnqueueQueued DEF TypeInv, TypeOK, StoreTypeOK, DataTypeOK
    <3> QED
      BY <1>2, <3>1, <3>2, TaskMoves
  <2>3. marker'[j] # None => marker[j] # None
    <3>1. CASE i = j
      BY <1>2, <3>1, TaskMoves
    <3>2. CASE i # j
      <4>1. marker' = marker \/ ClearMarker(i)
        BY <1>2 DEF TaskNext, OwnerAlive, OwnerSilent, CheckResult, ClearFinished,
           ReadRetries, Strip, MoveToDlq, DlqInsert, DlqStatus, ResetPending,
           PgPending, Requeue, DlqInsertFails, TaskFails, PgFails, DeadLetter,
           InsertRow, UpdateSubmission, SetPending, Enqueue, storeVars, dataVars,
           redisVars
      <4> QED
        BY <3>2, <4>1 DEF ClearMarker, TypeInv, TypeOK, StoreTypeOK, DataTypeOK
    <3> QED
      BY <3>1, <3>2
  <2> QED
    BY <1>0, <2>1, <2>2, <2>3 DEF Loose
<1>3. CASE WatchdogDies
  BY <1>0, <1>3 DEF WatchdogDies, Forget, Idle, dataVars, redisVars, Loose, Queued,
     Occurrences
<1> QED
  BY <1>1, <1>2, <1>3 DEF WatchdogStep, WatchdogNext

LEMMA LinkReach ==
    ASSUME TypeInv, LinkStep, NEW j \in Jobs, Loose(j)'
    PROVE  Loose(j) \/ request[j] = "stored"
<1> USE DEF TypeInv, TypeOK, StoreTypeOK, DataTypeOK, WatchdogTypeOK
<1>0. UNCHANGED <<request, held>>
  BY DEF LinkStep, AnswerLost, submitVars, workerVars
<1>1. \A q \in Passes : task'[q][j] # "idle" => task[q][j] # "idle"
  <2>1. CASE AnswerLost
    BY <2>1 DEF AnswerLost, watchVars
  <2>2. ASSUME NEW p \in Passes, NEW i \in Jobs, DeadLetterFails(p, i)
        PROVE  \A q \in Passes : task'[q][j] # "idle" => task[q][j] # "idle"
    <3>1. CASE Finish(p, i, "decide")
      BY <3>1 DEF Finish
    <3>2. CASE Forget
      BY <3>2 DEF Forget, Idle
    <3> QED
      BY <2>2, <3>1, <3>2 DEF DeadLetterFails
  <2> QED
    BY <2>1, <2>2 DEF LinkStep
<1>2. Queued(j)' => \/ Queued(j) \/ request[j] = "stored"
                   \/ \E p \in Passes : task[p][j] # "idle"
  <2>1. CASE queue' = queue
    BY <2>1 DEF Queued, Occurrences
  <2>2. ASSUME NEW i \in Jobs, Dequeue(i)
        PROVE  Queued(j)' => Queued(j)
    BY <2>2, DequeueQueued
  <2>3. ASSUME NEW i \in Jobs, Enqueue(i),
               request[i] = "stored" \/ \E p \in Passes : task[p][i] = "requeue"
        PROVE  Queued(j)' => \/ Queued(j) \/ request[j] = "stored"
                            \/ \E p \in Passes : task[p][j] # "idle"
    BY <2>3, EnqueueQueued
  <2> QED
    BY <2>1, <2>2, <2>3 DEF LinkStep, AnswerLost, DeadLetterFails, SubmitCommand,
       LoopCommand, TaskCommand, SetJob, SetMarker, ClearMarker, SetStatus, SetResult,
       SetHeartbeats, DeadLetter, SetPending, dataVars, redisVars
<1>3. marker'[j] # None => marker[j] # None \/ \E w \in Workers : held[w] = j
  <2>1. ASSUME NEW i, ClearMarker(i)
        PROVE  marker'[j] # None => marker[j] # None
    BY <2>1 DEF ClearMarker
  <2>2. ASSUME NEW w \in Workers, SetMarker(held[w], WorkerId[w])
        PROVE  marker'[j] # None => marker[j] # None \/ held[w] = j
    BY <2>2 DEF SetMarker
  <2> QED
    BY <2>1, <2>2 DEF LinkStep, AnswerLost, DeadLetterFails, SubmitCommand,
       LoopCommand, TaskCommand, SetJob, Enqueue, Dequeue, SetStatus, SetResult,
       SetHeartbeats, DeadLetter, SetPending, dataVars, redisVars
<1> QED
  BY <1>0, <1>1, <1>2, <1>3 DEF Loose

LEMMA RowStep ==
    ASSUME TypeInv, RowInv, [Next]_vars
    PROVE  RowInv'
<1>1. CASE Next
  <2> SUFFICES ASSUME NEW j \in Jobs, Reach(j)'
               PROVE  submission'[j] # None
    BY DEF RowInv
  <2>1. Reach(j) \/ submission'[j] # None
    <3>1. CASE TimeStep \/ LapseStep
      <4>1. /\ UNCHANGED <<request, held, task>>
            /\ Queued(j)' => Queued(j)
            /\ marker'[j] # None => marker[j] # None
        BY <3>1 DEF TimeStep, LapseStep, Lapse, MarkerAges, SetHeartbeats,
           RedisRestarts, Queued, Occurrences, submitVars, workerVars, watchVars
      <4> QED
        BY <4>1 DEF Reach, Loose
    <3>2. ASSUME NEW w \in Workers, WorkerStep(w)
          PROVE  Reach(j)
      BY <3>2, WorkerReach DEF WorkerStep, submitVars, Reach
    <3>3. CASE WatchdogStep
      BY <3>3, WatchdogReach DEF WatchdogStep, submitVars, Reach
    <3>4. CASE LinkStep
      BY <3>4, LinkReach DEF LinkStep, AnswerLost, submitVars, Reach
    <3> QED
      BY <1>1, <3>1, <3>2, <3>3, <3>4, ApiReach DEF Next
  <2> QED
    BY <1>1, <2>1, RowDurable DEF RowInv, Durable
<1>2. CASE UNCHANGED vars
  BY <1>2 DEF RowInv, Reach, Loose, Queued, Occurrences, vars, storeVars, dataVars, redisVars,
     pgVars, submitVars, workerVars, watchVars
<1> QED
  BY <1>1, <1>2

\* A job that is queued, held, marked or being requeued has its row in
\* submissions, whatever fails: the handler inserts it before the hash and the
\* queue entry, and no step of any process makes it absent again.
THEOREM RowsThere == Spec => []JobsHaveRows
<1>1. Init => TypeInv /\ RowInv
  BY InitType, NoneAssumption DEF Init, EmptyRedis, SubmitInit, WorkerInit,
     WatchdogInit, Idle, RowInv, Reach, Loose, Queued, Occurrences
<1>2. TypeInv /\ RowInv /\ [Next]_vars => (TypeInv /\ RowInv)'
  BY StepType, RowStep
<1>3. RowInv => JobsHaveRows
  BY DEF RowInv, Reach, Loose, JobsHaveRows, HeldBy, Has, HandledBy, InHand
<1> QED
  BY <1>1, <1>2, <1>3, PTL DEF Spec

=============================================================================

---------------------------- MODULE ServiceProofs ---------------------------
(***************************************************************************)
(* While neither store fails and only workers die: Redis and PostgreSQL    *)
(* agree on every job that nobody is working on, and the engine implements *)
(* JobService.                                                             *)
(*                                                                         *)
(* Agree says what the two statuses of a job are at each await of whoever  *)
(* has it, so that whenever it is put down they are equal.  The refinement *)
(* then goes by the job a step concerns: Same(j) keeps the stage of all    *)
(* the others, and Placed, Retry, Answered and Agree give the stage of     *)
(* that one before and after.                                              *)
(***************************************************************************)
EXTENDS RecoveryProofs

\* No PostgreSQL statement fails, no worker is told to stop and the watchdog
\* does not die.  (Workers and submit handlers may, at any step.)
StoresAssumed ==
    /\ RecoveryAssumed
    /\ Budget["signal"] = 0 /\ Budget["pg"] = 0 /\ Budget["dog"] = 0

Both(j, s) == jobStatus[j] = s /\ submission[j] = s

Agree(j) ==
    /\ request[j] \in {"inserted", "stored"} => submission[j] = "pending"
    /\ request[j] = "stored" => jobStatus[j] = "pending"
    /\ Queued(j) => Both(j, "pending")
    /\ \A w \in Workers : held[w] = j =>
         /\ at[w] \in {"popped", "marked", "loaded"} => Both(j, "pending")
         /\ at[w] = "pgFailed" => jobStatus[j] = "failed"
         /\ at[w] \in {"cacheResult", "release"} => jobStatus[j] = submission[j]
         /\ at[w] # "unwind"
    /\ \A p \in Passes :
         /\ task[p][j] \in AfterDlq => jobStatus[j] = "failed"
         /\ task[p][j] \in {"pgPending", "requeue"} => jobStatus[j] = "pending"
         /\ task[p][j] = "requeue" => submission[j] = "pending"
    /\ /\ Accepted(j) /\ marker[j] = None /\ Unheld(j)
       /\ \A p \in Passes : task[p][j] \notin InHand \cup AfterDlq
       => jobStatus[j] = submission[j]

NoFailures == faults["pg"] = 0 /\ faults["dog"] = 0

AgreeInv == RecordInv /\ NoFailures /\ \A j \in Jobs : Agree(j)

LEMMA AgreeSame ==
    ASSUME NEW j \in Jobs, Agree(j), Same(j)
    PROVE  Agree(j)'
BY DEF Agree, Both, Same, DataSame, HandsSame, TasksSame, Accepted, Unheld

\* What AgreeInv says of one job.
LEMMA AgreeFacts ==
    ASSUME AgreeInv, NEW j \in Jobs
    PROVE  /\ Agree(j) /\ OnRecord(j) /\ Answered(j) /\ Retry(j) /\ Placed(j)
           /\ TypeInv /\ PlaceInv /\ NoRepeat /\ Undisturbed /\ RowInv /\ ResultInv
           /\ RecoveryInv /\ faults["redis"] = 0 /\ NoFailures /\ ~LinkStep
           /\ \A w \in Workers : Has(w, j) <=> held[w] = j
           /\ \A w \in Workers : WorkerOK(w)
           /\ j # None
BY HeldIsHas, NoneAssumption, NoLink
   DEF AgreeInv, RecordInv, RecoveryInv, PlaceInv, World, FaultsOK

-----------------------------------------------------------------------------
(* Submit handlers.                                                        *)

LEMMA ApiAgree ==
    ASSUME AgreeInv, NEW i \in Jobs, ApiStep(i)
    PROVE  Agree(i)'
<1>0. /\ Agree(i) /\ TypeInv /\ Placed(i) /\ ~Accepted(i) /\ SubmitNext(i)
      /\ UNCHANGED <<marker, held, at, leaving, task>>
  BY AgreeFacts, ApiEffect DEF ApiStep, Accepted
<1>1. /\ \A w \in Workers : held'[w] # i
      /\ \A p \in Passes : task'[p][i] = "idle"
      /\ ~Queued(i)
  BY <1>0, AgreeFacts DEF Placed, Unheld, Untouched
<1> USE DEF TypeInv, TypeOK, StoreTypeOK, DataTypeOK, SubmitTypeOK, Advance, Both
<1>2. CASE EnqueueJob(i)
  <2>1. UNCHANGED <<jobStatus, submission>> /\ request[i] = "stored" /\ request'[i] = "queued"
    BY <1>0, <1>2 DEF EnqueueJob, Enqueue, hashVars, pgVars
  <2>2. Both(i, "pending")'
    BY <1>0, <2>1 DEF Agree
  <2> QED
    BY <1>1, <2>1, <2>2 DEF Agree, AfterDlq
<1>3. CASE ~EnqueueJob(i)
  <2>1. /\ queue' = queue /\ request'[i] # "queued"
        /\ request'[i] \in {"inserted", "stored"} => submission'[i] = "pending"
        /\ request'[i] = "stored" => jobStatus'[i] = "pending"
    <3>1. CASE Admit(i) \/ Reject(i) \/ HandlerDies(i) \/ InsertSubmissionFails(i)
      BY <1>0, <3>1 DEF Admit, Reject, HandlerDies, InsertSubmissionFails, PgFails,
         CreateSubmission, storeVars, dataVars, redisVars
    <3>2. CASE InsertSubmission(i) \/ StoreJob(i)
      BY <1>0, <3>2 DEF InsertSubmission, StoreJob, CreateSubmission, SetJob, Agree,
         redisVars, pgVars
    <3> QED
      BY <1>0, <1>3, <3>1, <3>2 DEF SubmitNext, SubmitProgress
  <2>2. ~Queued(i)'
    BY <1>1, <2>1 DEF Queued, Occurrences
  <2> QED
    BY <1>1, <2>1, <2>2 DEF Agree, AfterDlq, Accepted
<1> QED
  BY <1>2, <1>3

-----------------------------------------------------------------------------
(* Workers.                                                                *)

\* A worker that no signal reaches only works, pops, marks, releases, leaves
\* with an error, beats, dies and is started again.
LEMMA CalmSplit ==
    ASSUME Undisturbed, NoFailures, NEW w \in Workers, WorkerNext(w)
    PROVE  /\ ~PgFaultStep(w)
           /\ \/ Work(w) \/ (\E i \in Jobs : Pop(w, i)) \/ Claim(w) \/ Release(w)
              \/ Unwind(w) \/ Beat(w) \/ Crash(w) \/ Start(w)
<1>1. leaving[w] = "none" /\ faults["signal"] = 0 /\ faults["pg"] = 0
  BY DEF Undisturbed, NoFailures
<1>2. ~PollEnds(w) /\ ~Drop(w) /\ ~Sigterm(w) /\ ~DrainEnds(w) /\ ~Exit(w)
  BY <1>1 DEF PollEnds, Drop, Draining, Sigterm, Spend, DrainEnds, Exit
<1>3. ~PgFaultStep(w)
  BY <1>1 DEF PgFaultStep, FallbackInsertFails, FallbackPgFails, PgRunningFails,
     InsertResultFails, PgFinalFails, PgFailedFails, PgFails, Spend
<1> QED
  BY <1>2, <1>3, LoopSplit

\* The two statuses of the job after each command of Work.
LEMMA WorkStatus ==
    ASSUME AgreeInv, NEW w \in Workers, WorkerStep(w), Work(w),
           NEW j \in Jobs, held[w] = j
    PROVE  /\ at'[w] = "loaded" => UNCHANGED <<jobStatus, submission>> /\ at[w] = "marked"
           /\ at'[w] = "pgFailed" => jobStatus'[j] = "failed"
           /\ at'[w] \in {"cacheResult", "release"} => jobStatus'[j] = submission'[j]
           /\ at'[w] \notin {"popped", "marked", "unwind"}
<1>0. /\ Agree(j) /\ OnRecord(j) /\ TypeInv /\ RowInv /\ Undisturbed /\ NoFailures
      /\ WorkerNext(w) /\ at[w] \notin Missing
  BY AgreeFacts DEF WorkerOK, WorkerStep
<1>1. submission[j] # None
  BY <1>0 DEF RowInv, Reach, Loose
<1> USE DEF TypeInv, TypeOK, StoreTypeOK, DataTypeOK, WorkerTypeOK, Go, RedisStep,
            PgStep, storeVars, dataVars, redisVars, pgVars
<1>2. CASE Load(w)
  BY <1>0, <1>2 DEF Load
<1>3. CASE SetRunning(w) \/ PgRunning(w) \/ ExecuteThrows(w) \/ InsertResult(w)
           \/ InsertDuplicate(w) \/ PgFinal(w) \/ \E o \in Outcomes : Execute(w, o)
  BY <1>0, <1>3 DEF SetRunning, PgRunning, ExecuteThrows, Execute, InsertResult,
     InsertDuplicate, PgFinal
<1>4. CASE SetFinal(w)
  BY <1>0, <1>4 DEF SetFinal, SetStatus, OnRecord
<1>5. CASE CacheResult(w)
  BY <1>0, <1>5 DEF CacheResult, SetResult, hashVars, Agree
<1>6. CASE SetFailed(w)
  BY <1>0, <1>6 DEF SetFailed, SetStatus
<1>7. CASE PgFailed(w)
  BY <1>0, <1>1, <1>7 DEF PgFailed, UpdateSubmission, Agree
<1>8. CASE FallbackInsert(w) \/ FallbackPg(w) \/ FallbackSet(w) \/ FallbackCache(w)
  BY <1>0, <1>8 DEF FallbackInsert, FallbackPg, FallbackSet, FallbackCache, Missing
<1> QED
  BY <1>0, <1>2, <1>3, <1>4, <1>5, <1>6, <1>7, <1>8, CalmSplit DEF Work, RunJob

LEMMA WorkAgree ==
    ASSUME AgreeInv, NEW w \in Workers, WorkerStep(w), Work(w),
           NEW j \in Jobs, held[w] = j
    PROVE  Agree(j)'
<1>0. /\ Agree(j) /\ TypeInv /\ Placed(j) /\ Has(w, j) /\ WorkerNext(w)
      /\ UNCHANGED <<request, task, held, leaving, queue>>
      /\ at[w] \in {"marked"} \cup Active
  BY AgreeFacts, WorkMoves, WorkerCounts DEF WorkerStep
<1>1. /\ Has(w, j)' /\ ~Queued(j)' /\ request'[j] = "queued"
      /\ \A v \in Workers : held'[v] = j => v = w
      /\ \A p \in Passes : task'[p][j] \in {"idle", "ttl"}
  BY <1>0, AgreeFacts DEF Has, Connected, Placed, Accepted, Queued, Occurrences, Unheld,
     Active, BeforeResult, Recording, Missing, Failing, Releasing
<1>2. at[w] = "marked" => Both(j, "pending")
  BY <1>0 DEF Agree
<1> QED
  BY <1>0, <1>1, <1>2, WorkStatus DEF Agree, Both, Unheld, AfterDlq

LEMMA PopAgree ==
    ASSUME AgreeInv, NEW w \in Workers, WorkerStep(w), NEW j \in Jobs, Pop(w, j)
    PROVE  Agree(j)'
<1>0. /\ Agree(j) /\ TypeInv /\ Placed(j) /\ Queued(j) /\ Undisturbed
      /\ UNCHANGED <<request, task>>
  BY AgreeFacts, PopTakes, WorkerCounts
<1>1. /\ UNCHANGED <<jobStatus, submission, leaving>>
      /\ at'[w] = "popped" /\ held'[w] = j
      /\ \A v \in Workers : v # w => held'[v] = held[v]
  BY <1>0 DEF Pop, Go, Dequeue, hashVars, pgVars, TypeInv, TypeOK, WorkerTypeOK
<1>2. /\ Both(j, "pending") /\ Accepted(j) /\ Has(w, j)'
      /\ \A v \in Workers : held[v] # j
      /\ \A p \in Passes : task[p][j] = "idle"
  BY <1>0, <1>1, AgreeFacts DEF Agree, Placed, Unheld, Untouched, Undisturbed, Has,
     Connected
<1> QED
  BY <1>0, <1>1, <1>2, AgreeFacts DEF Agree, Both, AfterDlq, Unheld, Accepted

LEMMA WorkerAgree ==
    ASSUME AgreeInv, NEW w \in Workers, WorkerStep(w), NEW j \in Jobs
    PROVE  Agree(j)'
<1>0. /\ Agree(j) /\ TypeInv /\ Placed(j) /\ NoRepeat /\ Undisturbed /\ NoFailures
      /\ WorkerNext(w) /\ WorkerOK(w) /\ j # None
      /\ UNCHANGED <<request, task>>
  BY AgreeFacts, WorkerCounts DEF WorkerStep
<1>1. CASE held[w] # j /\ held'[w] # j
  BY <1>0, <1>1, WorkerSame, AgreeSame
<1>2. CASE held[w] = j /\ Work(w)
  BY <1>2, WorkAgree
<1>3. CASE Pop(w, j)
  BY <1>3, PopAgree
<1>4. CASE held[w] = j /\ ~Work(w)
  <2>0. /\ Has(w, j) /\ ~Queued(j) /\ Accepted(j)
        /\ \A v \in Workers : held[v] = j => v = w
        /\ \A p \in Passes : task[p][j] \in {"idle", "ttl"}
        /\ at[w] \notin {"brpop", "stopped", "dead", "unwind"}
    BY <1>0, <1>4, AgreeFacts DEF Placed, Untouched, Unheld, WorkerOK, Agree, HandsFree
  <2>a. \A v \in Workers : v # w => held'[v] = held[v]
    BY <1>0, WorkerAlone
  <2>b. ~Unwind(w) /\ ~Start(w) /\ ~\E i \in Jobs : Pop(w, i)
    BY <2>0 DEF Unwind, Start, Pop, Go
  <2>1. CASE Claim(w) \/ Beat(w)
    <3>1. /\ UNCHANGED <<queue, jobStatus, submission, held, leaving>>
          /\ at'[w] = at[w] \/ (at[w] = "popped" /\ at'[w] = "marked")
      BY <1>0, <2>1 DEF Claim, Beat, RedisStep, Go, SetMarker, SetHeartbeats, hashVars,
         pgVars, workerVars, TypeInv, TypeOK, WorkerTypeOK
    <3>2. Has(w, j)' /\ ~Queued(j)'
      BY <2>0, <3>1 DEF Has, Connected, Queued, Occurrences
    <3> QED
      BY <1>0, <1>4, <2>0, <3>1, <3>2 DEF Agree, Both, AfterDlq, Accepted, Unheld
  <2>2. CASE Release(w) \/ Crash(w)
    <3>1. /\ UNCHANGED <<queue, jobStatus, submission>> /\ held'[w] = None
          /\ Crash(w) => marker' = marker
          /\ Release(w) => at[w] = "release"
      BY <1>0, <2>2 DEF Release, Crash, Halt, Go, ClearMarker, hashVars, pgVars,
         dataVars, redisVars, TypeInv, TypeOK, WorkerTypeOK
    <3>2. marker'[j] = None => jobStatus'[j] = submission'[j]
      <4>1. CASE Crash(w)
        <5>1. at[w] # "popped" => marker[j] # None
          BY <1>0, <2>0, WorkerIdAssumption, NoneAssumption DEF Placed
        <5> QED
          BY <1>0, <1>4, <3>1, <4>1, <5>1 DEF Agree, Both
      <4> QED
        BY <1>0, <1>4, <2>2, <3>1, <4>1 DEF Agree
    <3>3. ~Queued(j)' /\ \A v \in Workers : held'[v] # j
      BY <1>0, <2>0, <2>a, <3>1 DEF Queued, Occurrences
    <3> QED
      BY <1>0, <2>0, <3>2, <3>3 DEF Agree, Accepted, AfterDlq
  <2> QED
    BY <1>0, <1>4, <2>b, <2>1, <2>2, CalmSplit
<1> QED
  BY <1>0, <1>1, <1>2, <1>3, <1>4, PopOnly

-----------------------------------------------------------------------------
(* The watchdog.                                                           *)

LEMMA TaskAgree ==
    ASSUME RecoveryAssumed, AgreeInv, UNCHANGED <<submitVars, workerVars>>,
           NEW p \in Passes, NEW i \in Jobs, TaskNext(p, i) \/ DlqInsertFails(p, i)
    PROVE  Agree(i)'
<1>0. /\ Agree(i) /\ OnRecord(i) /\ Answered(i) /\ Placed(i) /\ TypeInv /\ PlaceInv
      /\ RowInv /\ \A q \in Passes : q = p
      /\ UNCHANGED <<request, at, held, leaving>>
      /\ task[p][i] # "idle"
  BY AgreeFacts, TaskEffect DEF RecoveryAssumed, submitVars, workerVars
<1>1. /\ Accepted(i) /\ ~Queued(i) /\ submission[i] # None
      /\ \A w \in Workers : Has(w, i)' <=> Has(w, i)
  BY <1>0 DEF Placed, Untouched, RowInv, Reach, Loose, Has, Connected
<1> USE DEF AfterDlq, InHand, Both
<1>2. CASE task[p][i] \notin InHand \cup AfterDlq
  <2>1. /\ UNCHANGED <<queue, jobStatus, submission>> /\ ~Queued(i)'
        /\ task'[p][i] \notin {"pgPending", "requeue"} \cup AfterDlq
    BY <1>0, <1>1, <1>2, TaskReads, TaskEffect DEF Queued, Occurrences
  <2>2. CASE marker'[i] = marker[i]
    BY <1>0, <1>1, <1>2, <2>1, <2>2 DEF Agree, Unheld, Accepted
  <2>3. CASE ClearFinished(p, i)
    <3>1. jobStatus[i] = submission[i]
      BY <1>0, <2>3 DEF ClearFinished, Finish, Answered, OnRecord
    <3> QED
      BY <1>0, <2>1, <3>1 DEF Agree
  <2>4. CASE Strip(p, i)
    <3>1. task'[p][i] = "decide"
      BY <1>0, <2>4 DEF Strip, Step, TypeInv, TypeOK, WatchdogTypeOK
    <3> QED
      BY <1>0, <2>1, <3>1 DEF Agree
  <2>5. CASE ~ClearFinished(p, i) /\ ~Strip(p, i)
    <3>1. UNCHANGED storeVars
      BY <1>2, <2>5 DEF TaskNext, OwnerAlive, OwnerSilent, CheckResult, ReadRetries,
         MoveToDlq, DlqInsert, DlqStatus, ResetPending, PgPending, Requeue,
         DlqInsertFails, Step, Finish
    <3> QED
      BY <2>2, <3>1 DEF storeVars, dataVars, redisVars
  <2> QED
    BY <2>3, <2>4, <2>5
<1>3. CASE task[p][i] \in InHand \cup AfterDlq
  <2>0. /\ marker'[i] = None /\ \A w \in Workers : held'[w] # i
    BY <1>0, <1>3, OwnerGone, TaskMoves, AgreeFacts DEF Placed, Unheld, BeforeStrip
  <2> USE DEF TypeInv, TypeOK, StoreTypeOK, DataTypeOK, WatchdogTypeOK, Step, Finish
  <2>1. CASE MoveToDlq(p, i)
    BY <1>0, <1>1, <2>0, <2>1 DEF MoveToDlq, DeadLetter, Agree, Queued, Occurrences,
       Accepted
  <2>2. CASE ResetPending(p, i)
    BY <1>0, <1>1, <2>0, <2>2 DEF ResetPending, SetPending, Agree, Queued, Occurrences,
       Accepted
  <2>3. CASE DlqInsert(p, i) \/ DlqInsertFails(p, i)
    <3>1. /\ UNCHANGED <<queue, jobStatus, submission>>
          /\ task[p][i] = "pgInsert" /\ task'[p][i] = "pgFailed"
      BY <1>0, <2>3 DEF DlqInsert, DlqInsertFails, PgFails, InsertRow, dataVars,
         redisVars, pgVars
    <3> QED
      BY <1>0, <1>1, <2>0, <3>1 DEF Agree, Queued, Occurrences, Accepted
  <2>4. CASE DlqStatus(p, i)
    <3>1. /\ UNCHANGED <<queue, jobStatus>> /\ submission'[i] = "failed"
          /\ task[p][i] = "pgFailed" /\ task'[p][i] = "idle"
      BY <1>0, <1>1, <2>4 DEF DlqStatus, UpdateSubmission, redisVars
    <3> QED
      BY <1>0, <1>1, <2>0, <3>1 DEF Agree, Queued, Occurrences, Accepted
  <2>5. CASE PgPending(p, i)
    <3>1. /\ UNCHANGED <<queue, jobStatus>> /\ submission'[i] = "pending"
          /\ task[p][i] = "pgPending" /\ task'[p][i] = "requeue"
      BY <1>0, <1>1, <2>5 DEF PgPending, UpdateSubmission, redisVars
    <3> QED
      BY <1>0, <1>1, <2>0, <3>1 DEF Agree, Queued, Occurrences, Accepted
  <2>6. CASE Requeue(p, i)
    <3>1. /\ UNCHANGED <<jobStatus, submission>>
          /\ task[p][i] = "requeue" /\ task'[p][i] = "idle"
      BY <1>0, <2>6 DEF Requeue, Enqueue, hashVars, pgVars
    <3> QED
      BY <1>0, <1>1, <2>0, <3>1 DEF Agree, Accepted
  <2> QED
    BY <1>3, <2>1, <2>2, <2>3, <2>4, <2>5, <2>6 DEF TaskNext, OwnerAlive, OwnerSilent,
       CheckResult, ClearFinished, ReadRetries, Strip
<1> QED
  BY <1>2, <1>3

LEMMA ScanAgree ==
    ASSUME RecoveryAssumed, AgreeInv, UNCHANGED <<submitVars, workerVars>>,
           NEW p \in Passes, Scan(p), NEW j \in Jobs
    PROVE  Agree(j)'
<1>1. DataSame(j) /\ HandsSame(j) /\ request'[j] = request[j] /\ Agree(j)
  BY QuietSame, HandsKept, AgreeFacts DEF Scan, storeVars
<1>2. \A q \in Passes : task[q][j] = "idle" /\ task'[q][j] \in {"idle", "ttl"}
  BY AgreeFacts DEF RecoveryAssumed, Scan, Idle, TypeInv, TypeOK, WatchdogTypeOK
<1> QED
  BY <1>1, <1>2 DEF Agree, Both, DataSame, HandsSame, Accepted, Unheld, InHand, AfterDlq

\* Without failed statements, and while it lives, the watchdog forgets nothing.
LEMMA WatchdogCalm ==
    ASSUME NoFailures, WatchdogNext
    PROVE  \/ \E p \in Passes : Scan(p)
           \/ \E p \in Passes, i \in Jobs : TaskNext(p, i)
BY DEF NoFailures, WatchdogNext, TaskFails, DlqInsertFails, PgFails, Spend, WatchdogDies

-----------------------------------------------------------------------------
(* Every step.                                                             *)

\* What a step does to the jobs it does not concern.
LEMMA CalmStep ==
    ASSUME RecoveryAssumed, AgreeInv, [Next]_vars, NEW j \in Jobs
    PROVE  \/ Same(j) \/ ApiStep(j)
           \/ \E w \in Workers : WorkerStep(w) /\ (held[w] = j \/ Pop(w, j))
           \/ /\ UNCHANGED <<submitVars, workerVars>>
              /\ \E p \in Passes : Scan(p) \/ TaskNext(p, j)
<1>0. /\ TypeInv /\ NoRepeat /\ faults["redis"] = 0 /\ NoFailures /\ j # None /\ ~LinkStep
  BY AgreeFacts
<1>1. ASSUME NEW i \in Jobs, ApiStep(i), i # j
      PROVE  Same(j)
  BY <1>0, <1>1, ApiSame
<1>2. ASSUME NEW w \in Workers, WorkerStep(w), held[w] # j, ~Pop(w, j)
      PROVE  Same(j)
  BY <1>0, <1>2, PopOnly, WorkerSame DEF WorkerStep
<1>3. ASSUME NEW p \in Passes, NEW i \in Jobs, TaskNext(p, i), i # j,
             UNCHANGED <<submitVars, workerVars>>
      PROVE  Same(j)
  BY <1>0, <1>3, TaskKept
<1>4. CASE WatchdogStep
  BY <1>0, <1>3, <1>4, WatchdogCalm DEF WatchdogStep
<1>5. CASE TimeStep \/ LapseStep \/ UNCHANGED vars
  BY <1>0, <1>5, TimeSame, StutterSame
<1> QED
  BY <1>0, <1>1, <1>2, <1>4, <1>5 DEF Next

LEMMA AgreeStep ==
    ASSUME RecoveryAssumed, AgreeInv, [Next]_vars
    PROVE  AgreeInv'
<1>1. RecordInv'
  BY RecordInvStep DEF AgreeInv
<1>2. NoFailures'
  <2>1. CASE Next
    BY <2>1, FaultsZero, Kinds DEF AgreeInv, RecordInv, ResultInv, NoFailures
  <2>2. CASE UNCHANGED vars
    BY <2>2 DEF AgreeInv, NoFailures, vars, storeVars
  <2> QED
    BY <2>1, <2>2
<1>3. ASSUME NEW j \in Jobs
      PROVE  Agree(j)'
  BY CalmStep, AgreeFacts, AgreeSame, ApiAgree, WorkerAgree, ScanAgree, TaskAgree
<1> QED
  BY <1>1, <1>2, <1>3 DEF AgreeInv

LEMMA AgreeInit ==
    ASSUME StoresAssumed, Init
    PROVE  AgreeInv
<1>1. RecordInv /\ NoFailures
  BY RecordInit DEF StoresAssumed, Init, NoFailures
<1>2. ASSUME NEW j \in Jobs
      PROVE  Agree(j)
  BY NoneAssumption DEF Init, EmptyRedis, SubmitInit, WorkerInit, WatchdogInit, Idle,
     Agree, AfterDlq, Accepted, Queued, Occurrences
<1> QED
  BY <1>1, <1>2 DEF AgreeInv

LEMMA AgreeStays ==
    ASSUME StoresAssumed
    PROVE  Spec => []AgreeInv
<1>0. RecoveryAssumed
  BY DEF StoresAssumed
<1>1. Init => AgreeInv
  BY AgreeInit
<1>2. AgreeInv /\ [Next]_vars => AgreeInv'
  BY <1>0, AgreeStep
<1> QED
  BY <1>1, <1>2, PTL DEF Spec

\* While no statement fails, the hash in Redis and the row of submissions say the
\* same of every job that no process has and no task is about to requeue, though
\* they are written one after the other (a result in PostgreSQL first, a failure
\* and a recovery in Redis first) and workers die between the two.
THEOREM StoresDoAgree ==
    ASSUME StoresAssumed
    PROVE  Spec => []StoresAgree
<1>1. AgreeInv => StoresAgree
  <2> SUFFICES ASSUME AgreeInv, NEW j \in Jobs, Accepted(j), AtRest(j)
               PROVE  jobStatus[j] = submission[j]
    BY DEF StoresAgree
  <2>1. Agree(j)
    BY AgreeFacts
  <2> QED
    BY <2>1 DEF Agree, AtRest, HeldBy, Unheld, InHand, AfterDlq
<1> QED
  BY <1>1, AgreeStays, PTL

-----------------------------------------------------------------------------
(* The service.                                                            *)

\* A job that has not been queued yet has not been tried, and one that its worker
\* put down, while a task that had read its marker goes on, is answered.
Settling(j) ==
    /\ ~Accepted(j) => retryCount[j] = 0
    /\ Suspected(j) /\ marker[j] = None /\ Unheld(j) => Terminal(j)

ServiceInv == AgreeInv /\ \A j \in Jobs : Settling(j)

LEMMA SettlingSame ==
    ASSUME NEW j \in Jobs, Settling(j), Same(j)
    PROVE  Settling(j)'
BY DEF Settling, Same, DataSame, HandsSame, TasksSame, Accepted, Unheld, Suspected,
       Terminal

LEMMA WorkerSettling ==
    ASSUME ServiceInv, NEW w \in Workers, WorkerStep(w), NEW j \in Jobs
    PROVE  Settling(j)'
<1>0. /\ Settling(j) /\ Agree(j) /\ Answered(j) /\ Placed(j) /\ TypeInv /\ NoRepeat
      /\ Undisturbed /\ NoFailures /\ WorkerNext(w) /\ WorkerOK(w) /\ j # None
      /\ UNCHANGED <<request, task, retryCount>>
      /\ \A v \in Workers : Has(v, j) <=> held[v] = j
  BY AgreeFacts, WorkerCounts DEF ServiceInv, WorkerStep
<1>1. CASE held[w] # j /\ held'[w] # j
  BY <1>0, <1>1, WorkerSame, SettlingSame
<1>2. CASE Pop(w, j)
  <2>1. ~Suspected(j)'
    BY <1>0, <1>2, PopTakes DEF Placed, Untouched, Suspected, BeforeStrip
  <2> QED
    BY <1>0, <2>1 DEF Settling, Accepted
<1>3. CASE held[w] = j
  <2>1. CASE held' = held
    <3>1. Undisturbed'
      BY <1>0, <2>1, <1>3, CalmSplit, AgreeFacts, UndisturbedStep DEF ServiceInv, Next
    <3>2. Has(w, j)'
      BY <1>3, <2>1, <3>1 DEF Undisturbed, Has, Connected
    <3> QED
      BY <1>0, <3>2 DEF Settling, Accepted, Unheld
  <2>2. CASE Release(w)
    <3>1. jobStatus' = jobStatus /\ Terminal(j)
      BY <1>0, <1>3, <2>2 DEF Release, Go, ClearMarker, hashVars, Answered, Written
    <3> QED
      BY <1>0, <3>1 DEF Settling, Terminal, Accepted
  <2>3. CASE Crash(w)
    <3>1. CASE at[w] = "popped"
      BY <1>0, <1>3, <3>1 DEF Settling, Placed, Untouched, Suspected, BeforeStrip,
         Accepted
    <3>2. CASE at[w] # "popped"
      BY <1>0, <1>3, <2>3, <3>2, WorkerIdAssumption, NoneAssumption
         DEF Settling, Placed, Crash, dataVars, redisVars, Accepted
    <3> QED
      BY <3>1, <3>2
  <2>4. CASE Work(w) \/ Claim(w) \/ Beat(w)
    <3>1. held' = held
      BY <1>0, <2>4, WorkMoves DEF Claim, RedisStep, Beat, workerVars
    <3> QED
      BY <2>1, <3>1
  <2>5. ~Unwind(w) /\ ~Start(w) /\ ~\E i \in Jobs : Pop(w, i)
    BY <1>0, <1>3 DEF Agree, Unwind, Start, Pop, Go, WorkerOK, HandsFree
  <2> QED
    BY <1>0, <2>2, <2>3, <2>4, <2>5, CalmSplit
<1> QED
  BY <1>0, <1>1, <1>2, <1>3, PopOnly

LEMMA SettlingStep ==
    ASSUME RecoveryAssumed, ServiceInv, [Next]_vars, NEW j \in Jobs
    PROVE  Settling(j)'
<1>0. /\ Settling(j) /\ Answered(j) /\ Placed(j) /\ TypeInv /\ PlaceInv /\ AgreeInv
      /\ \A p, q \in Passes : p = q
  BY AgreeFacts DEF ServiceInv, RecoveryAssumed
<1>1. CASE ApiStep(j)
  <2>1. /\ ~Accepted(j) /\ retryCount'[j] \in {retryCount[j], 0}
        /\ UNCHANGED task /\ Untouched(j)
    BY <1>0, <1>1, ApiEffect DEF Accepted, Placed
  <2> QED
    BY <1>0, <2>1 DEF Settling, Untouched, Suspected, BeforeStrip
<1>2. ASSUME UNCHANGED <<submitVars, workerVars>>, NEW p \in Passes,
             Scan(p) \/ TaskNext(p, j)
      PROVE  Settling(j)'
  <2>0. request' = request /\ (Unheld(j)' <=> Unheld(j))
    BY <1>2 DEF submitVars, workerVars, Unheld, Has, Connected
  <2>1. CASE Scan(p)
    <3>1. UNCHANGED <<marker, retryCount, jobStatus>>
      BY <2>1 DEF Scan, storeVars, dataVars, redisVars
    <3>2. Suspected(j)' => marker[j] # None
      BY <1>0, <2>1 DEF Scan, Orphanable, Suspected, BeforeStrip, TypeInv, TypeOK,
         WatchdogTypeOK
    <3> QED
      BY <1>0, <2>0, <3>1, <3>2 DEF Settling, Accepted
  <2>2. CASE TaskNext(p, j)
    <3>1. task[p][j] # "idle" /\ Accepted(j)
      BY <1>0, <2>2, TaskEffect DEF Placed, Untouched
    <3>2. CASE task[p][j] \in InHand \cup AfterDlq
      BY <1>0, <2>0, <2>2, <3>1, <3>2, TaskEffect
         DEF Settling, Accepted, Suspected, BeforeStrip, InHand, AfterDlq
    <3>3. CASE task[p][j] \notin InHand \cup AfterDlq
      <4>1. UNCHANGED <<jobStatus, retryCount>>
        BY <1>0, <2>2, <3>3, TaskReads
      <4>2. CASE Strip(p, j) \/ ClearFinished(p, j) \/ OwnerAlive(p, j)
        <5>1. task'[p][j] \in {"idle", "decide"}
          BY <1>0, <4>2 DEF Strip, ClearFinished, OwnerAlive, Step, Finish, TypeInv,
             TypeOK, WatchdogTypeOK
        <5> QED
          BY <1>0, <2>0, <3>1, <5>1 DEF Settling, Accepted, Suspected, BeforeStrip
      <4>3. CASE ~(Strip(p, j) \/ ClearFinished(p, j) \/ OwnerAlive(p, j))
        <5>1. UNCHANGED storeVars /\ task[p][j] \in {"ttl"} \cup BeforeStrip
          BY <2>2, <3>3, <4>3 DEF TaskNext, OwnerSilent, CheckResult, ReadRetries,
             MoveToDlq, DlqInsert, DlqStatus, ResetPending, PgPending, Requeue, Step,
             Finish, InHand, AfterDlq, BeforeStrip
        <5>2. marker' = marker /\ Suspected(j)
          BY <5>1 DEF storeVars, dataVars, redisVars, Suspected
        <5> QED
          BY <1>0, <2>0, <3>1, <4>1, <5>2 DEF Settling, Accepted, Terminal
      <4> QED
        BY <4>2, <4>3
    <3> QED
      BY <3>2, <3>3
  <2> QED
    BY <1>2, <2>1, <2>2
<1> QED
  BY <1>0, <1>1, <1>2, CalmStep, SettlingSame, WorkerSettling

LEMMA ServiceInvStays ==
    ASSUME StoresAssumed
    PROVE  Spec => []ServiceInv
<1>0. RecoveryAssumed
  BY DEF StoresAssumed
<1>1. Init => ServiceInv
  <2>1. Init => \A j \in Jobs : Settling(j)
    BY DEF Init, EmptyRedis, WatchdogInit, Idle, Settling, Suspected, BeforeStrip
  <2> QED
    BY <2>1, AgreeInit DEF ServiceInv
<1>2. ServiceInv /\ [Next]_vars => ServiceInv'
  BY <1>0, AgreeStep, SettlingStep DEF ServiceInv
<1> QED
  BY <1>1, <1>2, PTL DEF Spec

\* What the clients of a job see, and a step that shows them nothing.
Answer(j) == IF Stage(j) = "settled" THEN jobStatus[j] ELSE None

Quiet(j) ==
    Stage(j)' = Stage(j) /\ retryCount'[j] = retryCount[j] /\ Answer(j)' = Answer(j)

\* A step of JobService for one job.
Turn(j) ==
    \/ /\ Stage(j) = "out" /\ Stage(j)' = "waiting"
       /\ retryCount'[j] = retryCount[j] /\ Answer(j)' = Answer(j)
    \/ /\ Stage(j) = "waiting" /\ Stage(j)' = "taken"
       /\ retryCount'[j] = retryCount[j] /\ Answer(j)' = Answer(j)
    \/ /\ Stage(j) \in {"taken", "orphan"} /\ Stage(j)' = "settled"
       /\ retryCount'[j] = retryCount[j] /\ Answer(j)' \in Final
    \/ /\ Stage(j) = "taken" /\ Stage(j)' \in {"orphan", "lost"}
       /\ retryCount'[j] = retryCount[j] /\ Answer(j)' = Answer(j)
    \/ /\ Stage(j) = "orphan" /\ Stage(j)' = "waiting"
       /\ retryCount[j] < MAX_RETRIES /\ retryCount'[j] = retryCount[j] + 1
       /\ Answer(j)' = Answer(j)
    \/ /\ Stage(j) = "orphan" /\ Stage(j)' = "settled"
       /\ retryCount[j] = MAX_RETRIES /\ retryCount'[j] = retryCount[j] + 1
       /\ Answer(j)' = "failed"

LEMMA SameQuiet ==
    ASSUME NEW j \in Jobs, Same(j)
    PROVE  Quiet(j)
<1>1. /\ Accepted(j)' <=> Accepted(j)
      /\ HeldBy(j)' = HeldBy(j) /\ HandledBy(j)' = HandledBy(j)
      /\ Suspected(j)' <=> Suspected(j)
      /\ Terminal(j)' <=> Terminal(j)
      /\ (\E p \in Passes : task[p][j] \in {"pgPending", "requeue"})'
           <=> (\E p \in Passes : task[p][j] \in {"pgPending", "requeue"})
  BY DEF Same, DataSame, HandsSame, TasksSame, Accepted, HeldBy, HandledBy, Suspected,
     Terminal
<1>2. Stage(j)' = Stage(j)
  BY <1>1 DEF Same, DataSame, Stage
<1> QED
  BY <1>2 DEF Same, DataSame, Quiet, Answer

\* Where a job is, told from what the invariants speak of.
Waits(j) == Queued(j) \/ \E p \in Passes : task[p][j] \in {"pgPending", "requeue"}

StageTable(j) ==
    /\ ~Accepted(j) => Stage(j) = "out"
    /\ Accepted(j) /\ ~Unheld(j) => Stage(j) = "taken"
    /\ Accepted(j) /\ Unheld(j) /\ Waits(j) => Stage(j) = "waiting"
    /\ Accepted(j) /\ Unheld(j) /\ ~Waits(j) =>
         /\ cache[j] # None => Stage(j) = "settled"
         /\ cache[j] = None =>
              /\ marker[j] # None \/ Suspected(j) \/ HandledBy(j) # {} =>
                   Stage(j) = "orphan"
              /\ marker[j] = None /\ ~Suspected(j) /\ HandledBy(j) = {} =>
                   Stage(j) = IF Terminal(j) THEN "settled" ELSE "lost"

LEMMA StageIs ==
    ASSUME NEW j \in Jobs
    PROVE  StageTable(j) /\ StageTable(j)'
<1>1. (HeldBy(j) = {} <=> Unheld(j)) /\ (HeldBy(j) = {} <=> Unheld(j))'
  BY DEF HeldBy, Unheld
<1> QED
  BY <1>1 DEF Stage, StageTable, Waits

LEMMA ApiTurn ==
    ASSUME ServiceInv, AgreeInv', NEW i \in Jobs, ApiStep(i)
    PROVE  Quiet(i) \/ Turn(i)
<1>0. /\ TypeInv /\ Settling(i) /\ ~Accepted(i) /\ retryCount'[i] = retryCount[i]
      /\ Placed(i)' /\ SubmitNext(i)
  BY AgreeFacts, ApiEffect DEF ServiceInv, Settling, ApiStep, Accepted, AgreeInv,
     RecordInv, RecoveryInv, PlaceInv
<1>1. Stage(i) = "out" /\ Answer(i) = None
  BY <1>0, StageIs DEF StageTable, Answer
<1>2. CASE EnqueueJob(i)
  <2>1. Accepted(i)' /\ Queued(i)'
    BY <1>0, <1>2, EnqueueQueued DEF EnqueueJob, Advance, Accepted, TypeInv, TypeOK,
       SubmitTypeOK, StoreTypeOK, DataTypeOK
  <2>2. Stage(i)' = "waiting"
    BY <1>0, <2>1 DEF Placed, Unheld, HeldBy, Stage
  <2> QED
    BY <1>0, <1>1, <2>2 DEF Turn, Answer
<1>3. CASE ~EnqueueJob(i)
  <2>1. ~Accepted(i)'
    BY <1>0, <1>3 DEF SubmitNext, SubmitProgress, Admit, Reject, HandlerDies,
       InsertSubmission, InsertSubmissionFails, StoreJob, Advance, Accepted, TypeInv,
       TypeOK, SubmitTypeOK
  <2>2. Stage(i)' = "out"
    BY <2>1 DEF Stage
  <2> QED
    BY <1>0, <1>1, <2>2 DEF Quiet, Answer
<1> QED
  BY <1>2, <1>3

LEMMA ReleaseTurn ==
    ASSUME ServiceInv, AgreeInv', NEW w \in Workers, WorkerStep(w),
           NEW j \in Jobs, held[w] = j, Release(w)
    PROVE  Turn(j)
<1>0. /\ TypeInv /\ Answered(j) /\ Placed(j) /\ Has(w, j) /\ WorkerNext(w)
      /\ at[w] = "release" /\ UNCHANGED <<retryCount, request, task>>
  BY AgreeFacts, WorkerCounts DEF ServiceInv, Release, Go, WorkerStep
<1>1. /\ UNCHANGED <<cache, jobStatus, queue>> /\ marker'[j] = None /\ held'[w] # j
      /\ \A v \in Workers : v # w => held'[v] = held[v] /\ leaving'[v] = leaving[v]
  BY <1>0, WorkerAlone, NoneAssumption DEF Release, ClearMarker, hashVars, TypeInv,
     TypeOK, StoreTypeOK, DataTypeOK, WorkerTypeOK
<1>2. /\ Accepted(j)' /\ Unheld(j)' /\ ~Waits(j)' /\ HandledBy(j)' = {} /\ Terminal(j)'
      /\ Accepted(j) /\ ~Unheld(j) /\ jobStatus'[j] \in Final
  BY <1>0, <1>1 DEF Placed, Unheld, Untouched, Has, Connected, Waits, Queued,
     Occurrences, HandledBy, InHand, Accepted, Answered, Written, Terminal
<1>3. Stage(j) = "taken" /\ Stage(j)' \in {"settled", "orphan"}
  BY <1>1, <1>2, StageIs DEF StageTable
<1> QED
  BY <1>0, <1>2, <1>3 DEF Turn, Answer

LEMMA CrashTurn ==
    ASSUME ServiceInv, AgreeInv', NEW w \in Workers, WorkerStep(w),
           NEW j \in Jobs, held[w] = j, Crash(w)
    PROVE  Turn(j)
<1>0. /\ TypeInv /\ Answered(j) /\ Placed(j) /\ Agree(j) /\ Has(w, j) /\ WorkerNext(w)
      /\ UNCHANGED <<retryCount, request, task>> /\ WorkerId[w] # None
  BY AgreeFacts, WorkerCounts, WorkerIdAssumption, NoneAssumption
     DEF ServiceInv, WorkerStep
<1>1. /\ UNCHANGED <<cache, jobStatus, queue, marker>> /\ held'[w] # j
      /\ \A v \in Workers : v # w => held'[v] = held[v] /\ leaving'[v] = leaving[v]
  BY <1>0, WorkerAlone, NoneAssumption DEF Crash, Halt, dataVars, redisVars, TypeInv,
     TypeOK, WorkerTypeOK
<1>2. /\ Accepted(j)' /\ Unheld(j)' /\ ~Waits(j)' /\ HandledBy(j)' = {}
      /\ Accepted(j) /\ ~Unheld(j)
  BY <1>0, <1>1 DEF Placed, Unheld, Untouched, Has, Connected, Waits, Queued,
     Occurrences, HandledBy, InHand, Accepted
<1>3. Stage(j) = "taken"
  BY <1>2, StageIs DEF StageTable
<1>4. CASE cache[j] # None
  <2>1. Stage(j)' = "settled" /\ jobStatus'[j] \in Final
    BY <1>0, <1>1, <1>2, <1>4, StageIs
       DEF StageTable, Answered, TypeInv, TypeOK, StoreTypeOK, DataTypeOK
  <2> QED
    BY <1>0, <1>3, <2>1 DEF Turn, Answer
<1>5. CASE cache[j] = None /\ at[w] # "popped"
  <2>1. Stage(j)' = "orphan"
    BY <1>0, <1>1, <1>2, <1>5, StageIs DEF StageTable, Placed
  <2> QED
    BY <1>0, <1>3, <2>1 DEF Turn, Answer
<1>6. CASE cache[j] = None /\ at[w] = "popped"
  <2>1. ~Suspected(j)' /\ marker'[j] = None /\ ~Terminal(j)'
    BY <1>0, <1>1, <1>6 DEF Placed, Untouched, Suspected, BeforeStrip, Agree, Both,
       Terminal, Final
  <2>2. Stage(j)' = "lost"
    BY <1>1, <1>2, <1>6, <2>1, StageIs DEF StageTable
  <2> QED
    BY <1>0, <1>3, <2>2 DEF Turn, Answer
<1> QED
  BY <1>4, <1>5, <1>6

LEMMA WorkerTurn ==
    ASSUME ServiceInv, AgreeInv', NEW w \in Workers, WorkerStep(w),
           NEW j \in Jobs, held[w] = j \/ Pop(w, j)
    PROVE  Quiet(j) \/ Turn(j)
<1>0. /\ TypeInv /\ Placed(j) /\ Agree(j) /\ WorkerNext(w) /\ WorkerOK(w)
      /\ Undisturbed /\ NoFailures /\ j # None
      /\ UNCHANGED <<retryCount, request, task>>
      /\ \A v \in Workers : Has(v, j) <=> held[v] = j
  BY AgreeFacts, WorkerCounts DEF ServiceInv, WorkerStep
<1>a. \A v \in Workers : Has(v, j)' <=> held'[v] = j
  BY HeldIsHas DEF AgreeInv, RecordInv, Undisturbed, Has, Connected
<1>1. CASE Pop(w, j)
  <2>1. Accepted(j) /\ Unheld(j) /\ Queued(j)
    BY <1>0, <1>1, PopTakes DEF Placed
  <2>2. Accepted(j)' /\ ~Unheld(j)'
    BY <1>0, <1>a, <1>1, <2>1 DEF Pop, Unheld, Accepted, TypeInv, TypeOK, WorkerTypeOK
  <2>3. Stage(j) = "waiting" /\ Stage(j)' = "taken"
    BY <2>1, <2>2, StageIs DEF StageTable, Waits
  <2> QED
    BY <1>0, <2>3 DEF Turn, Answer
<1>2. CASE held[w] = j /\ (Work(w) \/ Claim(w) \/ Beat(w))
  <2>1. held' = held
    BY <1>0, <1>2, WorkMoves DEF Claim, RedisStep, Beat, workerVars
  <2>2. Accepted(j) /\ ~Unheld(j) /\ Accepted(j)' /\ ~Unheld(j)'
    BY <1>0, <1>a, <1>2, <2>1 DEF Placed, Accepted, Unheld
  <2>3. Stage(j) = "taken" /\ Stage(j)' = "taken"
    BY <2>2, StageIs DEF StageTable
  <2> QED
    BY <1>0, <2>3 DEF Quiet, Answer
<1>3. CASE held[w] = j /\ (Release(w) \/ Crash(w))
  BY <1>3, ReleaseTurn, CrashTurn
<1>4. held[w] = j => ~Unwind(w) /\ ~Start(w) /\ ~\E i \in Jobs : Pop(w, i)
  BY <1>0 DEF Agree, Unwind, Start, Pop, Go, WorkerOK, HandsFree
<1> QED
  BY <1>0, <1>1, <1>2, <1>3, <1>4, CalmSplit

\* With one pass, where its task stands says what the watchdog has to do with a job.
TaskTable(p, j) ==
    /\ Suspected(j) <=> task[p][j] \in {"ttl"} \cup BeforeStrip
    /\ HandledBy(j) = {} <=> task[p][j] \notin InHand
    /\ Waits(j) <=> Queued(j) \/ task[p][j] \in {"pgPending", "requeue"}

LEMMA TaskIs ==
    ASSUME RecoveryAssumed, NEW p \in Passes, NEW j \in Jobs
    PROVE  TaskTable(p, j) /\ TaskTable(p, j)'
BY DEF RecoveryAssumed, TaskTable, Suspected, HandledBy, Waits

LEMMA ScanQuiet ==
    ASSUME RecoveryAssumed, ServiceInv, UNCHANGED <<submitVars, workerVars>>,
           NEW p \in Passes, Scan(p), NEW j \in Jobs
    PROVE  Quiet(j)
<1>1. DataSame(j) /\ HandsSame(j) /\ request'[j] = request[j]
  BY QuietSame, HandsKept DEF Scan, storeVars
<1>2. /\ task[p][j] = "idle" /\ task'[p][j] \in {"idle", "ttl"}
      /\ task'[p][j] = "ttl" => marker[j] # None
  BY AgreeFacts DEF ServiceInv, Scan, Idle, Orphanable, TypeInv, TypeOK, WatchdogTypeOK
<1>3. Stage(j)' = Stage(j)
  BY <1>1, <1>2, StageIs, TaskIs DEF DataSame, HandsSame, StageTable, TaskTable,
     Accepted, Unheld, Terminal, InHand, BeforeStrip
<1> QED
  BY <1>1, <1>3 DEF DataSame, Quiet, Answer

\* A task up to its HDEL changes nothing that a client sees, but for a job that
\* its worker has put down: there it finds that the owner is alive, and the
\* answer is safe.
LEMMA ReadingTurn ==
    ASSUME RecoveryAssumed, ServiceInv, UNCHANGED <<submitVars, workerVars>>,
           NEW p \in Passes, NEW j \in Jobs, TaskNext(p, j),
           task[p][j] \notin InHand \cup AfterDlq
    PROVE  Quiet(j) \/ Turn(j)
<1>0. /\ TypeInv /\ PlaceInv /\ Placed(j) /\ Answered(j) /\ Settling(j)
      /\ UNCHANGED <<queue, jobStatus, retryCount, cache, request, held, leaving>>
      /\ task[p][j] # "idle"
  BY AgreeFacts, TaskReads, TaskEffect DEF ServiceInv, submitVars, workerVars
<1>1. /\ Accepted(j) /\ ~Queued(j) /\ Accepted(j)' /\ ~Queued(j)'
      /\ (Unheld(j)' <=> Unheld(j)) /\ (Terminal(j)' <=> Terminal(j))
      /\ task[p][j] \in {"ttl"} \cup BeforeStrip
  BY <1>0 DEF Placed, Untouched, Accepted, Queued, Occurrences, Unheld, Has, Connected,
     Terminal, TypeInv, TypeOK, WatchdogTypeOK, TaskSteps
<1> USE <1>0, <1>1, StageIs, TaskIs DEF StageTable, TaskTable, InHand, BeforeStrip
<1>2. CASE ~Unheld(j)
  BY <1>2 DEF Quiet, Answer
<1>3. CASE Unheld(j) /\ cache[j] # None
  <2>1. task'[p][j] \notin InHand
    BY <1>3, TaskEffect DEF Answered
  <2> QED
    BY <1>3, <2>1 DEF Quiet, Answer
<1>4. CASE Unheld(j) /\ cache[j] = None
  <2>0. Stage(j) = "orphan"
    BY <1>4
  <2>1. CASE OwnerAlive(p, j)
    <3>1. marker' = marker /\ task'[p][j] = "idle"
      BY <2>1 DEF OwnerAlive, Finish, storeVars, dataVars, redisVars, TypeInv, TypeOK,
         WatchdogTypeOK
    <3>2. CASE marker[j] # None
      BY <1>4, <2>0, <3>1, <3>2 DEF Quiet, Answer
    <3>3. CASE marker[j] = None
      <4>1. Stage(j)' = "settled" /\ jobStatus'[j] \in Final
        BY <1>4, <3>1, <3>3 DEF Settling, Terminal
      <4> QED
        BY <2>0, <4>1 DEF Turn, Answer
    <3> QED
      BY <3>2, <3>3
  <2>2. CASE OwnerSilent(p, j) \/ CheckResult(p, j) \/ ReadRetries(p, j) \/ Strip(p, j)
    <3>1. task'[p][j] \in {"exists", "clear", "retries", "strip", "decide"}
      BY <2>2 DEF OwnerSilent, CheckResult, ReadRetries, Strip, Step, TypeInv, TypeOK,
         WatchdogTypeOK
    <3> QED
      BY <1>4, <2>0, <3>1 DEF Quiet, Answer
  <2>3. ~ClearFinished(p, j)
    BY <1>4 DEF ClearFinished, Finish, Answered
  <2> QED
    BY <2>1, <2>2, <2>3 DEF TaskNext, MoveToDlq, DlqInsert, DlqStatus, ResetPending,
       PgPending, Requeue, Step, Finish, AfterDlq
<1> QED
  BY <1>2, <1>3, <1>4

LEMMA DecidingTurn ==
    ASSUME RecoveryAssumed, ServiceInv, UNCHANGED <<submitVars, workerVars>>,
           NEW p \in Passes, NEW j \in Jobs, TaskNext(p, j),
           task[p][j] \in InHand \cup AfterDlq
    PROVE  Quiet(j) \/ Turn(j)
<1>0. /\ TypeInv /\ PlaceInv /\ Placed(j) /\ Answered(j) /\ Agree(j) /\ Retry(j)
      /\ UNCHANGED <<cache, request, held, leaving>>
      /\ Unheld(j) /\ task[p][j] # "idle" /\ MAX_RETRIES \in Nat
      /\ retryCount[j] \in Nat /\ dlq[j] \in Nat /\ retryCount \in [Jobs -> Nat]
  BY AgreeFacts, TaskEffect, OwnerGone, RetriesAssumption
     DEF ServiceInv, submitVars, workerVars, TypeInv, TypeOK, StoreTypeOK, DataTypeOK
<1>1. /\ Accepted(j) /\ Accepted(j)' /\ ~Queued(j) /\ Unheld(j)'
      /\ marker[j] = None /\ marker'[j] = None /\ cache[j] = None
  BY <1>0, TaskMoves DEF Placed, Untouched, Accepted, Unheld, Has, Connected, Answered,
     InHand, AfterDlq, BeforeStrip
<1>a. ASSUME queue' = queue PROVE ~Queued(j)'
  BY <1>1, <1>a DEF Queued, Occurrences
<1>b. task[p][j] = "decide" => count[p][j] = retryCount[j] + 1 /\ retryCount[j] <= MAX_RETRIES
  <2>1. task[p][j] = "decide" => dlq[j] # 1
    BY <1>0 DEF Retry, AfterDlq
  <2> QED
    BY <1>0, <2>1 DEF Retry
<1>c. /\ StageTable(j) /\ StageTable(j)' /\ TaskTable(p, j) /\ TaskTable(p, j)'
  BY StageIs, TaskIs
<1>d. task[p][j] = "decide" =>
        IF count[p][j] > MAX_RETRIES THEN retryCount[j] = MAX_RETRIES
                                     ELSE retryCount[j] < MAX_RETRIES
  BY <1>0, <1>b
<1> USE <1>0, <1>1 DEF InHand, BeforeStrip, AfterDlq, TypeInv, TypeOK, WatchdogTypeOK,
        Step, Finish
<1>3. CASE MoveToDlq(p, j)
  <2>1. /\ task[p][j] = "decide" /\ task'[p][j] = "pgInsert" /\ queue' = queue
        /\ jobStatus'[j] = "failed" /\ retryCount'[j] = count[p][j]
        /\ count[p][j] > MAX_RETRIES
    BY <1>3 DEF MoveToDlq, Exhausted, DeadLetter, StoreTypeOK, DataTypeOK
  <2>2. retryCount[j] = MAX_RETRIES /\ retryCount'[j] = retryCount[j] + 1
    BY <1>b, <1>d, <2>1
  <2>3. Stage(j) = "orphan" /\ Stage(j)' = "settled"
    BY <1>a, <1>c, <2>1 DEF StageTable, TaskTable, Terminal, Final
  <2> QED
    BY <2>1, <2>2, <2>3 DEF Turn, Answer
<1>4. CASE ResetPending(p, j)
  <2>1. /\ task[p][j] = "decide" /\ task'[p][j] = "pgPending" /\ queue' = queue
        /\ retryCount'[j] = count[p][j] /\ ~(count[p][j] > MAX_RETRIES)
    BY <1>4 DEF ResetPending, Exhausted, SetPending, StoreTypeOK, DataTypeOK
  <2>2. retryCount[j] < MAX_RETRIES /\ retryCount'[j] = retryCount[j] + 1
    BY <1>b, <1>d, <2>1
  <2>3. Stage(j) = "orphan" /\ Stage(j)' = "waiting"
    BY <1>a, <1>c, <2>1 DEF StageTable, TaskTable
  <2> QED
    BY <2>2, <2>3 DEF Turn, Answer
<1>5. CASE DlqInsert(p, j) \/ DlqStatus(p, j)
  <2>1. /\ task[p][j] \in AfterDlq /\ task'[p][j] \in {"idle"} \cup AfterDlq
        /\ UNCHANGED <<queue, jobStatus, retryCount>>
    BY <1>5 DEF DlqInsert, DlqStatus, InsertRow, UpdateSubmission, dataVars, redisVars
  <2>2. Terminal(j) /\ Terminal(j)'
    BY <2>1 DEF Agree, Terminal, Final
  <2>3. Stage(j) = "settled" /\ Stage(j)' = "settled"
    BY <1>a, <1>c, <2>1, <2>2 DEF StageTable, TaskTable
  <2> QED
    BY <2>1, <2>3 DEF Quiet, Answer
<1>6. CASE PgPending(p, j) \/ Requeue(p, j)
  <2>1. /\ task[p][j] \in {"pgPending", "requeue"} /\ UNCHANGED retryCount
        /\ task'[p][j] = "requeue" \/ Queued(j)'
    <3>1. CASE PgPending(p, j)
      BY <3>1 DEF PgPending, UpdateSubmission, redisVars
    <3>2. CASE Requeue(p, j)
      <4>1. queue \in Seq(Jobs) /\ Enqueue(j)
        BY <3>2 DEF Requeue, StoreTypeOK, DataTypeOK
      <4>2. Queued(j)'
        BY <4>1, EnqueueQueued
      <4> QED
        BY <3>2, <4>2 DEF Requeue, Enqueue, hashVars
    <3> QED
      BY <1>6, <3>1, <3>2
  <2>2. Stage(j) = "waiting" /\ Stage(j)' = "waiting"
    BY <1>c, <2>1 DEF StageTable, TaskTable
  <2> QED
    BY <2>1, <2>2 DEF Quiet, Answer
<1> QED
  BY <1>3, <1>4, <1>5, <1>6 DEF TaskNext, OwnerAlive, OwnerSilent, CheckResult,
     ClearFinished, ReadRetries, Strip

\* A step moves one job at most.
LEMMA OneTurn ==
    ASSUME RecoveryAssumed, ServiceInv, AgreeInv', [Next]_vars
    PROVE  \/ \A j \in Jobs : Quiet(j)
           \/ \E i \in Jobs : Turn(i) /\ \A j \in Jobs : j # i => Quiet(j)
<1>0. /\ TypeInv /\ NoRepeat /\ faults["redis"] = 0 /\ NoFailures /\ None \notin Jobs
      /\ ~LinkStep /\ \A w \in Workers : WorkerOK(w)
  BY AgreeFacts, NoneAssumption, NoLink DEF ServiceInv, AgreeInv, RecordInv, RecoveryInv,
     PlaceInv, World, FaultsOK
<1>a. ASSUME NEW i \in Jobs, Quiet(i) \/ Turn(i), \A j \in Jobs : j # i => Quiet(j)
      PROVE  \/ \A j \in Jobs : Quiet(j)
             \/ \E k \in Jobs : Turn(k) /\ \A j \in Jobs : j # k => Quiet(j)
  BY <1>a
<1>1. ASSUME NEW i \in Jobs, ApiStep(i)
      PROVE  \/ \A j \in Jobs : Quiet(j)
             \/ \E k \in Jobs : Turn(k) /\ \A j \in Jobs : j # k => Quiet(j)
  BY <1>0, <1>a, <1>1, ApiTurn, ApiSame, SameQuiet
<1>2. ASSUME NEW w \in Workers, WorkerStep(w)
      PROVE  \/ \A j \in Jobs : Quiet(j)
             \/ \E k \in Jobs : Turn(k) /\ \A j \in Jobs : j # k => Quiet(j)
  <2>1. ASSUME NEW j \in Jobs, held[w] # j, ~Pop(w, j)
        PROVE  Quiet(j)
    BY <1>0, <1>2, <2>1, PopOnly, WorkerSame, SameQuiet DEF WorkerStep
  <2>2. ASSUME NEW i \in Jobs, held[w] = i \/ Pop(w, i)
        PROVE  \A j \in Jobs : j # i => held[w] # j /\ ~Pop(w, j)
    <3>1. \A j \in Jobs : Pop(w, j) => held[w] = None /\ j = queue[Len(queue)]
      BY <1>0 DEF Pop, Go, Dequeue, WorkerOK, HandsFree
    <3> QED
      BY <1>0, <2>2, <3>1
  <2>3. CASE \E i \in Jobs : held[w] = i \/ Pop(w, i)
    <3>1. PICK i \in Jobs : held[w] = i \/ Pop(w, i)
      BY <2>3
    <3>2. Quiet(i) \/ Turn(i)
      BY <1>2, <3>1, WorkerTurn
    <3> QED
      BY <1>a, <2>1, <2>2, <3>1, <3>2
  <2> QED
    BY <2>1, <2>3
<1>3. CASE WatchdogStep
  <2>1. ASSUME NEW p \in Passes, Scan(p)
        PROVE  \A j \in Jobs : Quiet(j)
    BY <1>3, <2>1, ScanQuiet DEF WatchdogStep
  <2>2. ASSUME NEW p \in Passes, NEW i \in Jobs, TaskNext(p, i)
        PROVE  \/ \A j \in Jobs : Quiet(j)
               \/ \E k \in Jobs : Turn(k) /\ \A j \in Jobs : j # k => Quiet(j)
    <3>1. Quiet(i) \/ Turn(i)
      BY <1>3, <2>2, ReadingTurn, DecidingTurn DEF WatchdogStep
    <3>2. \A j \in Jobs : j # i => Quiet(j)
      BY <1>0, <1>3, <2>2, TaskKept, SameQuiet DEF WatchdogStep
    <3> QED
      BY <1>a, <3>1, <3>2
  <2> QED
    BY <1>0, <1>3, <2>1, <2>2, WatchdogCalm DEF WatchdogStep
<1>4. CASE TimeStep \/ LapseStep \/ UNCHANGED vars
  BY <1>0, <1>4, TimeSame, StutterSame, SameQuiet
<1> QED
  BY <1>0, <1>1, <1>2, <1>3, <1>4 DEF Next

\* A turn of one job is a step of JobService.
LEMMA TurnIsStep ==
    ASSUME ServiceInv, ServiceInv', NEW i \in Jobs, Turn(i),
           \A j \in Jobs : j # i => Quiet(j)
    PROVE  Service!Next
<1> DEFINE stage == [j \in Jobs |-> Stage(j)]
           answer == [j \in Jobs |-> IF Stage(j) = "settled" THEN jobStatus[j] ELSE None]
<1>1. /\ retryCount \in [Jobs -> Nat] /\ retryCount' \in [Jobs -> Nat]
      /\ "failed" \in Final
  BY DEF ServiceInv, AgreeInv, RecordInv, ResultInv, TypeInv, TypeOK, StoreTypeOK,
     DataTypeOK, Final
<1>2. /\ stage' = [stage EXCEPT ![i] = Stage(i)']
      /\ answer' = [answer EXCEPT ![i] = Answer(i)']
      /\ retryCount' = [retryCount EXCEPT ![i] = retryCount'[i]]
  BY <1>1 DEF Quiet, Answer
<1>3. stage[i] = Stage(i) /\ answer[i] = Answer(i)
  BY DEF Answer
<1>4. /\ retryCount'[i] = retryCount[i] => retryCount' = retryCount
      /\ Answer(i)' = Answer(i) => answer' = answer
  <2>1. \A f, g : f = [j \in Jobs |-> f[j]] /\ g = [f EXCEPT ![i] = f[i]] => g = f
    OBVIOUS
  <2> QED
    BY <1>1, <1>2, <1>3, <2>1
<1>5. ASSUME NEW from, NEW to, Stage(i) = from, Stage(i)' = to
      PROVE  Service!Move(i, from, to)
  BY <1>2, <1>3, <1>5 DEF Service!Move
<1> SUFFICES \/ Service!Submit(i) \/ Service!Take(i) \/ Service!Settle(i)
             \/ Service!Abandon(i) \/ Service!Recover(i) \/ Service!GiveUp(i)
             \/ Service!Lose(i)
  BY DEF Service!Next
<1> USE <1>1, <1>2, <1>3, <1>4, <1>5
<1>6. CASE /\ Stage(i) = "out" /\ Stage(i)' = "waiting"
           /\ retryCount'[i] = retryCount[i] /\ Answer(i)' = Answer(i)
  BY <1>6 DEF Service!Submit
<1>7. CASE /\ Stage(i) = "waiting" /\ Stage(i)' = "taken"
           /\ retryCount'[i] = retryCount[i] /\ Answer(i)' = Answer(i)
  BY <1>7 DEF Service!Take
<1>8. CASE /\ Stage(i) \in {"taken", "orphan"} /\ Stage(i)' = "settled"
           /\ retryCount'[i] = retryCount[i] /\ Answer(i)' \in Final
  BY <1>8 DEF Service!Settle
<1>9. CASE /\ Stage(i) = "taken" /\ Stage(i)' \in {"orphan", "lost"}
           /\ retryCount'[i] = retryCount[i] /\ Answer(i)' = Answer(i)
  BY <1>9 DEF Service!Abandon, Service!Lose
<1>10. CASE /\ Stage(i) = "orphan" /\ Stage(i)' = "waiting"
            /\ retryCount[i] < MAX_RETRIES /\ retryCount'[i] = retryCount[i] + 1
            /\ Answer(i)' = Answer(i)
  BY <1>10 DEF Service!Recover
<1>11. CASE /\ Stage(i) = "orphan" /\ Stage(i)' = "settled"
            /\ retryCount[i] = MAX_RETRIES /\ retryCount'[i] = retryCount[i] + 1
            /\ Answer(i)' = "failed"
  BY <1>11 DEF Service!GiveUp
<1> QED
  BY <1>6, <1>7, <1>8, <1>9, <1>10, <1>11 DEF Turn

LEMMA QuietIsStutter ==
    ASSUME ServiceInv, ServiceInv', \A j \in Jobs : Quiet(j)
    PROVE  UNCHANGED Service!vars
<1>1. retryCount \in [Jobs -> Nat] /\ retryCount' \in [Jobs -> Nat]
  BY DEF ServiceInv, AgreeInv, RecordInv, ResultInv, TypeInv, TypeOK, StoreTypeOK,
     DataTypeOK
<1>2. retryCount' = retryCount
  BY <1>1 DEF Quiet
<1> QED
  BY <1>2 DEF Quiet, Answer, Service!vars

LEMMA ServiceInit ==
    ASSUME Init
    PROVE  Service!Init
<1>1. \A j \in Jobs : Stage(j) = "out"
  BY DEF Init, SubmitInit, Stage, Accepted
<1> QED
  BY <1>1 DEF Init, EmptyRedis, Service!Init

\* The engine implements JobService, every job's life at once: whatever worker or
\* handler dies at whatever await, and whatever a pass has read before, a job
\* waits, is taken, and is settled for good or goes back to the queue only when
\* its worker is gone, at most MAX_RETRIES times, before it has failed; it is
\* lost only by the worker that had popped it and not marked it.
THEOREM EngineIsService ==
    ASSUME StoresAssumed
    PROVE  Spec => ImplementsService
<1>0. RecoveryAssumed
  BY DEF StoresAssumed
<1>1. Init => Service!Init
  BY ServiceInit
<1>2. ServiceInv /\ ServiceInv' /\ [Next]_vars => [Service!Next]_(Service!vars)
  <2> SUFFICES ASSUME ServiceInv, ServiceInv', [Next]_vars
               PROVE  Service!Next \/ UNCHANGED Service!vars
    OBVIOUS
  <2>1. AgreeInv'
    BY DEF ServiceInv
  <2> QED
    BY <1>0, <2>1, OneTurn, TurnIsStep, QuietIsStutter
<1> QED
  BY <1>1, <1>2, ServiceInvStays, PTL DEF Spec, ImplementsService, Service!Spec

=============================================================================

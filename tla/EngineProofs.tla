---------------------------- MODULE EngineProofs ---------------------------
(***************************************************************************)
(* Type correctness of the engine, and DoneBacked, for every set of jobs,  *)
(* workers and passes, every assignment of worker ids, every retry and     *)
(* queue limit, and every budget of faults.                                *)
(***************************************************************************)
EXTENDS Engine, TLAPS

(* The commands of the two stores keep the type of their data.             *)

LEMMA EnqueueType ==
    ASSUME NEW j \in Jobs, DataTypeOK, Enqueue(j)
    PROVE  DataTypeOK'
BY DEF DataTypeOK, Enqueue, hashVars, pgVars

LEMMA DequeueType ==
    ASSUME NEW j \in Jobs, DataTypeOK, Dequeue(j)
    PROVE  DataTypeOK'
BY DEF DataTypeOK, Dequeue, hashVars, pgVars

LEMMA MarkerType ==
    ASSUME NEW j \in Jobs, NEW i \in Ids, DataTypeOK,
           SetMarker(j, i) \/ ClearMarker(j)
    PROVE  DataTypeOK'
BY DEF DataTypeOK, SetMarker, ClearMarker, hashVars, pgVars

LEMMA HashType ==
    ASSUME NEW j \in Jobs, NEW s \in Status, NEW n \in Nat, DataTypeOK,
           SetJob(j) \/ SetStatus(j, s) \/ SetPending(j, n) \/ DeadLetter(j, n)
    PROVE  DataTypeOK'
<1> "pending" \in Status /\ "failed" \in Status
  BY DEF Status, Final
<1>1. CASE SetJob(j)
  BY <1>1 DEF DataTypeOK, SetJob, pgVars
<1>2. CASE SetStatus(j, s)
  BY <1>2 DEF DataTypeOK, SetStatus, pgVars
<1>3. CASE SetPending(j, n)
  BY <1>3 DEF DataTypeOK, SetPending, pgVars
<1>4. CASE DeadLetter(j, n)
  BY <1>4 DEF DataTypeOK, DeadLetter, pgVars
<1> QED  BY <1>1, <1>2, <1>3, <1>4

LEMMA CacheType ==
    ASSUME NEW j \in Jobs, NEW s \in Final, DataTypeOK, SetResult(j, s)
    PROVE  DataTypeOK'
BY DEF DataTypeOK, SetResult, hashVars, pgVars

LEMMA HeartbeatType ==
    ASSUME NEW hs \in SUBSET Ids, DataTypeOK, SetHeartbeats(hs)
    PROVE  DataTypeOK'
BY DEF DataTypeOK, SetHeartbeats, hashVars, pgVars

LEMMA SubmissionType ==
    ASSUME NEW j \in Jobs, NEW s \in Status, DataTypeOK,
           CreateSubmission(j) \/ UpdateSubmission(j, s)
    PROVE  DataTypeOK'
BY DEF DataTypeOK, CreateSubmission, UpdateSubmission, Status, redisVars

LEMMA RowType ==
    ASSUME NEW j \in Jobs, NEW o \in Outcomes, DataTypeOK, InsertRow(j, o)
    PROVE  DataTypeOK'
BY DEF DataTypeOK, InsertRow, redisVars

LEMMA ClockType ==
    ASSUME NEW j \in Jobs, DataTypeOK, MarkerAges(j)
    PROVE  DataTypeOK'
BY DEF DataTypeOK, MarkerAges, hashVars, pgVars

LEMMA RestartType ==
    ASSUME DataTypeOK, RedisRestarts
    PROVE  DataTypeOK'
BY DEF DataTypeOK, RedisRestarts, pgVars

LEMMA StutterType ==
    ASSUME DataTypeOK, UNCHANGED dataVars
    PROVE  DataTypeOK'
BY DEF DataTypeOK, dataVars, redisVars, pgVars

LEMMA PgFailsType ==
    ASSUME NEW j \in Jobs, NEW s \in Status, NEW o \in Outcomes, DataTypeOK,
           \/ PgFails(CreateSubmission(j))
           \/ PgFails(UpdateSubmission(j, s))
           \/ PgFails(InsertRow(j, o))
    PROVE  DataTypeOK'
BY SubmissionType, RowType, StutterType DEF PgFails

LEMMA FaultsType ==
    ASSUME NEW k \in FaultKinds, faults \in [FaultKinds -> Nat],
           Spend(k) \/ NoFault
    PROVE  faults' \in [FaultKinds -> Nat]
BY DEF Spend, NoFault

LEMMA Kinds ==
    {"crash", "pg", "redis", "signal", "api", "dog", "link"} \subseteq FaultKinds
BY DEF FaultKinds

-----------------------------------------------------------------------------
(* The state keeps its type.  A worker's commands are well typed only      *)
(* because of where it stands: past BRPOP it has a job in hand, and while  *)
(* it records a result it has one.                                         *)

HandsFree == {"brpop", "stopped", "dead"}

HandsOK ==
    \A w \in Workers :
        /\ at[w] \notin HandsFree => held[w] \in Jobs
        /\ at[w] \in Recording => outcome[w] \in Outcomes

TypeInv == TypeOK /\ HandsOK

LEMMA InitType == Init => TypeInv
<1> SUFFICES ASSUME Init PROVE TypeInv
  OBVIOUS
<1>1. StoreTypeOK
  <2>1. {WorkerId[w] : w \in Workers} \subseteq Ids
    BY WorkerIdAssumption
  <2>2. DataTypeOK
    BY <2>1 DEF Init, EmptyRedis, EmptyPg, DataTypeOK
  <2> QED
    BY <2>2, BudgetAssumption DEF Init, StoreTypeOK
<1>2. SubmitTypeOK
  BY DEF Init, SubmitInit, SubmitTypeOK, SubmitSteps
<1>3. WorkerTypeOK
  BY DEF Init, WorkerInit, WorkerTypeOK, LoopSteps, Unclaimed, LeavingSteps
<1>4. WatchdogTypeOK
  BY DEF Init, WatchdogInit, WatchdogTypeOK, TaskSteps, Idle, NoOwner, NoCount
<1>5. HandsOK
  BY DEF Init, WorkerInit, HandsOK, HandsFree, Recording
<1> QED
  BY <1>1, <1>2, <1>3, <1>4, <1>5 DEF TypeInv, TypeOK

\* The steps of a loop that only move it on.
LEMMA GoType ==
    ASSUME NEW w \in Workers, NEW from, NEW to \in LoopSteps,
           WorkerTypeOK, HandsOK, Go(w, from, to),
           UNCHANGED <<held, outcome, leaving>>,
           from \in HandsFree => to \in HandsFree,
           to \in Recording => from \in Recording
    PROVE  WorkerTypeOK' /\ HandsOK'
BY DEF WorkerTypeOK, HandsOK, Go

LEMMA HaltType ==
    ASSUME NEW w \in Workers, WorkerTypeOK, HandsOK, Halt(w)
    PROVE  WorkerTypeOK' /\ HandsOK'
BY DEF WorkerTypeOK, HandsOK, Halt, LoopSteps, LeavingSteps, HandsFree, Recording

LEMMA SubmitType ==
    ASSUME NEW j \in Jobs, TypeInv, ApiStep(j)
    PROVE  TypeInv'
<1> USE DEF TypeInv, TypeOK, StoreTypeOK, ApiStep, Advance
<1>1. UNCHANGED <<workerVars, watchVars>> /\ SubmitNext(j)
  OBVIOUS
<1>2. WorkerTypeOK' /\ HandsOK' /\ WatchdogTypeOK'
  BY <1>1 DEF WorkerTypeOK, HandsOK, WatchdogTypeOK, workerVars, watchVars
<1>3. CASE Admit(j) \/ Reject(j)
  BY <1>2, <1>3, StutterType
     DEF Admit, Reject, SubmitTypeOK, SubmitSteps, InFlight, storeVars
<1>4. CASE InsertSubmission(j)
  <2>1. DataTypeOK'
    BY <1>4, SubmissionType DEF InsertSubmission, Status
  <2> QED
    BY <1>2, <1>4, <2>1, FaultsType, Kinds
       DEF InsertSubmission, SubmitTypeOK, SubmitSteps, InFlight, NoFault
<1>5. CASE StoreJob(j)
  <2>1. DataTypeOK'
    BY <1>5, HashType DEF StoreJob, Status
  <2> QED
    BY <1>2, <1>5, <2>1 DEF StoreJob, SubmitTypeOK, SubmitSteps, InFlight, NoFault
<1>6. CASE EnqueueJob(j)
  <2>1. DataTypeOK'
    BY <1>6, EnqueueType DEF EnqueueJob
  <2> QED
    BY <1>2, <1>6, <2>1 DEF EnqueueJob, SubmitTypeOK, SubmitSteps, NoFault
<1>7. CASE InsertSubmissionFails(j)
  <2>1. DataTypeOK'
    BY <1>7, SubmissionType, StutterType DEF InsertSubmissionFails, PgFails, Status
  <2> QED
    BY <1>2, <1>7, <2>1, FaultsType, Kinds
       DEF InsertSubmissionFails, PgFails, SubmitTypeOK, SubmitSteps
<1>8. CASE HandlerDies(j)
  BY <1>2, <1>8, StutterType, FaultsType, Kinds
     DEF HandlerDies, SubmitTypeOK, SubmitSteps
<1> QED
  BY <1>1, <1>3, <1>4, <1>5, <1>6, <1>7, <1>8 DEF SubmitNext, SubmitProgress

\* A step of the loop that leaves its hands alone, and what the command does.
LEMMA LoopMoveType ==
    ASSUME NEW w \in Workers, NEW from, NEW to \in LoopSteps, TypeInv,
           UNCHANGED <<submitVars, watchVars>>,
           Go(w, from, to), UNCHANGED <<held, outcome, leaving>>,
           DataTypeOK', faults' \in [FaultKinds -> Nat],
           from \in HandsFree => to \in HandsFree,
           to \in Recording => from \in Recording
    PROVE  TypeInv'
<1>1. WorkerTypeOK' /\ HandsOK'
  BY GoType DEF TypeInv, TypeOK
<1> QED
  BY <1>1 DEF TypeInv, TypeOK, StoreTypeOK, SubmitTypeOK, WatchdogTypeOK,
              submitVars, watchVars

\* What a worker writes as a job's status is one.
LEMMA ResolveType ==
    ASSUME NEW o \in Outcomes
    PROVE  resolveStatus(o) \in Final
BY DEF resolveStatus, Final

LEMMA TakeJobType ==
    ASSUME NEW w \in Workers, TypeInv, TakeJob(w),
           UNCHANGED <<submitVars, watchVars>>
    PROVE  TypeInv'
<1> USE DEF HandsFree, LoopSteps, Unclaimed, Active, BeforeResult, Recording,
            Missing, Failing, Releasing
<1>0. DataTypeOK /\ faults \in [FaultKinds -> Nat] /\ HandsOK /\ WorkerTypeOK
  BY DEF TypeInv, TypeOK, StoreTypeOK
<1>1. ASSUME NEW j \in Jobs, Pop(w, j)
      PROVE  TypeInv'
  <2>1. DataTypeOK'
    BY <1>0, <1>1, DequeueType DEF Pop
  <2>2. WorkerTypeOK' /\ HandsOK'
    BY <1>0, <1>1 DEF Pop, Go, WorkerTypeOK, HandsOK
  <2> QED
    BY <1>1, <2>1, <2>2 DEF Pop, TypeInv, TypeOK, StoreTypeOK, SubmitTypeOK,
       WatchdogTypeOK, submitVars, watchVars, NoFault
<1>2. CASE PollEnds(w)
  BY <1>0, <1>2, StutterType, LoopMoveType DEF PollEnds, storeVars
<1>3. CASE Drop(w)
  <2>1. DataTypeOK' /\ faults' \in [FaultKinds -> Nat]
    BY <1>0, <1>3, StutterType DEF Drop, storeVars
  <2>2. WorkerTypeOK' /\ HandsOK'
    BY <1>0, <1>3 DEF Drop, Go, WorkerTypeOK, HandsOK
  <2> QED
    BY <2>1, <2>2 DEF TypeInv, TypeOK, StoreTypeOK, SubmitTypeOK,
       WatchdogTypeOK, submitVars, watchVars
<1>4. CASE Claim(w)
  <2>1. held[w] \in Jobs /\ WorkerId[w] \in Ids
    BY <1>0, <1>4, WorkerIdAssumption DEF Claim, RedisStep, Go, HandsOK
  <2>2. DataTypeOK'
    BY <1>0, <1>4, <2>1, MarkerType DEF Claim
  <2> QED
    BY <1>0, <1>4, <2>2, LoopMoveType DEF Claim, RedisStep, NoFault
<1>5. CASE Load(w)
  <2>1. DataTypeOK'
    BY <1>0, <1>5, StutterType DEF Load
  <2>2. CASE held[w] \in payload
    BY <1>0, <1>5, <2>1, <2>2, LoopMoveType DEF Load, RedisStep, NoFault
  <2>3. CASE held[w] \notin payload
    BY <1>0, <1>5, <2>1, <2>3, LoopMoveType DEF Load, RedisStep, NoFault
  <2> QED  BY <2>2, <2>3
<1> QED
  BY <1>1, <1>2, <1>3, <1>4, <1>5 DEF TakeJob

LEMMA RunJobType ==
    ASSUME NEW w \in Workers, TypeInv, RunJob(w),
           UNCHANGED <<submitVars, watchVars>>
    PROVE  TypeInv'
<1> USE DEF HandsFree, LoopSteps, Unclaimed, Active, BeforeResult, Recording,
            Missing, Failing, Releasing
<1>0. DataTypeOK /\ faults \in [FaultKinds -> Nat] /\ HandsOK /\ WorkerTypeOK
  BY DEF TypeInv, TypeOK, StoreTypeOK
<1>a. at[w] \notin HandsFree => held[w] \in Jobs
  BY <1>0 DEF HandsOK
<1>b. {"pending", "running", "failed"} \subseteq Status /\ "failed" \in Final
  BY DEF Status, Final
<1>c. at[w] \in Recording =>
        outcome[w] \in Outcomes /\ resolveStatus(outcome[w]) \in Final \cap Status
  BY <1>0, ResolveType DEF HandsOK, Status
<1>1. CASE SetRunning(w)
  <2>1. DataTypeOK'
    BY <1>0, <1>a, <1>b, <1>c, <1>1, HashType DEF SetRunning, RedisStep, Go
  <2> QED
    BY <1>0, <1>1, <2>1, LoopMoveType DEF SetRunning, RedisStep, PgStep, NoFault
<1>2. CASE PgRunning(w)
  <2>1. DataTypeOK'
    BY <1>0, <1>a, <1>b, <1>c, <1>2, SubmissionType DEF PgRunning, PgStep, Go
  <2> QED
    BY <1>0, <1>2, <2>1, LoopMoveType DEF PgRunning, RedisStep, PgStep, NoFault
<1>3. CASE ExecuteThrows(w)
  BY <1>0, <1>3, StutterType, LoopMoveType DEF ExecuteThrows, PgStep, storeVars
<1>4. ASSUME NEW o \in Outcomes, Execute(w, o)
      PROVE  TypeInv'
  <2>1. DataTypeOK' /\ faults' \in [FaultKinds -> Nat]
    BY <1>0, <1>4, StutterType DEF Execute, storeVars
  <2>2. WorkerTypeOK' /\ HandsOK'
    BY <1>0, <1>4 DEF Execute, Go, WorkerTypeOK, HandsOK
  <2> QED
    BY <2>1, <2>2 DEF TypeInv, TypeOK, StoreTypeOK, SubmitTypeOK,
       WatchdogTypeOK, submitVars, watchVars
<1>5. CASE InsertResult(w)
  <2>1. DataTypeOK'
    BY <1>0, <1>a, <1>b, <1>c, <1>5, RowType DEF InsertResult, PgStep, Go
  <2> QED
    BY <1>0, <1>5, <2>1, LoopMoveType DEF InsertResult, RedisStep, PgStep, NoFault
<1>6. CASE InsertDuplicate(w)
  BY <1>0, <1>6, StutterType, LoopMoveType DEF InsertDuplicate, PgStep, storeVars
<1>7. CASE PgFinal(w)
  <2>1. DataTypeOK'
    BY <1>0, <1>a, <1>b, <1>c, <1>7, SubmissionType DEF PgFinal, PgStep, Go
  <2> QED
    BY <1>0, <1>7, <2>1, LoopMoveType DEF PgFinal, RedisStep, PgStep, NoFault
<1>8. CASE SetFinal(w)
  <2>1. DataTypeOK'
    BY <1>0, <1>a, <1>b, <1>c, <1>8, HashType DEF SetFinal, RedisStep, Go
  <2> QED
    BY <1>0, <1>8, <2>1, LoopMoveType DEF SetFinal, RedisStep, PgStep, NoFault
<1>9. CASE CacheResult(w)
  <2>1. DataTypeOK'
    BY <1>0, <1>a, <1>b, <1>c, <1>9, CacheType DEF CacheResult, RedisStep, Go
  <2> QED
    BY <1>0, <1>9, <2>1, LoopMoveType DEF CacheResult, RedisStep, PgStep, NoFault
<1> QED
  BY <1>1, <1>2, <1>3, <1>4, <1>5, <1>6, <1>7, <1>8, <1>9 DEF RunJob

LEMMA EndJobType ==
    ASSUME NEW w \in Workers, TypeInv, EndJob(w),
           UNCHANGED <<submitVars, watchVars>>
    PROVE  TypeInv'
<1> USE DEF HandsFree, LoopSteps, Unclaimed, Active, BeforeResult, Recording,
            Missing, Failing, Releasing
<1>0. DataTypeOK /\ faults \in [FaultKinds -> Nat] /\ HandsOK /\ WorkerTypeOK
  BY DEF TypeInv, TypeOK, StoreTypeOK
<1>a. at[w] \notin HandsFree => held[w] \in Jobs
  BY <1>0 DEF HandsOK
<1>b. {"pending", "running", "failed"} \subseteq Status /\ "failed" \in Final
  BY DEF Status, Final
<1>1. CASE FallbackInsert(w)
  <2>1. DataTypeOK'
    BY <1>0, <1>a, <1>1, RowType, StutterType, OutcomesAssumption
       DEF FallbackInsert, PgStep, Go
  <2> QED
    BY <1>0, <1>1, <2>1, LoopMoveType DEF FallbackInsert, PgStep, NoFault
<1>2. CASE FallbackPg(w)
  <2>1. DataTypeOK'
    BY <1>0, <1>a, <1>b, <1>2, SubmissionType DEF FallbackPg, PgStep, Go
  <2> QED
    BY <1>0, <1>2, <2>1, LoopMoveType DEF FallbackPg, RedisStep, PgStep, NoFault
<1>3. CASE FallbackSet(w)
  <2>1. DataTypeOK'
    BY <1>0, <1>a, <1>b, <1>3, HashType DEF FallbackSet, RedisStep, Go
  <2> QED
    BY <1>0, <1>3, <2>1, LoopMoveType DEF FallbackSet, RedisStep, PgStep, NoFault
<1>4. CASE FallbackCache(w)
  <2>1. DataTypeOK'
    BY <1>0, <1>a, <1>b, <1>4, CacheType DEF FallbackCache, RedisStep, Go
  <2> QED
    BY <1>0, <1>4, <2>1, LoopMoveType DEF FallbackCache, RedisStep, PgStep, NoFault
<1>5. CASE SetFailed(w)
  <2>1. DataTypeOK'
    BY <1>0, <1>a, <1>b, <1>5, HashType DEF SetFailed, RedisStep, Go
  <2> QED
    BY <1>0, <1>5, <2>1, LoopMoveType DEF SetFailed, RedisStep, PgStep, NoFault
<1>6. CASE PgFailed(w)
  <2>1. DataTypeOK'
    BY <1>0, <1>a, <1>b, <1>6, SubmissionType DEF PgFailed, PgStep, Go
  <2> QED
    BY <1>0, <1>6, <2>1, LoopMoveType DEF PgFailed, RedisStep, PgStep, NoFault
<1>7. CASE Release(w)
  <2>1. DataTypeOK'
    BY <1>0, <1>a, <1>7, MarkerType, WorkerIdAssumption DEF Release, Go
  <2>2. WorkerTypeOK' /\ HandsOK'
    BY <1>0, <1>7 DEF Release, Go, WorkerTypeOK, HandsOK
  <2> QED
    BY <1>0, <1>7, <2>1, <2>2 DEF Release, TypeInv, TypeOK, StoreTypeOK,
       SubmitTypeOK, WatchdogTypeOK, submitVars, watchVars, NoFault
<1>8. CASE Unwind(w)
  <2>1. DataTypeOK'
    BY <1>0, <1>a, <1>8, MarkerType, WorkerIdAssumption DEF Unwind
  <2>2. WorkerTypeOK' /\ HandsOK'
    BY <1>0, <1>8, HaltType DEF Unwind
  <2> QED
    BY <1>0, <1>8, <2>1, <2>2 DEF Unwind, TypeInv, TypeOK, StoreTypeOK,
       SubmitTypeOK, WatchdogTypeOK, submitVars, watchVars, NoFault
<1> QED
  BY <1>1, <1>2, <1>3, <1>4, <1>5, <1>6, <1>7, <1>8 DEF EndJob

LEMMA PgFaultType ==
    ASSUME NEW w \in Workers, TypeInv, PgFaultStep(w),
           UNCHANGED <<submitVars, watchVars>>
    PROVE  TypeInv'
<1> USE DEF HandsFree, LoopSteps, Unclaimed, Active, BeforeResult, Recording,
            Missing, Failing, Releasing
<1>0. DataTypeOK /\ faults \in [FaultKinds -> Nat] /\ HandsOK /\ WorkerTypeOK
  BY DEF TypeInv, TypeOK, StoreTypeOK
<1>a. at[w] \notin HandsFree => held[w] \in Jobs
  BY <1>0 DEF HandsOK
<1>b. {"pending", "running", "failed"} \subseteq Status /\ "failed" \in Final
  BY DEF Status, Final
<1>c. at[w] \in Recording =>
        outcome[w] \in Outcomes /\ resolveStatus(outcome[w]) \in Final \cap Status
  BY <1>0, ResolveType DEF HandsOK, Status
<1>d. Fallback \in Outcomes
  BY OutcomesAssumption
<1>1. CASE FallbackInsertFails(w)
  <2>1. DataTypeOK'
    BY <1>0, <1>a, <1>b, <1>c, <1>d, <1>1, PgFailsType DEF FallbackInsertFails, PgStep, Go
  <2>2. faults' \in [FaultKinds -> Nat]
    BY <1>0, <1>1, FaultsType, Kinds DEF FallbackInsertFails, PgFails
  <2> QED
    BY <1>0, <1>1, <2>1, <2>2, LoopMoveType DEF FallbackInsertFails, PgStep
<1>2. CASE FallbackPgFails(w)
  <2>1. DataTypeOK'
    BY <1>0, <1>a, <1>b, <1>c, <1>d, <1>2, PgFailsType DEF FallbackPgFails, PgStep, Go
  <2>2. faults' \in [FaultKinds -> Nat]
    BY <1>0, <1>2, FaultsType, Kinds DEF FallbackPgFails, PgFails
  <2> QED
    BY <1>0, <1>2, <2>1, <2>2, LoopMoveType DEF FallbackPgFails, PgStep
<1>3. CASE PgRunningFails(w)
  <2>1. DataTypeOK'
    BY <1>0, <1>a, <1>b, <1>c, <1>d, <1>3, PgFailsType DEF PgRunningFails, PgStep, Go
  <2>2. faults' \in [FaultKinds -> Nat]
    BY <1>0, <1>3, FaultsType, Kinds DEF PgRunningFails, PgFails
  <2> QED
    BY <1>0, <1>3, <2>1, <2>2, LoopMoveType DEF PgRunningFails, PgStep
<1>4. CASE InsertResultFails(w)
  <2>1. DataTypeOK'
    BY <1>0, <1>a, <1>b, <1>c, <1>d, <1>4, PgFailsType DEF InsertResultFails, PgStep, Go
  <2>2. faults' \in [FaultKinds -> Nat]
    BY <1>0, <1>4, FaultsType, Kinds DEF InsertResultFails, PgFails
  <2> QED
    BY <1>0, <1>4, <2>1, <2>2, LoopMoveType DEF InsertResultFails, PgStep
<1>5. CASE PgFinalFails(w)
  <2>1. DataTypeOK'
    BY <1>0, <1>a, <1>b, <1>c, <1>d, <1>5, PgFailsType DEF PgFinalFails, PgStep, Go
  <2>2. faults' \in [FaultKinds -> Nat]
    BY <1>0, <1>5, FaultsType, Kinds DEF PgFinalFails, PgFails
  <2> QED
    BY <1>0, <1>5, <2>1, <2>2, LoopMoveType DEF PgFinalFails, PgStep
<1>6. CASE PgFailedFails(w)
  <2>1. DataTypeOK'
    BY <1>0, <1>a, <1>b, <1>c, <1>d, <1>6, PgFailsType DEF PgFailedFails, PgStep, Go
  <2>2. faults' \in [FaultKinds -> Nat]
    BY <1>0, <1>6, FaultsType, Kinds DEF PgFailedFails, PgFails
  <2> QED
    BY <1>0, <1>6, <2>1, <2>2, LoopMoveType DEF PgFailedFails, PgStep
<1> QED
  BY <1>1, <1>2, <1>3, <1>4, <1>5, <1>6 DEF PgFaultStep

LEMMA LifeType ==
    ASSUME NEW w \in Workers, TypeInv, UNCHANGED <<submitVars, watchVars>>,
           Beat(w) \/ Sigterm(w) \/ DrainEnds(w) \/ Exit(w) \/ Crash(w) \/ Start(w)
    PROVE  TypeInv'
<1> USE DEF HandsFree, LoopSteps, Unclaimed, Recording, LeavingSteps
<1>0. DataTypeOK /\ faults \in [FaultKinds -> Nat] /\ HandsOK /\ WorkerTypeOK
  BY DEF TypeInv, TypeOK, StoreTypeOK
<1>a. /\ heartbeat \cup {WorkerId[w]} \in SUBSET Ids
      /\ heartbeat \ {WorkerId[w]} \in SUBSET Ids
  BY <1>0, WorkerIdAssumption DEF DataTypeOK
<1>b. SUFFICES /\ DataTypeOK' /\ faults' \in [FaultKinds -> Nat]
               /\ WorkerTypeOK' /\ HandsOK'
  BY DEF TypeInv, TypeOK, StoreTypeOK, SubmitTypeOK, WatchdogTypeOK,
         submitVars, watchVars
<1>1. CASE Beat(w)
  <2>1. DataTypeOK'
    BY <1>0, <1>a, <1>1, HeartbeatType DEF Beat
  <2> QED
    BY <1>0, <1>1, <2>1 DEF Beat, NoFault, workerVars, WorkerTypeOK, HandsOK
<1>2. CASE Sigterm(w)
  <2>1. DataTypeOK' /\ faults' \in [FaultKinds -> Nat]
    BY <1>0, <1>2, StutterType, FaultsType, Kinds DEF Sigterm
  <2> QED
    BY <1>0, <1>2, <2>1 DEF Sigterm, WorkerTypeOK, HandsOK
<1>3. CASE DrainEnds(w)
  <2>1. DataTypeOK'
    BY <1>0, <1>a, <1>3, HeartbeatType DEF DrainEnds
  <2> QED
    BY <1>0, <1>3, <2>1 DEF DrainEnds, NoFault, WorkerTypeOK, HandsOK
<1>4. CASE Exit(w)
  BY <1>0, <1>4, HaltType, StutterType DEF Exit, storeVars
<1>5. CASE Crash(w)
  BY <1>0, <1>5, HaltType, StutterType, FaultsType, Kinds DEF Crash
<1>6. CASE Start(w)
  <2>1. DataTypeOK'
    BY <1>0, <1>a, <1>6, HeartbeatType DEF Start
  <2> QED
    BY <1>0, <1>6, <2>1, GoType DEF Start, NoFault
<1> QED
  BY <1>1, <1>2, <1>3, <1>4, <1>5, <1>6

LEMMA WorkerType ==
    ASSUME NEW w \in Workers, TypeInv, WorkerStep(w)
    PROVE  TypeInv'
BY TakeJobType, RunJobType, EndJobType, PgFaultType, LifeType
   DEF WorkerStep, WorkerNext, LoopStep

\* The task steps that change nothing in the stores.
LEMMA TaskType ==
    ASSUME NEW p \in Passes, NEW j \in Jobs, NEW from, NEW to \in TaskSteps,
           WatchdogTypeOK, Step(p, j, from, to) \/ Finish(p, j, from) \/ Forget
    PROVE  WatchdogTypeOK'
<1> USE DEF WatchdogTypeOK
<1>1. CASE Step(p, j, from, to)
  BY <1>1 DEF Step
<1>2. CASE Finish(p, j, from)
  BY <1>2 DEF Finish, TaskSteps
<1>3. CASE Forget
  BY <1>3 DEF Forget, Idle, NoOwner, NoCount, TaskSteps
<1> QED
  BY <1>1, <1>2, <1>3

LEMMA WatchdogType ==
    ASSUME TypeInv, WatchdogStep
    PROVE  TypeInv'
<1> USE DEF TaskSteps, BeforeStrip, InHand, AfterDlq
<1>0. /\ DataTypeOK /\ faults \in [FaultKinds -> Nat] /\ WatchdogTypeOK
      /\ WatchdogNext /\ UNCHANGED <<submitVars, workerVars>>
  BY DEF TypeInv, TypeOK, StoreTypeOK, WatchdogStep
<1>a. SUFFICES /\ DataTypeOK' /\ faults' \in [FaultKinds -> Nat]
               /\ WatchdogTypeOK'
  BY <1>0 DEF TypeInv, TypeOK, StoreTypeOK, SubmitTypeOK, WorkerTypeOK, HandsOK,
              submitVars, workerVars
<1>b. {"pending", "failed"} \subseteq Status
  BY DEF Status, Final
<1>c. \A p \in Passes, j \in Jobs : count[p][j] \in Nat
  BY <1>0 DEF WatchdogTypeOK
<1>1. ASSUME NEW p \in Passes, Scan(p)
      PROVE  DataTypeOK' /\ faults' \in [FaultKinds -> Nat] /\ WatchdogTypeOK'
  BY <1>0, <1>1, StutterType DEF Scan, WatchdogTypeOK, storeVars, DataTypeOK
<1>2. ASSUME NEW p \in Passes, NEW j \in Jobs,
             \/ OwnerAlive(p, j) \/ OwnerSilent(p, j) \/ CheckResult(p, j)
      PROVE  DataTypeOK' /\ faults' \in [FaultKinds -> Nat] /\ WatchdogTypeOK'
  <2>1. DataTypeOK' /\ faults' \in [FaultKinds -> Nat]
    BY <1>0, <1>2, StutterType DEF OwnerAlive, OwnerSilent, CheckResult, storeVars
  <2> QED
    BY <1>0, <1>2, <2>1, TaskType DEF OwnerAlive, OwnerSilent, CheckResult
<1>3. ASSUME NEW p \in Passes, NEW j \in Jobs, ClearFinished(p, j) \/ Strip(p, j)
      PROVE  DataTypeOK' /\ faults' \in [FaultKinds -> Nat] /\ WatchdogTypeOK'
  <2>1. DataTypeOK'
    BY <1>0, <1>3 DEF ClearFinished, Strip, ClearMarker, DataTypeOK, hashVars, pgVars
  <2> QED
    BY <1>0, <1>3, <2>1, TaskType DEF ClearFinished, Strip, NoFault
<1>4. ASSUME NEW p \in Passes, NEW j \in Jobs, ReadRetries(p, j)
      PROVE  DataTypeOK' /\ faults' \in [FaultKinds -> Nat] /\ WatchdogTypeOK'
  <2>1. retryCount[j] + 1 \in Nat
    BY <1>0 DEF DataTypeOK
  <2> QED
    BY <1>0, <1>4, <2>1, StutterType DEF ReadRetries, WatchdogTypeOK, storeVars
<1>5. ASSUME NEW p \in Passes, NEW j \in Jobs, MoveToDlq(p, j) \/ ResetPending(p, j)
      PROVE  DataTypeOK' /\ faults' \in [FaultKinds -> Nat] /\ WatchdogTypeOK'
  <2>1. DataTypeOK'
    BY <1>0, <1>b, <1>c, <1>5, HashType DEF MoveToDlq, ResetPending
  <2> QED
    BY <1>0, <1>5, <2>1, TaskType DEF MoveToDlq, ResetPending, NoFault
<1>6. ASSUME NEW p \in Passes, NEW j \in Jobs,
             DlqInsert(p, j) \/ DlqStatus(p, j) \/ PgPending(p, j)
      PROVE  DataTypeOK' /\ faults' \in [FaultKinds -> Nat] /\ WatchdogTypeOK'
  <2>1. DataTypeOK'
    BY <1>0, <1>b, <1>6, RowType, SubmissionType, StutterType, OutcomesAssumption
       DEF DlqInsert, DlqStatus, PgPending
  <2> QED
    BY <1>0, <1>6, <2>1, TaskType DEF DlqInsert, DlqStatus, PgPending, NoFault
<1>7. ASSUME NEW p \in Passes, NEW j \in Jobs, Requeue(p, j)
      PROVE  DataTypeOK' /\ faults' \in [FaultKinds -> Nat] /\ WatchdogTypeOK'
  <2>1. DataTypeOK'
    BY <1>0, <1>7, EnqueueType DEF Requeue
  <2> QED
    BY <1>0, <1>7, <2>1, TaskType DEF Requeue, NoFault
<1>8. ASSUME NEW p \in Passes, NEW j \in Jobs, DlqInsertFails(p, j) \/ TaskFails(p, j)
      PROVE  DataTypeOK' /\ faults' \in [FaultKinds -> Nat] /\ WatchdogTypeOK'
  <2>1. DataTypeOK'
    BY <1>0, <1>b, <1>8, PgFailsType, OutcomesAssumption DEF DlqInsertFails, TaskFails
  <2>2. faults' \in [FaultKinds -> Nat]
    BY <1>0, <1>8, FaultsType, Kinds DEF DlqInsertFails, TaskFails, PgFails
  <2> QED
    BY <1>0, <1>8, <2>1, <2>2, TaskType DEF DlqInsertFails, TaskFails
<1>9. CASE WatchdogDies
  <2>1. WatchdogTypeOK'
    BY <1>9 DEF WatchdogDies, Forget, Idle, NoOwner, NoCount, WatchdogTypeOK
  <2> QED
    BY <1>0, <1>9, <2>1, StutterType, FaultsType, Kinds DEF WatchdogDies
<1> QED
  BY <1>0, <1>1, <1>2, <1>3, <1>4, <1>5, <1>6, <1>7, <1>8, <1>9
     DEF WatchdogNext, TaskNext

LEMMA TimeType ==
    ASSUME TypeInv, TimeStep \/ LapseStep
    PROVE  TypeInv'
<1>0. DataTypeOK /\ faults \in [FaultKinds -> Nat]
  BY DEF TypeInv, TypeOK, StoreTypeOK
<1>a. UNCHANGED <<submitVars, workerVars, watchVars>>
  BY DEF TimeStep, LapseStep, Lapse
<1>b. SUFFICES DataTypeOK' /\ faults' \in [FaultKinds -> Nat]
  BY <1>a DEF TypeInv, TypeOK, StoreTypeOK, SubmitTypeOK, WorkerTypeOK, HandsOK,
              WatchdogTypeOK, submitVars, workerVars, watchVars
<1>1. ASSUME NEW j \in Jobs, MarkerAges(j)
      PROVE  DataTypeOK' /\ faults' \in [FaultKinds -> Nat]
  BY <1>0, <1>1, ClockType DEF MarkerAges, NoFault
<1>2. CASE RedisRestarts
  BY <1>0, <1>2, RestartType, FaultsType, Kinds DEF RedisRestarts
<1>3. ASSUME NEW i \in Ids, Lapse(i)
      PROVE  DataTypeOK' /\ faults' \in [FaultKinds -> Nat]
  <2>1. heartbeat \ {i} \in SUBSET Ids
    BY <1>0 DEF DataTypeOK
  <2> QED
    BY <1>0, <1>3, <2>1, HeartbeatType DEF Lapse, NoFault
<1> QED
  BY <1>1, <1>2, <1>3 DEF TimeStep, LapseStep

\* A command that is executed once more is a command.
LEMMA LoopCommandType ==
    ASSUME NEW w \in Workers, TypeInv, LoopCommand(w)
    PROVE  DataTypeOK'
<1>0. /\ DataTypeOK /\ {"running", "failed"} \subseteq Status /\ "failed" \in Final
      /\ Final \subseteq Status /\ 0 \in Nat
      /\ WorkerId[w] \in Ids
      /\ at[w] \notin HandsFree => held[w] \in Jobs
      /\ at[w] \in Recording => outcome[w] \in Outcomes
  BY WorkerIdAssumption DEF TypeInv, TypeOK, StoreTypeOK, HandsOK, Status, Final
<1>1. ASSUME NEW j \in Jobs, Dequeue(j)
      PROVE  DataTypeOK'
  BY <1>0, <1>1, DequeueType
<1>2. CASE at[w] = "marked" /\ SetMarker(held[w], WorkerId[w])
  BY <1>0, <1>2, MarkerType DEF HandsFree
<1>3. CASE \/ at[w] = "loaded" /\ SetStatus(held[w], "running")
           \/ at[w] \in {"setMissing", "setFailed"} /\ SetStatus(held[w], "failed")
  BY <1>0, <1>3, HashType DEF HandsFree
<1>4. CASE at[w] = "setFinal" /\ SetStatus(held[w], resolveStatus(outcome[w]))
  <2>1. resolveStatus(outcome[w]) \in Status /\ held[w] \in Jobs
    BY <1>0, <1>4, ResolveType DEF HandsFree, Recording
  <2> QED
    BY <1>0, <1>4, <2>1, HashType
<1>5. CASE at[w] = "cacheMissing" /\ SetResult(held[w], "failed")
  BY <1>0, <1>5, CacheType DEF HandsFree
<1>6. CASE at[w] = "cacheResult" /\ SetResult(held[w], resolveStatus(outcome[w]))
  BY <1>0, <1>6, ResolveType, CacheType DEF HandsFree, Recording
<1>7. CASE at[w] \in Releasing /\ ClearMarker(held[w])
  <2>1. held[w] \in Jobs
    BY <1>0, <1>7 DEF HandsFree, Releasing
  <2> QED
    BY <1>0, <1>7, <2>1, MarkerType
<1>8. CASE SetHeartbeats(heartbeat \ {WorkerId[w]})
  <2>1. heartbeat \ {WorkerId[w]} \in SUBSET Ids
    BY <1>0 DEF DataTypeOK
  <2> QED
    BY <1>0, <1>8, <2>1, HeartbeatType
<1> QED
  BY <1>1, <1>2, <1>3, <1>4, <1>5, <1>6, <1>7, <1>8 DEF LoopCommand

LEMMA LinkType ==
    ASSUME TypeInv, LinkStep
    PROVE  TypeInv'
<1>0. /\ DataTypeOK /\ faults \in [FaultKinds -> Nat] /\ WatchdogTypeOK
      /\ {"pending", "failed"} \subseteq Status
      /\ \A p \in Passes, j \in Jobs : count[p][j] \in Nat
  BY DEF TypeInv, TypeOK, StoreTypeOK, WatchdogTypeOK, Status, Final
<1>a. UNCHANGED <<submitVars, workerVars>> /\ Spend("link")
  BY DEF LinkStep, AnswerLost, DeadLetterFails
<1>b. faults' \in [FaultKinds -> Nat]
  BY <1>0, <1>a, FaultsType, Kinds
<1>c. SUFFICES DataTypeOK' /\ WatchdogTypeOK'
  BY <1>a, <1>b DEF TypeInv, TypeOK, StoreTypeOK, SubmitTypeOK, WorkerTypeOK, HandsOK,
                    submitVars, workerVars
<1>1. CASE AnswerLost
  <2>1. WatchdogTypeOK'
    BY <1>0, <1>1 DEF AnswerLost, watchVars, WatchdogTypeOK
  <2>2. ASSUME NEW j \in Jobs, SubmitCommand(j)
        PROVE  DataTypeOK'
    BY <1>0, <2>2, HashType, EnqueueType DEF SubmitCommand
  <2>3. ASSUME NEW w \in Workers, LoopCommand(w)
        PROVE  DataTypeOK'
    BY <2>3, LoopCommandType
  <2>4. ASSUME NEW p \in Passes, NEW j \in Jobs, TaskCommand(p, j)
        PROVE  DataTypeOK'
    <3>1. CASE ClearMarker(j)
      BY <1>0, <3>1 DEF ClearMarker, DataTypeOK, hashVars, pgVars
    <3>2. CASE DeadLetter(j, count[p][j]) \/ SetPending(j, count[p][j])
      BY <1>0, <3>2, HashType
    <3>3. CASE Enqueue(j)
      BY <1>0, <3>3, EnqueueType
    <3> QED
      BY <2>4, <3>1, <3>2, <3>3 DEF TaskCommand
  <2> QED
    BY <1>1, <2>1, <2>2, <2>3, <2>4 DEF AnswerLost
<1>2. ASSUME NEW p \in Passes, NEW j \in Jobs, DeadLetterFails(p, j)
      PROVE  DataTypeOK' /\ WatchdogTypeOK'
  <2>1. DataTypeOK'
    BY <1>0, <1>2, HashType, StutterType DEF DeadLetterFails
  <2>2. WatchdogTypeOK'
    BY <1>0, <1>2, TaskType DEF DeadLetterFails, TaskSteps
  <2> QED
    BY <2>1, <2>2
<1> QED
  BY <1>1, <1>2 DEF LinkStep

LEMMA StepType ==
    ASSUME TypeInv, [Next]_vars
    PROVE  TypeInv'
<1>1. CASE Next
  BY <1>1, SubmitType, WorkerType, WatchdogType, TimeType, LinkType DEF Next
<1>2. CASE UNCHANGED vars
  <2>1. DataTypeOK'
    BY <1>2, StutterType DEF vars, storeVars, TypeInv, TypeOK, StoreTypeOK
  <2> QED
    BY <1>2, <2>1 DEF vars, storeVars, submitVars, workerVars, watchVars,
       TypeInv, TypeOK, StoreTypeOK, SubmitTypeOK, WorkerTypeOK, HandsOK,
       WatchdogTypeOK
<1> QED
  BY <1>1, <1>2

\* Every variable keeps its type, whatever fails: no command is ever sent for
\* a job that is not there, and only statuses are written as statuses.
THEOREM TypeCorrect == Spec => []TypeOK
<1>1. Init => TypeInv
  BY InitType
<1>2. TypeInv /\ [Next]_vars => TypeInv'
  BY StepType
<1>3. TypeInv => TypeOK
  BY DEF TypeInv
<1> QED
  BY <1>1, <1>2, <1>3, PTL DEF Spec

-----------------------------------------------------------------------------
(***************************************************************************)
(* DoneBacked for every value of the constants: through any interleaving   *)
(* of submits, workers, restarts, stale heartbeats, overlapping passes and *)
(* store failures, a job is said to be done, or timed out, only when       *)
(* execution_results has the row that says the same.                       *)
(*                                                                         *)
(* The argument.  DoneBacked alone is not inductive: a worker that is      *)
(* about to write "done" must know that the row is there.  RecordOK says   *)
(* so: between its INSERT and the last of its three writes the row of its  *)
(* job is the very outcome it holds, because its own INSERT succeeded and  *)
(* no later one can replace the row.  Every step is then Honest: it keeps  *)
(* the rows that exist and writes a final success only from a row.         *)
(***************************************************************************)

Recorded == {"pgFinal", "setFinal", "cacheResult"}

RecordOK ==
    \A w \in Workers : at[w] \in Recorded => row[held[w]] = outcome[w]

ResultInv == TypeInv /\ DoneBacked /\ RecordOK

Plain == {"pending", "running", "failed"}

Told(j, old, new) ==
    \/ new \in {old, None} \cup Plain
    \/ row[j] # None /\ new = resolveStatus(row[j])

Honest ==
    \A j \in Jobs :
        /\ row[j] # None => row'[j] = row[j]
        /\ Told(j, jobStatus[j], jobStatus'[j])
        /\ Told(j, submission[j], submission'[j])
        /\ Told(j, cache[j], cache'[j])

LEMMA NoneIsPlain == None \notin {"done", "timeout"} /\ Plain \cap {"done", "timeout"} = {}
BY NoneAssumption DEF Status, Final, Plain

-----------------------------------------------------------------------------
(* Honest commands.                                                        *)

LEMMA HonestSilent ==
    ASSUME TypeInv,
           UNCHANGED <<jobStatus, submission, cache, row>>
    PROVE  Honest
BY DEF Honest, Told

LEMMA HonestRestart ==
    ASSUME TypeInv, RedisRestarts
    PROVE  Honest
BY DEF Honest, Told, RedisRestarts, pgVars

LEMMA HonestHash ==
    ASSUME TypeInv, NEW j \in Jobs, NEW s \in Plain, NEW n \in Nat,
           SetJob(j) \/ SetStatus(j, s) \/ SetPending(j, n) \/ DeadLetter(j, n)
    PROVE  Honest
<1> USE DEF Honest, Told, Plain, TypeInv, TypeOK, StoreTypeOK, DataTypeOK, pgVars
<1>1. CASE SetJob(j)
  BY <1>1 DEF SetJob
<1>2. CASE SetStatus(j, s)
  BY <1>2 DEF SetStatus
<1>3. CASE SetPending(j, n)
  BY <1>3 DEF SetPending
<1>4. CASE DeadLetter(j, n)
  BY <1>4 DEF DeadLetter
<1> QED  BY <1>1, <1>2, <1>3, <1>4

LEMMA HonestCache ==
    ASSUME TypeInv, NEW j \in Jobs, SetResult(j, "failed")
    PROVE  Honest
BY DEF Honest, Told, Plain, TypeInv, TypeOK, StoreTypeOK, DataTypeOK, SetResult,
       hashVars, pgVars

LEMMA HonestSubmission ==
    ASSUME TypeInv, NEW j \in Jobs, NEW s \in Plain,
           CreateSubmission(j) \/ UpdateSubmission(j, s)
    PROVE  Honest
BY DEF Honest, Told, Plain, TypeInv, TypeOK, StoreTypeOK, DataTypeOK,
       CreateSubmission, UpdateSubmission, redisVars

LEMMA HonestRow ==
    ASSUME TypeInv, NEW j \in Jobs, NEW o \in Outcomes, InsertRow(j, o)
    PROVE  Honest
BY DEF Honest, Told, TypeInv, TypeOK, StoreTypeOK, DataTypeOK, InsertRow,
       Insertable, redisVars

LEMMA HonestResult ==
    ASSUME TypeInv, NEW j \in Jobs, row[j] # None, NEW s, s = resolveStatus(row[j]),
           SetStatus(j, s) \/ UpdateSubmission(j, s) \/ SetResult(j, s)
    PROVE  Honest
<1> USE DEF Honest, Told, TypeInv, TypeOK, StoreTypeOK, DataTypeOK
<1>1. CASE SetStatus(j, s)
  BY <1>1 DEF SetStatus, pgVars
<1>2. CASE UpdateSubmission(j, s)
  BY <1>2 DEF UpdateSubmission, redisVars
<1>3. CASE SetResult(j, s)
  BY <1>3 DEF SetResult, hashVars, pgVars
<1> QED  BY <1>1, <1>2, <1>3

LEMMA HonestPgFails ==
    ASSUME TypeInv, NEW j \in Jobs, NEW s \in Plain, NEW o \in Outcomes,
           \/ PgFails(CreateSubmission(j))
           \/ PgFails(UpdateSubmission(j, s))
           \/ PgFails(InsertRow(j, o))
    PROVE  Honest
BY HonestSubmission, HonestRow, HonestSilent
   DEF PgFails, dataVars, redisVars, pgVars

\* What Honest is for.
LEMMA HonestKeeps ==
    ASSUME DoneBacked, Honest
    PROVE  DoneBacked'
<1> SUFFICES ASSUME NEW j \in Jobs,
                    NEW s \in {jobStatus'[j], submission'[j], cache'[j]}
                                \cap {"done", "timeout"}
             PROVE  row'[j] # None /\ resolveStatus(row'[j]) = s
  BY DEF DoneBacked, resolveStatus
<1>1. row[j] # None /\ resolveStatus(row[j]) = s
  BY NoneIsPlain DEF Honest, Told, DoneBacked
<1> QED
  BY <1>1 DEF Honest

-----------------------------------------------------------------------------
(* RecordOK.                                                               *)

\* What a recording worker knows.
LEMMA RowKnown ==
    ASSUME ResultInv, NEW w \in Workers, at[w] \in Recorded
    PROVE  /\ held[w] \in Jobs /\ outcome[w] \in Outcomes
           /\ row[held[w]] = outcome[w] /\ row[held[w]] # None
BY NoneAssumption
   DEF ResultInv, RecordOK, TypeInv, HandsOK, HandsFree, Recorded, Recording

\* Workers that stay where they are, with what they hold, keep their rows.
LEMMA RecordKept ==
    ASSUME ResultInv, Honest,
           \A w \in Workers : at'[w] \in Recorded =>
               \/ at[w] \in Recorded /\ held'[w] = held[w] /\ outcome'[w] = outcome[w]
               \/ row'[held'[w]] = outcome'[w]
    PROVE  RecordOK'
BY RowKnown DEF RecordOK, Honest

LEMMA RecordGo ==
    ASSUME ResultInv, Honest, NEW w \in Workers, NEW from, NEW to,
           Go(w, from, to), UNCHANGED <<held, outcome>>,
           to \in Recorded => from \in Recorded
    PROVE  RecordOK'
BY RecordKept DEF Go, ResultInv, TypeInv, TypeOK, WorkerTypeOK

LEMMA RecordHalt ==
    ASSUME ResultInv, Honest, NEW w \in Workers, Halt(w)
    PROVE  RecordOK'
BY RecordKept DEF Halt, ResultInv, TypeInv, TypeOK, WorkerTypeOK, Recorded

-----------------------------------------------------------------------------
(* The steps of a worker.                                                  *)

LEMMA TakeJobHonest ==
    ASSUME ResultInv, NEW w \in Workers, TakeJob(w)
    PROVE  Honest /\ RecordOK'
<1> USE DEF Recorded
<1>0. TypeInv
  BY DEF ResultInv
<1>1. ASSUME NEW j \in Jobs, Pop(w, j)
      PROVE  Honest /\ RecordOK'
  <2>1. Honest
    BY <1>0, <1>1, HonestSilent DEF Pop, Dequeue, hashVars, pgVars
  <2> QED
    BY <1>0, <1>1, <2>1, RecordKept
       DEF Pop, Go, TypeInv, TypeOK, WorkerTypeOK
<1>2. CASE PollEnds(w)
  BY <1>0, <1>2, HonestSilent, RecordGo
     DEF PollEnds, storeVars, dataVars, redisVars, pgVars
<1>3. CASE Drop(w)
  <2>1. Honest
    BY <1>0, <1>3, HonestSilent DEF Drop, storeVars, dataVars, redisVars, pgVars
  <2> QED
    BY <1>0, <1>3, <2>1, RecordKept
       DEF Drop, Go, TypeInv, TypeOK, WorkerTypeOK
<1>4. CASE Claim(w)
  BY <1>0, <1>4, HonestSilent, RecordGo
     DEF Claim, RedisStep, SetMarker, hashVars, pgVars
<1>5. CASE Load(w)
  BY <1>0, <1>5, HonestSilent, RecordGo
     DEF Load, RedisStep, dataVars, redisVars, pgVars
<1> QED
  BY <1>1, <1>2, <1>3, <1>4, <1>5 DEF TakeJob

LEMMA RunJobHonest ==
    ASSUME ResultInv, NEW w \in Workers, RunJob(w)
    PROVE  Honest /\ RecordOK'
<1> USE DEF Recorded
<1>0. TypeInv /\ WorkerTypeOK /\ HandsOK
  BY DEF ResultInv, TypeInv, TypeOK
<1>a. at[w] \notin HandsFree => held[w] \in Jobs
  BY <1>0 DEF HandsOK
<1>1. CASE SetRunning(w)
  <2>1. Honest
    BY <1>0, <1>a, <1>1, HonestHash DEF SetRunning, RedisStep, Go, HandsFree, Plain
  <2> QED
    BY <1>1, <2>1, RecordGo DEF SetRunning, RedisStep
<1>2. CASE PgRunning(w)
  <2>1. Honest
    BY <1>0, <1>a, <1>2, HonestSubmission DEF PgRunning, PgStep, Go, HandsFree, Plain
  <2> QED
    BY <1>2, <2>1, RecordGo DEF PgRunning, PgStep
<1>3. CASE ExecuteThrows(w)
  BY <1>0, <1>3, HonestSilent, RecordGo
     DEF ExecuteThrows, PgStep, storeVars, dataVars, redisVars, pgVars
<1>4. ASSUME NEW o \in Outcomes, Execute(w, o)
      PROVE  Honest /\ RecordOK'
  <2>1. Honest
    BY <1>0, <1>4, HonestSilent DEF Execute, storeVars, dataVars, redisVars, pgVars
  <2> QED
    BY <1>0, <1>4, <2>1, RecordKept DEF Execute, Go, WorkerTypeOK
<1>5. CASE InsertResult(w)
  <2>1. held[w] \in Jobs /\ outcome[w] \in Outcomes
    BY <1>0, <1>a, <1>5 DEF InsertResult, PgStep, Go, HandsFree, HandsOK, Recording
  <2>2. Honest
    BY <1>0, <1>5, <2>1, HonestRow DEF InsertResult
  <2>3. row'[held[w]] = outcome[w]
    BY <1>0, <1>5, <2>1 DEF InsertResult, InsertRow, TypeInv, TypeOK, StoreTypeOK,
       DataTypeOK
  <2> QED
    BY <1>0, <1>5, <2>2, <2>3, RecordKept DEF InsertResult, PgStep, Go, WorkerTypeOK
<1>6. CASE InsertDuplicate(w)
  BY <1>0, <1>6, HonestSilent, RecordGo
     DEF InsertDuplicate, PgStep, storeVars, dataVars, redisVars, pgVars
<1>7. CASE PgFinal(w)
  <2>1. Honest
    BY <1>0, <1>7, RowKnown, HonestResult DEF PgFinal, PgStep, Go
  <2> QED
    BY <1>7, <2>1, RecordGo DEF PgFinal, PgStep
<1>8. CASE SetFinal(w)
  <2>1. Honest
    BY <1>0, <1>8, RowKnown, HonestResult DEF SetFinal, RedisStep, Go
  <2> QED
    BY <1>8, <2>1, RecordGo DEF SetFinal, RedisStep
<1>9. CASE CacheResult(w)
  <2>1. Honest
    BY <1>0, <1>9, RowKnown, HonestResult DEF CacheResult, RedisStep, Go
  <2> QED
    BY <1>9, <2>1, RecordGo DEF CacheResult, RedisStep
<1> QED
  BY <1>1, <1>2, <1>3, <1>4, <1>5, <1>6, <1>7, <1>8, <1>9 DEF RunJob

LEMMA EndJobHonest ==
    ASSUME ResultInv, NEW w \in Workers, EndJob(w)
    PROVE  Honest /\ RecordOK'
<1> USE DEF Recorded
<1>0. TypeInv /\ WorkerTypeOK /\ HandsOK
  BY DEF ResultInv, TypeInv, TypeOK
<1>a. at[w] \notin HandsFree => held[w] \in Jobs
  BY <1>0 DEF HandsOK
<1>1. CASE FallbackInsert(w)
  <2>1. Honest
    BY <1>0, <1>a, <1>1, HonestRow, HonestSilent, OutcomesAssumption
       DEF FallbackInsert, PgStep, Go, HandsFree, dataVars, redisVars, pgVars
  <2> QED
    BY <1>1, <2>1, RecordGo DEF FallbackInsert, PgStep
<1>2. CASE FallbackPg(w)
  <2>1. Honest
    BY <1>0, <1>a, <1>2, HonestSubmission DEF FallbackPg, PgStep, Go, HandsFree, Plain
  <2> QED
    BY <1>2, <2>1, RecordGo DEF FallbackPg, PgStep
<1>3. CASE FallbackSet(w)
  <2>1. Honest
    BY <1>0, <1>a, <1>3, HonestHash DEF FallbackSet, RedisStep, Go, HandsFree, Plain
  <2> QED
    BY <1>3, <2>1, RecordGo DEF FallbackSet, RedisStep
<1>4. CASE FallbackCache(w)
  <2>1. Honest
    BY <1>0, <1>a, <1>4, HonestCache DEF FallbackCache, RedisStep, Go, HandsFree
  <2> QED
    BY <1>4, <2>1, RecordGo DEF FallbackCache, RedisStep
<1>5. CASE SetFailed(w)
  <2>1. Honest
    BY <1>0, <1>a, <1>5, HonestHash DEF SetFailed, RedisStep, Go, HandsFree, Plain
  <2> QED
    BY <1>5, <2>1, RecordGo DEF SetFailed, RedisStep
<1>6. CASE PgFailed(w)
  <2>1. Honest
    BY <1>0, <1>a, <1>6, HonestSubmission DEF PgFailed, PgStep, Go, HandsFree, Plain
  <2> QED
    BY <1>6, <2>1, RecordGo DEF PgFailed, PgStep
<1>7. CASE Release(w)
  <2>1. Honest
    BY <1>0, <1>7, HonestSilent DEF Release, ClearMarker, hashVars, pgVars
  <2> QED
    BY <1>0, <1>7, <2>1, RecordKept DEF Release, Go, WorkerTypeOK
<1>8. CASE Unwind(w)
  <2>1. Honest
    BY <1>0, <1>8, HonestSilent DEF Unwind, ClearMarker, hashVars, pgVars
  <2> QED
    BY <1>8, <2>1, RecordHalt DEF Unwind
<1> QED
  BY <1>1, <1>2, <1>3, <1>4, <1>5, <1>6, <1>7, <1>8 DEF EndJob

LEMMA PgFaultHonest ==
    ASSUME ResultInv, NEW w \in Workers, PgFaultStep(w)
    PROVE  Honest /\ RecordOK'
<1> USE DEF Recorded
<1>0. TypeInv /\ WorkerTypeOK /\ HandsOK
  BY DEF ResultInv, TypeInv, TypeOK
<1>a. /\ at[w] \notin HandsFree => held[w] \in Jobs
      /\ at[w] \in Recording => outcome[w] \in Outcomes
      /\ Fallback \in Outcomes /\ {"running", "failed"} \subseteq Plain
  BY <1>0, OutcomesAssumption DEF HandsOK, Plain
<1>1. CASE FallbackInsertFails(w)
  <2>1. Honest
    BY <1>0, <1>a, <1>1, HonestPgFails DEF FallbackInsertFails, PgStep, Go, HandsFree, Recording
  <2> QED
    BY <1>1, <2>1, RecordGo DEF FallbackInsertFails, PgStep
<1>2. CASE FallbackPgFails(w)
  <2>1. Honest
    BY <1>0, <1>a, <1>2, HonestPgFails DEF FallbackPgFails, PgStep, Go, HandsFree, Recording
  <2> QED
    BY <1>2, <2>1, RecordGo DEF FallbackPgFails, PgStep
<1>3. CASE PgRunningFails(w)
  <2>1. Honest
    BY <1>0, <1>a, <1>3, HonestPgFails DEF PgRunningFails, PgStep, Go, HandsFree, Recording
  <2> QED
    BY <1>3, <2>1, RecordGo DEF PgRunningFails, PgStep
<1>4. CASE InsertResultFails(w)
  <2>1. Honest
    BY <1>0, <1>a, <1>4, HonestPgFails DEF InsertResultFails, PgStep, Go, HandsFree, Recording
  <2> QED
    BY <1>4, <2>1, RecordGo DEF InsertResultFails, PgStep
<1>5. CASE PgFailedFails(w)
  <2>1. Honest
    BY <1>0, <1>a, <1>5, HonestPgFails DEF PgFailedFails, PgStep, Go, HandsFree, Recording
  <2> QED
    BY <1>5, <2>1, RecordGo DEF PgFailedFails, PgStep
<1>6. CASE PgFinalFails(w)
  <2>1. Honest
    BY <1>0, <1>6, RowKnown, HonestResult, HonestSilent
       DEF PgFinalFails, PgStep, Go, PgFails, dataVars, redisVars, pgVars
  <2> QED
    BY <1>6, <2>1, RecordGo DEF PgFinalFails, PgStep
<1> QED
  BY <1>1, <1>2, <1>3, <1>4, <1>5, <1>6 DEF PgFaultStep

LEMMA LifeHonest ==
    ASSUME ResultInv, NEW w \in Workers,
           Beat(w) \/ Sigterm(w) \/ DrainEnds(w) \/ Exit(w) \/ Crash(w) \/ Start(w)
    PROVE  Honest /\ RecordOK'
<1>0. TypeInv
  BY DEF ResultInv
<1>1. Honest
  BY <1>0, HonestSilent
     DEF Beat, Sigterm, DrainEnds, Exit, Crash, Start, SetHeartbeats, hashVars,
         storeVars, dataVars, redisVars, pgVars
<1>2. CASE Exit(w) \/ Crash(w)
  BY <1>1, <1>2, RecordHalt DEF Exit, Crash
<1>3. CASE Start(w)
  BY <1>1, <1>3, RecordGo DEF Start, Recorded
<1>4. CASE Beat(w) \/ Sigterm(w) \/ DrainEnds(w)
  BY <1>1, <1>4, RecordKept DEF Beat, Sigterm, DrainEnds, workerVars
<1> QED
  BY <1>1, <1>2, <1>3, <1>4

-----------------------------------------------------------------------------
(* The steps of the others, and the theorem.                               *)

\* Nobody but a worker changes what a worker is at.
LEMMA OthersRecord ==
    ASSUME ResultInv, Honest, UNCHANGED workerVars
    PROVE  RecordOK'
BY RecordKept DEF workerVars

LEMMA SubmitHonest ==
    ASSUME ResultInv, NEW j \in Jobs, SubmitNext(j)
    PROVE  Honest
<1>0. TypeInv /\ 0 \in Nat /\ "pending" \in Plain
  BY DEF ResultInv, Plain
<1>1. CASE Admit(j) \/ Reject(j) \/ EnqueueJob(j) \/ HandlerDies(j)
  BY <1>0, <1>1, HonestSilent
     DEF Admit, Reject, EnqueueJob, HandlerDies, Enqueue, hashVars, storeVars,
         dataVars, redisVars, pgVars
<1>2. CASE InsertSubmission(j) \/ InsertSubmissionFails(j)
  BY <1>0, <1>2, HonestSubmission, HonestSilent
     DEF InsertSubmission, InsertSubmissionFails, PgFails, dataVars, redisVars, pgVars
<1>3. CASE StoreJob(j)
  BY <1>0, <1>3, HonestHash DEF StoreJob
<1> QED
  BY <1>1, <1>2, <1>3 DEF SubmitNext, SubmitProgress

LEMMA WatchdogHonest ==
    ASSUME ResultInv, WatchdogNext
    PROVE  Honest
<1>0. /\ TypeInv /\ {"pending", "failed"} \subseteq Plain /\ Fallback \in Outcomes
      /\ \A p \in Passes, j \in Jobs : count[p][j] \in Nat
  BY OutcomesAssumption DEF ResultInv, Plain, TypeInv, TypeOK, WatchdogTypeOK
<1>1. ASSUME NEW p \in Passes, Scan(p)
      PROVE  Honest
  BY <1>0, <1>1, HonestSilent DEF Scan, storeVars, dataVars, redisVars, pgVars
<1>2. ASSUME NEW p \in Passes, NEW j \in Jobs,
             \/ OwnerAlive(p, j) \/ OwnerSilent(p, j) \/ CheckResult(p, j)
             \/ ClearFinished(p, j) \/ ReadRetries(p, j) \/ Strip(p, j)
             \/ Requeue(p, j)
      PROVE  Honest
  BY <1>0, <1>2, HonestSilent
     DEF OwnerAlive, OwnerSilent, CheckResult, ClearFinished, ReadRetries, Strip,
         Requeue, ClearMarker, Enqueue, hashVars, storeVars, dataVars, redisVars,
         pgVars
<1>3. ASSUME NEW p \in Passes, NEW j \in Jobs, MoveToDlq(p, j) \/ ResetPending(p, j)
      PROVE  Honest
  BY <1>0, <1>3, HonestHash DEF MoveToDlq, ResetPending
<1>4. ASSUME NEW p \in Passes, NEW j \in Jobs,
             DlqInsert(p, j) \/ DlqStatus(p, j) \/ PgPending(p, j)
      PROVE  Honest
  BY <1>0, <1>4, HonestRow, HonestSubmission, HonestSilent
     DEF DlqInsert, DlqStatus, PgPending, dataVars, redisVars, pgVars
<1>5. ASSUME NEW p \in Passes, NEW j \in Jobs, DlqInsertFails(p, j) \/ TaskFails(p, j)
      PROVE  Honest
  BY <1>0, <1>5, HonestPgFails DEF DlqInsertFails, TaskFails
<1>6. CASE WatchdogDies
  BY <1>0, <1>6, HonestSilent DEF WatchdogDies, dataVars, redisVars, pgVars
<1> QED
  BY <1>1, <1>2, <1>3, <1>4, <1>5, <1>6 DEF WatchdogNext, TaskNext

LEMMA LoopCommandHonest ==
    ASSUME ResultInv, NEW w \in Workers, LoopCommand(w)
    PROVE  Honest
<1>0. /\ TypeInv /\ {"running", "failed"} \subseteq Plain /\ 0 \in Nat
      /\ at[w] \notin HandsFree => held[w] \in Jobs
  BY DEF ResultInv, TypeInv, HandsOK, Plain
<1>1. CASE \/ \E j \in Jobs : Dequeue(j)
           \/ SetMarker(held[w], WorkerId[w]) \/ ClearMarker(held[w])
           \/ SetHeartbeats(heartbeat \ {WorkerId[w]})
  BY <1>0, <1>1, HonestSilent DEF Dequeue, SetMarker, ClearMarker, SetHeartbeats,
     hashVars, pgVars
<1>2. CASE \/ at[w] = "loaded" /\ SetStatus(held[w], "running")
           \/ at[w] \in {"setMissing", "setFailed"} /\ SetStatus(held[w], "failed")
  BY <1>0, <1>2, HonestHash DEF HandsFree
<1>3. CASE at[w] = "cacheMissing" /\ SetResult(held[w], "failed")
  BY <1>0, <1>3, HonestCache DEF HandsFree
<1>4. CASE \/ at[w] = "setFinal" /\ SetStatus(held[w], resolveStatus(outcome[w]))
           \/ at[w] = "cacheResult" /\ SetResult(held[w], resolveStatus(outcome[w]))
  <2>1. /\ held[w] \in Jobs /\ row[held[w]] # None
        /\ resolveStatus(outcome[w]) = resolveStatus(row[held[w]])
    BY <1>4, RowKnown DEF Recorded
  <2> QED
    BY <1>0, <1>4, <2>1, HonestResult
<1> QED
  BY <1>1, <1>2, <1>3, <1>4 DEF LoopCommand

LEMMA LinkHonest ==
    ASSUME ResultInv, LinkStep
    PROVE  Honest
<1>0. /\ TypeInv /\ {"pending", "failed"} \subseteq Plain /\ 0 \in Nat
      /\ \A p \in Passes, j \in Jobs : count[p][j] \in Nat
  BY DEF ResultInv, Plain, TypeInv, TypeOK, WatchdogTypeOK
<1>1. ASSUME NEW j \in Jobs, Enqueue(j) \/ ClearMarker(j)
      PROVE  Honest
  BY <1>0, <1>1, HonestSilent DEF Enqueue, ClearMarker, hashVars, pgVars
<1>2. ASSUME NEW j \in Jobs, SubmitCommand(j)
      PROVE  Honest
  BY <1>0, <1>1, <1>2, HonestHash DEF SubmitCommand
<1>3. ASSUME NEW p \in Passes, NEW j \in Jobs, TaskCommand(p, j)
      PROVE  Honest
  BY <1>0, <1>1, <1>3, HonestHash DEF TaskCommand
<1>4. ASSUME NEW p \in Passes, NEW j \in Jobs, DeadLetterFails(p, j)
      PROVE  Honest
  BY <1>0, <1>4, HonestHash, HonestSilent
     DEF DeadLetterFails, dataVars, redisVars, pgVars
<1> QED
  BY <1>2, <1>3, <1>4, LoopCommandHonest DEF LinkStep, AnswerLost

LEMMA StepHonest ==
    ASSUME ResultInv, Next
    PROVE  Honest /\ RecordOK'
<1>0. TypeInv
  BY DEF ResultInv
<1>1. ASSUME NEW j \in Jobs, ApiStep(j)
      PROVE  Honest /\ RecordOK'
  BY <1>1, SubmitHonest, OthersRecord DEF ApiStep
<1>2. ASSUME NEW w \in Workers, WorkerStep(w)
      PROVE  Honest /\ RecordOK'
  BY <1>2, TakeJobHonest, RunJobHonest, EndJobHonest, PgFaultHonest, LifeHonest
     DEF WorkerStep, WorkerNext, LoopStep
<1>3. CASE WatchdogStep
  BY <1>3, WatchdogHonest, OthersRecord DEF WatchdogStep
<1>4. CASE TimeStep
  BY <1>0, <1>4, HonestSilent, HonestRestart, OthersRecord
     DEF TimeStep, MarkerAges, hashVars, pgVars
<1>5. CASE LapseStep
  BY <1>0, <1>5, HonestSilent, OthersRecord
     DEF LapseStep, Lapse, SetHeartbeats, hashVars, pgVars
<1>6. CASE LinkStep
  BY <1>6, LinkHonest, OthersRecord DEF LinkStep, AnswerLost
<1> QED
  BY <1>1, <1>2, <1>3, <1>4, <1>5, <1>6 DEF Next

LEMMA ResultStep ==
    ASSUME ResultInv, [Next]_vars
    PROVE  ResultInv'
<1>1. TypeInv'
  BY StepType DEF ResultInv
<1>2. CASE Next
  BY <1>1, <1>2, StepHonest, HonestKeeps DEF ResultInv
<1>3. CASE UNCHANGED vars
  BY <1>1, <1>3 DEF ResultInv, DoneBacked, RecordOK, resolveStatus, vars, storeVars,
     dataVars, redisVars, pgVars, workerVars
<1> QED
  BY <1>2, <1>3

\* A job is said to be done or timed out, in Redis, PostgreSQL or the result
\* cache, only while execution_results has the row that says the same.
THEOREM DoneIsBacked == Spec => []DoneBacked
<1>1. Init => ResultInv
  <2> SUFFICES ASSUME Init PROVE ResultInv
    OBVIOUS
  <2>1. DoneBacked
    BY NoneIsPlain DEF Init, EmptyRedis, EmptyPg, DoneBacked
  <2>2. RecordOK
    BY DEF Init, WorkerInit, RecordOK, Recorded
  <2> QED
    BY <2>1, <2>2, InitType DEF ResultInv
<1>2. ResultInv /\ [Next]_vars => ResultInv'
  BY ResultStep
<1>3. ResultInv => DoneBacked
  BY DEF ResultInv
<1> QED
  BY <1>1, <1>2, <1>3, PTL DEF Spec

=============================================================================

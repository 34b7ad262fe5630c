------------------------------ MODULE Watchdog -----------------------------
(***************************************************************************)
(* The watchdog process (worker/watchdog.js).  A pass reads all of         *)
(* exec:processing once and then handles its entries concurrently, each    *)
(* with awaits of its own.  setInterval starts a pass whether or not the   *)
(* last one has ended, so passes overlap; Passes bounds how many.          *)
(*                                                                         *)
(* Every marker is the JSON a worker wrote, so the branch for an invalid   *)
(* record is unreachable and is not modelled.                              *)
(***************************************************************************)
EXTENDS Store

CONSTANT Passes

VARIABLES
    task,    \* task[p][j]: the await at which pass p stands with job j
    owner,   \* owner[p][j]: workerId in the record pass p read for j
    count    \* count[p][j]: the retryCount pass p computed for j

watchVars == <<task, owner, count>>

BeforeStrip == {"exists", "clear", "retries", "strip"}
\* The marker is gone and the job is not back in a list yet.
InHand == {"decide", "pgPending", "requeue"}
AfterDlq == {"pgInsert", "pgFailed"}
TaskSteps == {"idle", "ttl"} \cup BeforeStrip \cup InHand \cup AfterDlq

WatchdogTypeOK ==
    /\ task \in [Passes -> [Jobs -> TaskSteps]]
    /\ owner \in [Passes -> [Jobs -> Ids \cup {None}]]
    /\ count \in [Passes -> [Jobs -> Nat]]

Idle == [j \in Jobs |-> "idle"]
NoOwner == [j \in Jobs |-> None]
NoCount == [j \in Jobs |-> 0]

WatchdogInit ==
    /\ task = [p \in Passes |-> Idle]
    /\ owner = [p \in Passes |-> NoOwner]
    /\ count = [p \in Passes |-> NoCount]

\* The task goes on to its next await.
Step(p, j, from, to) ==
    /\ task[p][j] = from
    /\ task' = [task EXCEPT ![p][j] = to]
    /\ UNCHANGED <<owner, count>>

\* The task returns, and what it remembered is gone.
Finish(p, j, from) ==
    /\ task[p][j] = from
    /\ task' = [task EXCEPT ![p][j] = "idle"]
    /\ owner' = [owner EXCEPT ![p][j] = None]
    /\ count' = [count EXCEPT ![p][j] = 0]

\* The process is gone, with every task of every pass.
Forget ==
    /\ task' = [p \in Passes |-> Idle]
    /\ owner' = [p \in Passes |-> NoOwner]
    /\ count' = [p \in Passes |-> NoCount]

\* (Faulty variant: the age test is the wrong way round.)
Orphanable_Inverted(j) == marker[j] # None /\ j \notin aged

\* HGETALL exec:processing.  The task of an entry younger than the threshold
\* asks for a TTL and returns; it is left out here.
Orphanable(j) == marker[j] # None /\ j \in aged

Scan(p) ==
    /\ task[p] = Idle
    /\ \E j \in Jobs : Orphanable(j)
    /\ task' = [task EXCEPT ![p] =
                  [j \in Jobs |-> IF Orphanable(j) THEN "ttl" ELSE "idle"]]
    /\ owner' = [owner EXCEPT ![p] =
                  [j \in Jobs |-> IF Orphanable(j) THEN marker[j] ELSE None]]
    /\ UNCHANGED <<count, storeVars>>

\* TTL of the owner's heartbeat: it is alive ...
OwnerAlive(p, j) ==
    /\ owner[p][j] \in heartbeat
    /\ Finish(p, j, "ttl")
    /\ UNCHANGED storeVars

\* (Faulty variant: age alone makes an orphan.)
OwnerSilent_Unasked(p, j) ==
    /\ Step(p, j, "ttl", "exists")
    /\ UNCHANGED storeVars

\* ... or has none.
OwnerSilent(p, j) ==
    /\ owner[p][j] \notin heartbeat
    /\ Step(p, j, "ttl", "exists")
    /\ UNCHANGED storeVars

\* (Faulty variant: no look at the cached result.)
CheckResult_Skipped(p, j) ==
    /\ Step(p, j, "exists", "retries")
    /\ UNCHANGED storeVars

\* EXISTS exec:result:{id}
CheckResult(p, j) ==
    /\ Step(p, j, "exists", IF cache[j] # None THEN "clear" ELSE "retries")
    /\ UNCHANGED storeVars

\* (Faulty variant: the marker of a finished job stays.)
ClearFinished_NoDelete(p, j) ==
    /\ Finish(p, j, "clear")
    /\ UNCHANGED storeVars

ClearFinished(p, j) ==
    /\ Finish(p, j, "clear")
    /\ ClearMarker(j)
    /\ NoFault

ReadRetries(p, j) ==
    /\ task[p][j] = "retries"
    /\ task' = [task EXCEPT ![p][j] = "strip"]
    /\ count' = [count EXCEPT ![p][j] = retryCount[j] + 1]
    /\ UNCHANGED <<owner, storeVars>>

\* (Faulty variant: the marker stays.)
Strip_NoDelete(p, j) ==
    /\ Step(p, j, "strip", "decide")
    /\ UNCHANGED storeVars

\* HDEL exec:processing.  Its answer, whether there was a marker to delete,
\* is not looked at.
Strip(p, j) ==
    /\ Step(p, j, "strip", "decide")
    /\ ClearMarker(j)
    /\ NoFault

\* (Faulty variant: one retry too many.)
Exhausted_OffByOne(p, j) == count[p][j] > MAX_RETRIES + 1

Exhausted(p, j) == count[p][j] > MAX_RETRIES

\* (Faulty variant: no return after the dead letter queue.)
MoveToDlq_GoesOn(p, j) ==
    /\ Exhausted(p, j)
    /\ Step(p, j, "decide", "pgPending")
    /\ DeadLetter(j, count[p][j])
    /\ NoFault

MoveToDlq(p, j) ==
    /\ Exhausted(p, j)
    /\ Step(p, j, "decide", "pgInsert")
    /\ DeadLetter(j, count[p][j])
    /\ NoFault

\* insertResult(...).catch(() => null)
DlqInsert(p, j) ==
    /\ Step(p, j, "pgInsert", "pgFailed")
    /\ IF Insertable(j) THEN InsertRow(j, Fallback) ELSE UNCHANGED dataVars
    /\ NoFault

DlqInsertFails(p, j) ==
    /\ Step(p, j, "pgInsert", "pgFailed")
    /\ PgFails(InsertRow(j, Fallback))

DlqStatus(p, j) ==
    /\ Finish(p, j, "pgFailed")
    /\ UpdateSubmission(j, "failed")
    /\ NoFault

ResetPending(p, j) ==
    /\ ~Exhausted(p, j)
    /\ Step(p, j, "decide", "pgPending")
    /\ SetPending(j, count[p][j])
    /\ NoFault

\* (Faulty variant: only Redis is told that the job is pending again.)
PgPending_RedisOnly(p, j) ==
    /\ Step(p, j, "pgPending", "requeue")
    /\ UNCHANGED storeVars

PgPending(p, j) ==
    /\ Step(p, j, "pgPending", "requeue")
    /\ UpdateSubmission(j, "pending")
    /\ NoFault

Requeue(p, j) ==
    /\ Finish(p, j, "requeue")
    /\ Enqueue(j)
    /\ NoFault

\* A rejected update ends the task.  A pass started by the timer logs it and
\* its other tasks go on; the pass that main() awaits ends the process.
TaskFails(p, j) ==
    /\ \/ /\ task[p][j] = "pgFailed"
          /\ PgFails(UpdateSubmission(j, "failed"))
       \/ /\ task[p][j] = "pgPending"
          /\ PgFails(UpdateSubmission(j, "pending"))
    /\ Finish(p, j, task[p][j]) \/ Forget

\* The watchdog dies and is started again, with no pass under way.
WatchdogDies ==
    /\ Spend("dog")
    /\ \E p \in Passes : task[p] # Idle
    /\ Forget
    /\ UNCHANGED dataVars

\* exec() of the MULTI rejects, whether Redis executed it or not, and so ends
\* the task, or the process, like a rejected update.
DeadLetterFails(p, j) ==
    /\ task[p][j] = "decide"
    /\ Exhausted(p, j)
    /\ Spend("link")
    /\ DeadLetter(j, count[p][j]) \/ UNCHANGED dataVars
    /\ Finish(p, j, "decide") \/ Forget

\* The Redis command that changes data, while the task awaits it.
TaskCommand(p, j) ==
    \/ task[p][j] \in {"clear", "strip"} /\ ClearMarker(j)
    \/ task[p][j] = "decide" /\ Exhausted(p, j) /\ DeadLetter(j, count[p][j])
    \/ task[p][j] = "decide" /\ ~Exhausted(p, j) /\ SetPending(j, count[p][j])
    \/ task[p][j] = "requeue" /\ Enqueue(j)

TaskNext(p, j) ==
    \/ OwnerAlive(p, j) \/ OwnerSilent(p, j)
    \/ CheckResult(p, j) \/ ClearFinished(p, j)
    \/ ReadRetries(p, j) \/ Strip(p, j)
    \/ MoveToDlq(p, j) \/ DlqInsert(p, j) \/ DlqStatus(p, j)
    \/ ResetPending(p, j) \/ PgPending(p, j) \/ Requeue(p, j)

WatchdogNext ==
    \/ \E p \in Passes : Scan(p)
    \/ \E p \in Passes, j \in Jobs :
         TaskNext(p, j) \/ DlqInsertFails(p, j) \/ TaskFails(p, j)
    \/ WatchdogDies

=============================================================================

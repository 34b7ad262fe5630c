------------------------------- MODULE Submit ------------------------------
(***************************************************************************)
(* POST /submit (api/routes/submit.js), past validation and the rate       *)
(* limiter: the backpressure check, then the row, the hash and the queue   *)
(* entry of a fresh job, in that order.  Requests run concurrently in the  *)
(* API process; each has an id of its own, so a request is named by the    *)
(* job it creates.                                                         *)
(***************************************************************************)
EXTENDS Store

VARIABLE request   \* how far the handler that creates each job has come

submitVars == <<request>>

InFlight == {"admitted", "inserted", "stored"}
SubmitSteps == {"new", "rejected", "error", "queued"} \cup InFlight

SubmitTypeOK == request \in [Jobs -> SubmitSteps]

SubmitInit == request = [j \in Jobs |-> "new"]

Advance(j, from, to) ==
    /\ request[j] = from
    /\ request' = [request EXCEPT ![j] = to]

\* LLEN exec:queue is below the limit.  It is read here and used three awaits
\* later: other handlers may have pushed in between.
Admit(j) ==
    /\ Advance(j, "new", "admitted")
    /\ Len(queue) < MAX_QUEUE_DEPTH
    /\ UNCHANGED storeVars

\* 503, Retry-After: 30.
Reject(j) ==
    /\ Advance(j, "new", "rejected")
    /\ Len(queue) >= MAX_QUEUE_DEPTH
    /\ UNCHANGED storeVars

InsertSubmission(j) ==
    /\ Advance(j, "admitted", "inserted")
    /\ CreateSubmission(j)
    /\ NoFault

StoreJob(j) ==
    /\ Advance(j, "inserted", "stored")
    /\ SetJob(j)
    /\ NoFault

EnqueueJob(j) ==
    /\ Advance(j, "stored", "queued")
    /\ Enqueue(j)
    /\ NoFault

\* (Faulty variant: the error is logged and the handler goes on.)
InsertSubmissionFails_GoesOn(j) ==
    /\ Advance(j, "admitted", "inserted")
    /\ PgFails(CreateSubmission(j))

\* The INSERT is reported as failed and the handler answers 500.
InsertSubmissionFails(j) ==
    /\ Advance(j, "admitted", "error")
    /\ PgFails(CreateSubmission(j))

\* The API process dies before the job is queued; nobody resumes the request.
HandlerDies(j) ==
    /\ request[j] \in InFlight
    /\ Spend("api")
    /\ request' = [request EXCEPT ![j] = "error"]
    /\ UNCHANGED dataVars

\* The Redis command that changes data, while the handler awaits it.
SubmitCommand(j) ==
    \/ request[j] = "inserted" /\ SetJob(j)
    \/ request[j] = "stored" /\ Enqueue(j)

SubmitProgress(j) ==
    Admit(j) \/ Reject(j) \/ InsertSubmission(j) \/ StoreJob(j) \/ EnqueueJob(j)

SubmitNext(j) ==
    SubmitProgress(j) \/ InsertSubmissionFails(j) \/ HandlerDies(j)

=============================================================================

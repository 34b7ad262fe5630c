----------------------------- MODULE LiveOutput ----------------------------
(***************************************************************************)
(* How the result of a job travels to a client that holds a WebSocket:     *)
(* what is announced of the job, in the order in which the worker or the   *)
(* watchdog writes it, and the connection handler of api/websocket.js,     *)
(* which subscribes to the job's channel and then looks for a cached       *)
(* result.  Pub/Sub messages come on a connection of their own, so they    *)
(* race the answer to that look; a message published before the            *)
(* subscription is gone.  One connection per job, as the page opens.  A    *)
(* worker may die between any two of its writes: then the job goes no      *)
(* further, or the watchdog takes it up.                                   *)
(* Output chunks are forwarded on the same path and change no variable.    *)
(***************************************************************************)
EXTENDS Integers, FiniteSets

CONSTANTS
    Jobs,
    Rough,        \* bound: the jobs that are retried or given up, whose payload is
                  \* lost or that fail in processJob
    MaxFaults     \* bound: messages, subscriptions, replies and workers that fail

ASSUME RoughAssumption == Rough \subseteq Jobs
ASSUME FaultsAssumption == MaxFaults \in Nat

VARIABLES
    stage,     \* how far the processing of each job is
    final,     \* jobs whose hash has a final status: what GET /status says
    row,       \* jobs with a result row: what GET /result answers from
    cached,    \* jobs with a cached result
    conn,      \* where the handler of the job's connection stands
    inbox,     \* jobs whose done message is on its way to the handler
    closed,    \* connections whose handler has begun to close
    wire,      \* done messages on their way from the handler to the client
    told,      \* history: how many done messages the handler has sent,
    unsaid,    \*   and the connections that missed one through a fault
    faults

jobVars == <<stage, final, row, cached>>
connVars == <<conn, inbox, closed, wire, told, unsaid>>
liveVars == <<jobVars, connVars, faults>>

\* pending: queued, or with a worker that has only said running, by which no client
\* goes; recorded, decided, replayable: the row, the status, the cache is written;
\* lost, mute: the same without a payload; caught: an error; abandoned: given up.
Stages == {"new", "pending", "recorded", "decided", "replayable",
           "lost", "mute", "caught", "abandoned", "over"}
\* subscribe, hgetall: awaits of the handler; found: HGETALL found a result that
\* is on its way; live: nothing left to do but to forward.
ConnSteps == {"none", "opening", "subscribe", "hgetall", "found", "live"}

LiveTypeOK ==
    /\ stage \in [Jobs -> Stages]
    /\ final \in SUBSET Jobs /\ row \in SUBSET Jobs /\ cached \in SUBSET Jobs
    /\ conn \in [Jobs -> ConnSteps]
    /\ inbox \in SUBSET Jobs
    /\ closed \in SUBSET Jobs
    /\ wire \in [Jobs -> Nat]
    /\ told \in [Jobs -> Nat]
    /\ unsaid \in SUBSET Jobs
    /\ faults \in 0..MaxFaults

LiveInit ==
    /\ stage = [j \in Jobs |-> "new"]
    /\ final = {} /\ row = {} /\ cached = {}
    /\ conn = [j \in Jobs |-> "none"]
    /\ inbox = {} /\ wire = [j \in Jobs |-> 0]
    /\ closed = {} /\ unsaid = {}
    /\ told = [j \in Jobs |-> 0]
    /\ faults = MaxFaults

Fault == faults > 0 /\ faults' = faults - 1

-----------------------------------------------------------------------------
(* What the worker and the watchdog announce of a job.                     *)

Move(j, from, to) ==
    /\ stage[j] = from
    /\ stage' = [stage EXCEPT ![j] = to]

Quietly == UNCHANGED <<connVars, faults>>

\* The payload is missing and the fallback row is written, unless there is one.
InsertFallback(j) ==
    /\ j \in Rough
    /\ Move(j, "pending", "lost")
    /\ row' = row \cup {j}
    /\ UNCHANGED <<final, cached>> /\ Quietly

\* A second row of a job is refused, and the catch takes over.
InsertRow(j) ==
    /\ j \notin row
    /\ Move(j, "pending", "recorded")
    /\ row' = row \cup {j}
    /\ UNCHANGED <<final, cached>> /\ Quietly

SetFinal(j) ==
    /\ Move(j, "recorded", "decided") \/ (stage[j] = "lost" /\ UNCHANGED stage)
    /\ j \notin final
    /\ final' = final \cup {j}
    /\ UNCHANGED <<row, cached>> /\ Quietly

\* HSET exec:result; for a lost payload it is the last thing that is said.
Cache(j) ==
    /\ j \in final
    /\ Move(j, "decided", "replayable") \/ Move(j, "lost", "mute")
    /\ cached' = cached \cup {j}
    /\ UNCHANGED <<final, row>> /\ Quietly

\* The message reaches the subscription there is, or nobody.
PublishDone(j) ==
    /\ Move(j, "replayable", "over")
    /\ inbox' = IF conn[j] \in {"hgetall", "found", "live"}
                   THEN inbox \cup ({j} \ closed) ELSE inbox
    /\ UNCHANGED <<final, row, cached, conn, closed, wire, told, unsaid, faults>>

\* The catch of processJob: a failed status is all that is said.  The marker goes
\* after it.
Catch(j) ==
    /\ j \in Rough
    /\ \/ (Move(j, "pending", "caught") \/ Move(j, "recorded", "caught"))
            /\ final' = final \cup {j}
       \/ Move(j, "caught", "over") /\ UNCHANGED final
    /\ UNCHANGED <<row, cached>> /\ Quietly

\* The worker has died before the result was cached.
Orphaned(j) ==
    j \in Rough /\ stage[j] \in {"pending", "recorded", "decided", "lost", "caught"}

\* The watchdog sets the status back to pending and queues the job again.
Retry(j) ==
    /\ Orphaned(j)
    /\ Fault
    /\ Move(j, stage[j], "pending")
    /\ final' = final \ {j}
    /\ UNCHANGED <<row, cached, connVars>>

\* No retry is left: the watchdog says failed, then writes the row, unless there
\* is one, and neither caches nor publishes anything.
GiveUp(j) ==
    /\ Orphaned(j)
    /\ Fault
    /\ Move(j, stage[j], "abandoned")
    /\ final' = final \cup {j}
    /\ UNCHANGED <<row, cached, connVars>>

GiveUpRow(j) ==
    /\ Move(j, "abandoned", "over")
    /\ row' = row \cup {j}
    /\ UNCHANGED <<final, cached>> /\ Quietly

Announce(j) ==
    \/ InsertFallback(j) \/ InsertRow(j) \/ SetFinal(j) \/ Cache(j)
    \/ PublishDone(j) \/ Catch(j) \/ Retry(j) \/ GiveUp(j) \/ GiveUpRow(j)

-----------------------------------------------------------------------------
(* The connection handler.                                                 *)

At(j, from, to) ==
    /\ conn[j] = from
    /\ conn' = [conn EXCEPT ![j] = to]

\* Key and id are in order: duplicate the connection and SUBSCRIBE.
Accept(j) ==
    /\ At(j, "opening", "subscribe")
    /\ UNCHANGED <<jobVars, inbox, closed, wire, told, unsaid, faults>>

\* (Faulty variant: the handler only subscribes.)
Subscribed_NoLook(j) ==
    /\ At(j, "subscribe", "live")
    /\ UNCHANGED <<jobVars, inbox, closed, wire, told, unsaid, faults>>

Subscribed(j) ==
    /\ At(j, "subscribe", "hgetall")
    /\ UNCHANGED <<jobVars, inbox, closed, wire, told, unsaid, faults>>

ReadCache(j) ==
    /\ At(j, "hgetall", IF j \in cached THEN "found" ELSE "live")
    /\ UNCHANGED <<jobVars, inbox, closed, wire, told, unsaid, faults>>

\* closeConnection: the flag is set at once, the subscription ends and the
\* socket closes behind what was sent.  What the handler still awaits has no
\* effect any more.
CloseConnection(j) ==
    /\ closed' = closed \cup {j}
    /\ inbox' = inbox \ {j}
    /\ conn' = [conn EXCEPT ![j] = "live"]

\* (Faulty variant: the flag is left alone.)
SendDone_StaysOpen(j) ==
    /\ wire' = [wire EXCEPT ![j] = @ + 1]
    /\ told' = [told EXCEPT ![j] = @ + 1]
    /\ inbox' = inbox \ {j}
    /\ conn' = [conn EXCEPT ![j] = "live"]
    /\ UNCHANGED closed

SendDone(j) ==
    /\ wire' = [wire EXCEPT ![j] = @ + 1]
    /\ told' = [told EXCEPT ![j] = @ + 1]
    /\ CloseConnection(j)

\* sendReplay
Replay(j) ==
    /\ conn[j] = "found"
    /\ SendDone(j)
    /\ UNCHANGED <<jobVars, unsaid, faults>>

\* The message handler.
Forward(j) ==
    /\ j \in inbox \ closed
    /\ SendDone(j)
    /\ UNCHANGED <<jobVars, unsaid, faults>>

\* SUBSCRIBE or HGETALL fails: the handler closes the socket.
HandlerFails(j) ==
    /\ conn[j] \in {"subscribe", "hgetall"}
    /\ Fault
    /\ CloseConnection(j)
    /\ unsaid' = unsaid \cup {j}
    /\ UNCHANGED <<jobVars, wire, told>>

\* The subscriber's connection to Redis breaks: what was published meanwhile is
\* gone, and the subscription that ioredis renews does not read the cache again.
MessageLost(j) ==
    /\ j \in inbox \ closed
    /\ Fault
    /\ inbox' = inbox \ {j}
    /\ unsaid' = unsaid \cup {j}
    /\ UNCHANGED <<jobVars, conn, closed, wire, told>>

=============================================================================

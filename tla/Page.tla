-------------------------------- MODULE Page -------------------------------
(***************************************************************************)
(* The page of public/index.html against the API: executeCode, the socket  *)
(* it opens and the polling it falls back on, over LiveOutput.  The page   *)
(* keeps one outputSocket and one pollInterval, for whichever run set them *)
(* last, while callbacks of earlier runs may still be under way: a poll    *)
(* callback awaits two replies after its interval fired.  Ctrl+Enter calls *)
(* executeCode whether or not a run is under way.                          *)
(***************************************************************************)
EXTENDS LiveOutput

CONSTANTS
    None,
    Patient    \* nobody presses Ctrl+Enter while a POST /submit is under way

\* Jobs are numbered in the order in which the page runs them.
ASSUME PatientAssumption == Patient \in BOOLEAN
ASSUME JobsAssumption == Jobs = 1..Cardinality(Jobs)
ASSUME NoneAssumption == None \notin Jobs

VARIABLES
    submit,        \* the POST /submit of each job
    run,           \* the job of the last executeCode
    running,       \* the page waits for a result: btnSubmit is disabled
    shown,         \* the job whose result is on display, or None
    socket,        \* readyState of the WebSocket of each job
    outputSocket,  \* the job whose WebSocket the variable holds
    pollInterval,  \* the job whose interval the variable holds
    ticking,       \* the jobs whose interval has not been cleared
    poll,          \* the poll callback of each job
    gaveUp,        \* history of run: its callback got no result for a final status,
    robbed         \*   and the callback of another job cleared its interval

pageVars == <<submit, run, running, shown, socket, outputSocket, pollInterval,
              ticking, poll, gaveUp, robbed>>
vars == <<liveVars, pageVars>>

TypeOK ==
    /\ LiveTypeOK
    /\ submit \in [Jobs -> {"unused", "sent", "answered", "failed"}]
    /\ {run, shown, outputSocket, pollInterval} \subseteq Jobs \cup {None}
    /\ {running, gaveUp, robbed} \subseteq BOOLEAN
    /\ socket \in [Jobs -> {"none", "connecting", "open", "closed"}]
    /\ ticking \in SUBSET Jobs
    /\ poll \in [Jobs -> {"idle", "asked", "final", "wanted", "got"}]

Init ==
    /\ LiveInit
    /\ submit = [j \in Jobs |-> "unused"]
    /\ run = None /\ shown = None /\ outputSocket = None /\ pollInterval = None
    /\ running = FALSE /\ gaveUp = FALSE /\ robbed = FALSE
    /\ socket = [j \in Jobs |-> "none"]
    /\ ticking = {}
    /\ poll = [j \in Jobs |-> "idle"]

-----------------------------------------------------------------------------
(* executeCode                                                             *)

\* (Faulty variant: the socket of the run before is left open.)
CloseOldSocket_Forgotten == UNCHANGED socket

CloseOldSocket ==
    socket' = [j \in Jobs |-> IF j = outputSocket THEN "closed" ELSE socket[j]]

ExecuteCode(j) ==
    /\ submit[j] = "unused"
    /\ \A i \in 1..j - 1 : submit[i] # "unused"
    /\ Patient => \A i \in Jobs : submit[i] # "sent"
    /\ submit' = [submit EXCEPT ![j] = "sent"]
    /\ run' = j /\ running' = TRUE /\ shown' = None
    /\ CloseOldSocket
    /\ ticking' = ticking \ {pollInterval}
    /\ gaveUp' = FALSE /\ robbed' = FALSE
    /\ UNCHANGED <<liveVars, outputSocket, pollInterval, poll>>

\* clearInterval(pollInterval) in a callback of job j, whosever that is by now.
ClearPolling(j) ==
    /\ ticking' = ticking \ {pollInterval}
    /\ robbed' = (robbed \/ (run # j /\ run = pollInterval /\ run \in ticking))

\* finalizeExecution: a socket that is still connecting is not closed.
Finalize(j) ==
    /\ running' = FALSE
    /\ ClearPolling(j)
    /\ socket' = [i \in Jobs |-> IF i = outputSocket /\ socket[i] = "open"
                                   THEN "closed" ELSE socket[i]]

\* The job is accepted and the page learns its id: connectWebSocket and
\* startPolling overwrite what the variables held.
\* (Faulty variant: without startPolling.)
Submitted_NoPolling(j) ==
    /\ submit[j] = "sent"
    /\ submit' = [submit EXCEPT ![j] = "answered"]
    /\ Move(j, "new", "pending")
    /\ conn' = [conn EXCEPT ![j] = "opening"]
    /\ outputSocket' = j
    /\ socket' = [socket EXCEPT ![j] = "connecting"]
    /\ UNCHANGED <<final, row, cached, inbox, closed, wire, told, unsaid, faults,
                   run, running, shown, poll, gaveUp, robbed, pollInterval, ticking>>

Submitted(j) ==
    /\ submit[j] = "sent"
    /\ submit' = [submit EXCEPT ![j] = "answered"]
    /\ Move(j, "new", "pending")
    /\ conn' = [conn EXCEPT ![j] = "opening"]
    /\ outputSocket' = j
    /\ socket' = [socket EXCEPT ![j] = "connecting"]
    /\ pollInterval' = j
    /\ ticking' = ticking \cup {j}
    /\ UNCHANGED <<final, row, cached, inbox, closed, wire, told, unsaid, faults,
                   run, running, shown, poll, gaveUp, robbed>>

\* 401, 429, 503 or an error of the network: finalizeExecution(null, message).
SubmitFails(j) ==
    /\ submit[j] = "sent"
    /\ Fault
    /\ submit' = [submit EXCEPT ![j] = "failed"]
    /\ Finalize(j)
    /\ UNCHANGED <<jobVars, connVars, run, shown, outputSocket, pollInterval, poll,
                   gaveUp>>

-----------------------------------------------------------------------------
(* The socket.                                                             *)

Opened(j) ==
    /\ Accept(j)
    /\ socket' = [socket EXCEPT ![j] = IF @ = "connecting" THEN "open" ELSE @]
    /\ UNCHANGED <<submit, run, running, shown, outputSocket, pollInterval, ticking,
                   poll, gaveUp, robbed>>

\* onerror does nothing: polling is to give the result.
SocketFails(j) ==
    /\ socket[j] \in {"connecting", "open"}
    /\ Fault
    /\ socket' = [socket EXCEPT ![j] = "closed"]
    /\ UNCHANGED <<jobVars, connVars, submit, run, running, shown, outputSocket,
                   pollInterval, ticking, poll, gaveUp, robbed>>

\* The handler's socket.once("close").
ClientGone(j) ==
    /\ socket[j] = "closed" /\ j \notin closed
    /\ conn[j] \notin {"none", "opening"}
    /\ CloseConnection(j)
    /\ UNCHANGED <<jobVars, wire, told, unsaid, faults, pageVars>>

\* onmessage, which a socket that the page has closed does not call any more.
OnMessage(j) ==
    /\ wire[j] > 0
    /\ wire' = [wire EXCEPT ![j] = @ - 1]
    /\ IF socket[j] = "open"
         THEN Finalize(j) /\ shown' = j
         ELSE UNCHANGED <<running, ticking, robbed, socket, shown>>
    /\ UNCHANGED <<jobVars, conn, inbox, closed, told, unsaid, faults, submit, run,
                   outputSocket, pollInterval, poll, gaveUp>>

-----------------------------------------------------------------------------
(* The poll callback: GET /status, and GET /result after a final status.   *)

Callback(j, from, to) ==
    /\ poll[j] = from
    /\ poll' = [poll EXCEPT ![j] = to]
    /\ UNCHANGED <<jobVars, connVars, submit, run, outputSocket>>

Waits == UNCHANGED <<running, shown, socket, pollInterval, ticking, gaveUp, robbed>>

\* The interval fires.  (Bound: one callback of it is under way at a time.)
PollTick(j) ==
    /\ j \in ticking
    /\ Callback(j, "idle", "asked")
    /\ Waits /\ UNCHANGED faults

ServeStatus(j) ==
    /\ Callback(j, "asked", IF j \in final THEN "final" ELSE "idle")
    /\ Waits /\ UNCHANGED faults

\* A final status: no more polling.
StopPolling(j) ==
    /\ Callback(j, "final", "wanted")
    /\ ClearPolling(j)
    /\ pollInterval' = None
    /\ UNCHANGED <<running, shown, socket, gaveUp, faults>>

\* (Faulty variant: a missing result leaves the callback where nothing goes on.)
ServeResult_Hangs(j) ==
    /\ Callback(j, "wanted", IF j \in row THEN "got" ELSE "missing")
    /\ gaveUp' = (gaveUp \/ (j = run /\ j \notin row))
    /\ UNCHANGED <<running, shown, socket, pollInterval, ticking, robbed, faults>>

ServeResult(j) ==
    /\ Callback(j, "wanted", IF j \in row THEN "got" ELSE "idle")
    /\ gaveUp' = (gaveUp \/ (j = run /\ j \notin row))
    /\ UNCHANGED <<running, shown, socket, pollInterval, ticking, robbed, faults>>

\* 429 of the rate limiter, which every poll passes, or no answer.
Refused(j) ==
    /\ Callback(j, "asked", "idle") \/ Callback(j, "wanted", "idle")
    /\ gaveUp' = (gaveUp \/ (j = run /\ poll[j] = "wanted"))
    /\ Fault
    /\ UNCHANGED <<running, shown, socket, pollInterval, ticking, robbed>>

PollResult(j) ==
    /\ Callback(j, "got", "idle")
    /\ Finalize(j) /\ shown' = j
    /\ UNCHANGED <<pollInterval, gaveUp, faults>>

PollStep(j) ==
    PollTick(j) \/ ServeStatus(j) \/ StopPolling(j) \/ ServeResult(j) \/ PollResult(j)

-----------------------------------------------------------------------------

\* The handler's steps behind the opening, of which the page takes no notice.
Serve(j) ==
    \/ (Subscribed(j) \/ ReadCache(j) \/ Replay(j) \/ Forward(j)) /\ UNCHANGED pageVars
    \/ Opened(j) \/ ClientGone(j)

Next ==
    \E j \in Jobs :
        \/ ExecuteCode(j) \/ Submitted(j) \/ SubmitFails(j)
        \/ (Announce(j) \/ HandlerFails(j) \/ MessageLost(j)) /\ UNCHANGED pageVars
        \/ Serve(j) \/ SocketFails(j) \/ OnMessage(j)
        \/ PollStep(j) \/ Refused(j)

\* Requests are answered, messages arrive and timers fire; nobody has to press
\* the button, and nothing has to fail.  That jobs end is not assumed: some are
\* lost (LostOnlyInWindows of Engine), and the page then polls for ever.
Progress == \E j \in Jobs : Submitted(j) \/ Serve(j) \/ OnMessage(j)

\* None of the steps of Progress can be taken for ever, so that the weak fairness
\* of them all amounts to that of each.
Fairness == WF_vars(Progress) /\ \A j \in Jobs : WF_vars(PollStep(j))

Spec == Init /\ [][Next]_vars /\ Fairness

-----------------------------------------------------------------------------

\* A connection says done at most once, although both the replay and the channel
\* bring it: closed is set before anything is awaited (websocket.js:34-43, 64, 70).
DoneOnce == \A j \in Jobs : told[j] <= 1

\* The handler can still replay the job's result, or the worker has said done.
ToBeTold(j) ==
    /\ j \in cached
    /\ \/ conn[j] # "none" /\ stage[j] = "over"
       \/ conn[j] \in {"opening", "subscribe", "hgetall"}

\* Subscribing before looking into the cache leaves no gap: a client that is
\* connected gets done for every job of which the worker says so, whenever that
\* is, and one that connects in time to be replayed a cached result gets it even
\* if the worker dies before it publishes, unless a command or a message of its
\* connection fails (websocket.js:86-90).
EventuallyTold ==
    \A j \in Jobs :
        ToBeTold(j) ~> told[j] = 1 \/ j \in unsaid \/ socket[j] = "closed"

\* While no two submissions overlap (Patient), a result of another job than the
\* one asked for last comes on display only through a poll callback that was
\* under way when executeCode cleared its interval (index.html:1622-1623, 1703-1722).
StaleOnlyFromPoll ==
    [][\A j \in Jobs \ {run'} :
         shown # j /\ shown' = j => poll[j] = "got"]_vars

\* The page has sent job j last and learnt its id.
Asked(j) == run = j /\ submit[j] = "answered"

\* It waits for the result, and everything is said of the job.
Awaited(j) ==
    /\ Asked(j)
    /\ running \/ j \in ticking
    /\ stage[j] \in {"mute", "over"}

\* Once everything is said of the job that was asked for last, the page shows its
\* result, by whichever of the socket and the polling, or another job is asked
\* for.  Two cases are left out.  A callback of it saw a final status, cleared the
\* interval and then got no result, because there is no row, not yet a row, or no
\* answer (gaveUp): the page waits for ever, although its comments have polling
\* handle the result and go on.  A callback of an earlier run cleared its interval,
\* which pollInterval holds by now (robbed: index.html:1697, 1702-1735).
RunEnds ==
    (\E j \in Jobs : Awaited(j))
        ~> gaveUp \/ robbed \/ ~\E j \in Jobs : Asked(j) /\ shown # j

=============================================================================

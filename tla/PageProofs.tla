----------------------------- MODULE PageProofs ----------------------------
(***************************************************************************)
(* What a client is told and what the page shows, proved for any number of *)
(* runs of the page, any jobs that end badly and any number of failures.   *)
(*                                                                         *)
(* A connection is closed by its first done message, and a closed one has  *)
(* nothing left to say (ConnOK).  While submissions do not overlap, the    *)
(* one socket that may call back belongs to the run on display (SocketOK), *)
(* because executeCode closes the one before it and a socket is opened     *)
(* only for the run that is asked for.                                     *)
(***************************************************************************)
EXTENDS Page, TLAPS

\* The handler of a job's socket.
ConnOK ==
    \A j \in Jobs :
        /\ told[j] <= 1
        /\ told[j] >= 1 => j \in closed
        /\ j \in closed => conn[j] = "live"
        /\ j \in inbox => conn[j] # "none"

\* A job that the page does not know of has no socket.
SubmitOK ==
    \A j \in Jobs : submit[j] # "answered" =>
        conn[j] = "none" /\ socket[j] = "none" /\ outputSocket # j

SocketOK ==
    Patient => \A j \in Jobs :
        /\ submit[j] = "sent" => run = j
        /\ socket[j] \in {"connecting", "open"} => outputSocket = j /\ run = j

PageTypeOK ==
    /\ submit \in [Jobs -> {"unused", "sent", "answered", "failed"}]
    /\ run \in Jobs \cup {None} /\ shown \in Jobs \cup {None}
    /\ outputSocket \in Jobs \cup {None} /\ pollInterval \in Jobs \cup {None}
    /\ running \in BOOLEAN /\ gaveUp \in BOOLEAN /\ robbed \in BOOLEAN
    /\ socket \in [Jobs -> {"none", "connecting", "open", "closed"}]
    /\ ticking \in SUBSET Jobs
    /\ poll \in [Jobs -> {"idle", "asked", "final", "wanted", "got"}]

PageInv == LiveTypeOK /\ PageTypeOK /\ ConnOK /\ SubmitOK /\ SocketOK

LEMMA TypedPage == LiveTypeOK /\ PageTypeOK => TypeOK
  BY DEF PageTypeOK, TypeOK

LEMMA PageInit == Init => PageInv
  <1> SUFFICES ASSUME Init PROVE PageInv
    OBVIOUS
  <1>1. LiveTypeOK
    BY FaultsAssumption DEF Init, LiveInit, LiveTypeOK, Stages, ConnSteps
  <1>2. PageTypeOK
    BY DEF Init, PageTypeOK
  <1>3. ConnOK /\ SubmitOK /\ SocketOK
    BY NoneAssumption DEF Init, LiveInit, ConnOK, SubmitOK, SocketOK
  <1> QED
    BY <1>1, <1>2, <1>3 DEF PageInv

-----------------------------------------------------------------------------
(* The worker and the watchdog.                                            *)

LEMMA AnnounceStep ==
    ASSUME PageInv, NEW j \in Jobs, Announce(j), UNCHANGED pageVars
    PROVE  PageInv'
  <1> USE DEF PageInv, LiveTypeOK, Stages, Move, Quietly, connVars
  <1>1. /\ stage' \in [Jobs -> Stages]
        /\ final' \in SUBSET Jobs /\ row' \in SUBSET Jobs /\ cached' \in SUBSET Jobs
        /\ inbox' \in SUBSET Jobs
        /\ \A i \in inbox' : i \in inbox \/ conn[i] # "none"
        /\ UNCHANGED <<conn, closed, wire, told, unsaid>>
        /\ faults' \in 0..MaxFaults
    <2>1. CASE InsertFallback(j)
      BY <2>1 DEF InsertFallback
    <2>2. CASE InsertRow(j)
      BY <2>2 DEF InsertRow
    <2>3. CASE SetFinal(j)
      BY <2>3 DEF SetFinal
    <2>4. CASE Cache(j)
      BY <2>4 DEF Cache
    <2>5. CASE PublishDone(j)
      BY <2>5 DEF PublishDone
    <2>6. CASE Catch(j)
      BY <2>6 DEF Catch
    <2>7. CASE Retry(j) \/ GiveUp(j) \/ GiveUpRow(j)
      BY <2>7, FaultsAssumption DEF Retry, GiveUp, GiveUpRow, Fault
    <2> QED
      BY <2>1, <2>2, <2>3, <2>4, <2>5, <2>6, <2>7 DEF Announce
  <1>2. LiveTypeOK'
    BY <1>1
  <1>3. PageTypeOK' /\ ConnOK' /\ SubmitOK' /\ SocketOK'
    BY <1>1 DEF pageVars, PageTypeOK, ConnOK, SubmitOK, SocketOK
  <1> QED
    BY <1>2, <1>3

-----------------------------------------------------------------------------
(* The connection handler.                                                 *)

\* The handler goes from one await to the next.
LEMMA AdvanceStep ==
    ASSUME PageInv, NEW j \in Jobs,
           \/ (Subscribed(j) \/ ReadCache(j)) /\ UNCHANGED pageVars
           \/ Opened(j)
    PROVE  PageInv'
  <1> USE DEF PageInv
  <1>1. /\ UNCHANGED jobVars /\ UNCHANGED <<inbox, closed, wire, told, unsaid, faults>>
        /\ UNCHANGED <<submit, run, running, shown, outputSocket, pollInterval, ticking,
                       poll, gaveUp, robbed>>
    BY DEF Subscribed, ReadCache, Opened, Accept, pageVars
  <1>2. /\ conn[j] \in {"opening", "subscribe", "hgetall"}
        /\ \E to \in {"subscribe", "hgetall", "found", "live"} :
             conn' = [conn EXCEPT ![j] = to]
    BY DEF Subscribed, ReadCache, Opened, Accept, At
  <1>3. socket' = socket
        \/ socket' = [socket EXCEPT ![j] = IF @ = "connecting" THEN "open" ELSE @]
    BY DEF Opened, pageVars
  <1>4. LiveTypeOK'
    BY <1>1, <1>2 DEF LiveTypeOK, jobVars, ConnSteps
  <1>5. PageTypeOK'
    BY <1>1, <1>3 DEF PageTypeOK
  <1>6. ConnOK'
    BY <1>1, <1>2 DEF ConnOK, LiveTypeOK
  <1>7. SubmitOK'
    BY <1>1, <1>2, <1>3 DEF SubmitOK, LiveTypeOK, PageTypeOK
  <1>8. SocketOK'
    BY <1>1, <1>3 DEF SocketOK, PageTypeOK
  <1> QED
    BY <1>4, <1>5, <1>6, <1>7, <1>8

\* The handler closes the connection, and says done before if it had not closed
\* it already.
LEMMA CloseStep ==
    ASSUME PageInv, NEW j \in Jobs, conn[j] # "none", CloseConnection(j),
           UNCHANGED jobVars, UNCHANGED pageVars,
           unsaid' \in SUBSET Jobs, faults' \in 0..MaxFaults,
           \/ UNCHANGED <<wire, told>>
           \/ /\ j \notin closed
              /\ wire' = [wire EXCEPT ![j] = @ + 1] /\ told' = [told EXCEPT ![j] = @ + 1]
    PROVE  PageInv'
  <1> USE DEF PageInv
  <1>1. /\ closed' = closed \cup {j} /\ inbox' = inbox \ {j}
        /\ conn' = [conn EXCEPT ![j] = "live"]
    BY DEF CloseConnection
  <1>2. told[j] \in Nat /\ told[j] <= 1 /\ (j \notin closed => told[j] = 0)
    BY DEF LiveTypeOK, ConnOK
  <1>3. \A i \in Jobs : told'[i] = told[i]
          \/ (i = j /\ j \notin closed /\ told'[i] = told[i] + 1)
    BY DEF LiveTypeOK
  <1>4. LiveTypeOK'
    BY <1>1 DEF LiveTypeOK, jobVars, ConnSteps
  <1>5. ConnOK'
    BY <1>1, <1>2, <1>3 DEF ConnOK, LiveTypeOK
  <1>6. SubmitOK'
    BY <1>1 DEF SubmitOK, LiveTypeOK, pageVars
  <1>7. PageTypeOK' /\ SocketOK'
    BY DEF PageTypeOK, SocketOK, pageVars
  <1> QED
    BY <1>4, <1>5, <1>6, <1>7

\* A message that is lost.
LEMMA MessageLostStep ==
    ASSUME PageInv, NEW j \in Jobs, MessageLost(j), UNCHANGED pageVars
    PROVE  PageInv'
  <1> USE DEF PageInv, MessageLost
  <1>1. faults' \in 0..MaxFaults /\ inbox' \in SUBSET Jobs /\ unsaid' \in SUBSET Jobs
    BY FaultsAssumption DEF Fault, LiveTypeOK
  <1>2. LiveTypeOK'
    BY <1>1 DEF LiveTypeOK, jobVars
  <1>3. ConnOK'
    BY DEF ConnOK
  <1>4. PageTypeOK' /\ SubmitOK' /\ SocketOK'
    BY DEF PageTypeOK, SubmitOK, SocketOK, pageVars
  <1> QED
    BY <1>2, <1>3, <1>4

LEMMA HandlerStep ==
    ASSUME PageInv, NEW j \in Jobs,
           \/ (Replay(j) \/ Forward(j) \/ HandlerFails(j)) /\ UNCHANGED pageVars
           \/ ClientGone(j)
    PROVE  PageInv'
  <1> USE DEF PageInv
  <1>1. CASE Replay(j) /\ UNCHANGED pageVars
    <2>1. conn[j] = "found" /\ j \notin closed
      BY <1>1 DEF Replay, ConnOK
    <2> QED
      BY <1>1, <2>1, CloseStep DEF Replay, SendDone, LiveTypeOK
  <1>2. CASE Forward(j) /\ UNCHANGED pageVars
    <2>1. j \in inbox \ closed /\ conn[j] # "none"
      BY <1>2 DEF Forward, ConnOK
    <2> QED
      BY <1>2, <2>1, CloseStep DEF Forward, SendDone, LiveTypeOK
  <1>3. CASE HandlerFails(j) /\ UNCHANGED pageVars
    <2>1. faults' \in 0..MaxFaults /\ conn[j] # "none" /\ unsaid' \in SUBSET Jobs
      BY <1>3, FaultsAssumption DEF HandlerFails, Fault, LiveTypeOK
    <2> QED
      BY <1>3, <2>1, CloseStep DEF HandlerFails
  <1>4. CASE ClientGone(j)
    BY <1>4, CloseStep DEF ClientGone, LiveTypeOK
  <1> QED
    BY <1>1, <1>2, <1>3, <1>4

-----------------------------------------------------------------------------
(* The page.                                                               *)

LEMMA ExecuteStep ==
    ASSUME PageInv, NEW j \in Jobs, ExecuteCode(j)
    PROVE  PageInv'
  <1> USE DEF PageInv, ExecuteCode, CloseOldSocket
  <1>1. UNCHANGED liveVars /\ submit[j] = "unused"
    OBVIOUS
  <1>2. LiveTypeOK' /\ ConnOK'
    BY <1>1 DEF LiveTypeOK, ConnOK, liveVars, jobVars, connVars
  <1>3. PageTypeOK'
    BY DEF PageTypeOK
  <1>4. SubmitOK'
    BY <1>1 DEF SubmitOK, PageTypeOK, liveVars, connVars
  <1>5. SocketOK'
    BY <1>1 DEF SocketOK, PageTypeOK
  <1> QED
    BY <1>2, <1>3, <1>4, <1>5

LEMMA SubmittedStep ==
    ASSUME PageInv, NEW j \in Jobs, Submitted(j)
    PROVE  PageInv'
  <1> USE DEF PageInv, Submitted, Move
  <1>1. submit[j] = "sent" /\ conn[j] = "none"
    BY DEF SubmitOK
  <1>2. LiveTypeOK'
    BY DEF LiveTypeOK, Stages, ConnSteps
  <1>3. PageTypeOK'
    BY DEF PageTypeOK
  <1>4. ConnOK'
    BY <1>1 DEF ConnOK, LiveTypeOK
  <1>5. SubmitOK'
    BY <1>1 DEF SubmitOK, PageTypeOK, LiveTypeOK
  <1>6. SocketOK'
    BY <1>1 DEF SocketOK, SubmitOK, PageTypeOK
  <1> QED
    BY <1>2, <1>3, <1>4, <1>5, <1>6

\* What the other callbacks leave alone, and that they open no socket.
Settles ==
    /\ UNCHANGED <<jobVars, conn, inbox, closed, told, unsaid>>
    /\ UNCHANGED <<run, outputSocket>>
    /\ \A i \in Jobs : submit'[i] = submit[i]
         \/ (submit[i] = "sent" /\ submit'[i] = "failed")
    /\ \A i \in Jobs : socket'[i] = socket[i]
         \/ (socket[i] # "none" /\ socket'[i] = "closed")
    /\ wire' \in [Jobs -> Nat] /\ faults' \in 0..MaxFaults

LEMMA SettlesStep ==
    ASSUME PageInv, PageTypeOK', Settles
    PROVE  PageInv'
  <1> USE DEF PageInv, Settles
  <1>1. LiveTypeOK' /\ ConnOK'
    BY DEF LiveTypeOK, ConnOK, jobVars
  <1>2. SubmitOK'
    BY DEF SubmitOK
  <1>3. SocketOK'
    BY DEF SocketOK
  <1> QED
    BY <1>1, <1>2, <1>3

LEMMA FinalizeSettles ==
    ASSUME PageTypeOK, NEW j \in Jobs, Finalize(j)
    PROVE  /\ running' \in BOOLEAN /\ robbed' \in BOOLEAN /\ ticking' \in SUBSET Jobs
           /\ socket' \in [Jobs -> {"none", "connecting", "open", "closed"}]
           /\ \A i \in Jobs : socket'[i] = socket[i]
                \/ (socket[i] # "none" /\ socket'[i] = "closed")
  BY DEF PageTypeOK, Finalize, ClearPolling

LEMMA CallbackStep ==
    ASSUME PageInv, NEW j \in Jobs,
           SubmitFails(j) \/ SocketFails(j) \/ OnMessage(j) \/ PollStep(j) \/ Refused(j)
    PROVE  PageInv'
  <1> USE DEF PageInv
  <1>1. wire \in [Jobs -> Nat] /\ faults \in 0..MaxFaults
    BY DEF LiveTypeOK
  <1>2. ASSUME Fault PROVE faults' \in 0..MaxFaults
    BY <1>1, <1>2, FaultsAssumption DEF Fault
  <1>3. CASE SubmitFails(j)
    <2>1. PageTypeOK' /\ Settles
      BY <1>1, <1>2, <1>3, FinalizeSettles
      DEF SubmitFails, PageTypeOK, Settles, jobVars, connVars
    <2> QED
      BY <2>1, SettlesStep
  <1>4. CASE SocketFails(j)
    <2>1. PageTypeOK' /\ Settles
      BY <1>1, <1>2, <1>4 DEF SocketFails, PageTypeOK, Settles, jobVars, connVars
    <2> QED
      BY <2>1, SettlesStep
  <1>5. CASE OnMessage(j)
    <2>1. wire' \in [Jobs -> Nat]
      BY <1>1, <1>5 DEF OnMessage
    <2>2. PageTypeOK' /\ Settles
      BY <1>1, <1>5, <2>1, FinalizeSettles
      DEF OnMessage, PageTypeOK, Settles, jobVars
    <2> QED
      BY <2>2, SettlesStep
  <1>6. CASE PollTick(j) \/ ServeStatus(j) \/ StopPolling(j) \/ ServeResult(j)
    <2>1. PageTypeOK' /\ Settles
      BY <1>1, <1>6
      DEF PollTick, ServeStatus, StopPolling, ServeResult, Callback, Waits,
          ClearPolling, PageTypeOK, Settles, jobVars, connVars
    <2> QED
      BY <2>1, SettlesStep
  <1>7. CASE PollResult(j)
    <2>1. PageTypeOK' /\ Settles
      BY <1>1, <1>7, FinalizeSettles
      DEF PollResult, Callback, PageTypeOK, Settles, jobVars, connVars
    <2> QED
      BY <2>1, SettlesStep
  <1>8. CASE Refused(j)
    <2>1. PageTypeOK' /\ Settles
      BY <1>1, <1>2, <1>8
      DEF Refused, Callback, PageTypeOK, Settles, jobVars, connVars
    <2> QED
      BY <2>1, SettlesStep
  <1> QED
    BY <1>3, <1>4, <1>5, <1>6, <1>7, <1>8 DEF PollStep

LEMMA PageStep == PageInv /\ [Next]_vars => PageInv'
  <1> SUFFICES ASSUME PageInv, [Next]_vars PROVE PageInv'
    OBVIOUS
  <1>1. CASE Next
    BY <1>1, AnnounceStep, AdvanceStep, MessageLostStep, HandlerStep, ExecuteStep,
       SubmittedStep, CallbackStep DEF Next, Serve
  <1>2. CASE UNCHANGED vars
    BY <1>2 DEF vars, liveVars, jobVars, connVars, pageVars, PageInv, LiveTypeOK,
       PageTypeOK, ConnOK, SubmitOK, SocketOK
  <1> QED
    BY <1>1, <1>2

LEMMA PageAlways == Spec => []PageInv
  BY PageInit, PageStep, PTL DEF Spec

-----------------------------------------------------------------------------

\* The page's variables name runs of the page, whichever callbacks interleave,
\* and the handler and the callbacks are always at one of their awaits
\* (websocket.js:60-110, index.html:1569-1725).
THEOREM PageTypeCorrect == Spec => []TypeOK
  <1>1. PageInv => TypeOK
    BY TypedPage DEF PageInv
  <1> QED
    BY <1>1, PageAlways, PTL

\* A connection says done once at most, whether the replay or the channel brings
\* it first, and whatever fails or is closed in between (websocket.js:34-43, 64, 70).
THEOREM DoneIsSaidOnce == Spec => []DoneOnce
  <1>1. PageInv => DoneOnce
    BY DEF PageInv, ConnOK, DoneOnce
  <1> QED
    BY <1>1, PageAlways, PTL

\* While no two submissions overlap, what comes on display of an earlier run came
\* through a poll callback that was under way: no socket of it can still call
\* back (index.html:1622-1623, 1703-1722).
THEOREM StaleComesFromPoll == Patient => (Spec => StaleOnlyFromPoll)
  <1> SUFFICES ASSUME Patient PROVE Spec => StaleOnlyFromPoll
    OBVIOUS
  <1>1. ASSUME PageInv, [Next]_vars
        PROVE  [\A j \in Jobs \ {run'} : shown # j /\ shown' = j => poll[j] = "got"]_vars
    <2> SUFFICES ASSUME Next, NEW j \in Jobs, j # run', shown # j, shown' = j
                 PROVE  poll[j] = "got"
      BY <1>1
    <2>1. PICK i \in Jobs :
            \/ ExecuteCode(i) \/ OnMessage(i) \/ PollResult(i) \/ shown' = shown
      BY DEF Next, Serve, Submitted, SubmitFails, pageVars, Opened, ClientGone, SocketFails,
         PollStep, PollTick, ServeStatus, StopPolling, ServeResult, Refused, Waits
    <2>2. CASE ExecuteCode(i)
      BY <2>2, NoneAssumption DEF ExecuteCode
    <2>3. CASE OnMessage(i)
      <3>1. socket[i] = "open" /\ i = j /\ run' = run
        BY <2>3 DEF OnMessage
      <3> QED
        BY <1>1, <3>1 DEF PageInv, SocketOK
    <2>4. CASE PollResult(i)
      BY <2>4 DEF PollResult, Callback
    <2> QED
      BY <2>1, <2>2, <2>3, <2>4
  <1> QED
    BY <1>1, PageAlways, PTL DEF Spec, StaleOnlyFromPoll
=============================================================================

------------------------------- MODULE Sandbox -----------------------------
(***************************************************************************)
(* executor.execute and the container it drives (worker/executor.js,       *)
(* worker/container-manager.js): write the source file, create and start a *)
(* container, run one or two phases, each against its timer, and clean up. *)
(* The timer's kill is not awaited, so it runs beside the phase, and what  *)
(* Docker answers may come before or after it.  Executions of one job by   *)
(* two workers share the path of the source file.                          *)
(***************************************************************************)
EXTENDS Frames

CONSTANTS
    Execs,           \* calls of execute
    Path,            \* the source file of each: the job id and the file name
    Compiles,        \* those whose language has a compile command
    CompileFrames,   \* what a compiler may print, in frames
    RunTexts,        \* what a program may print on its terminal
    MaxFaults        \* bound: calls of Docker or of the file system that fail

ASSUME OutputsAssumption ==
    /\ CompileFrames \subseteq Seq([type : StreamTypes, payload : Seq(Nat)])
    /\ RunTexts \subseteq Seq(Nat)
ASSUME FaultsAssumption == MaxFaults \in Nat

VARIABLES
    at,         \* the await each execution stands at
    phase,      \* compile or run
    armed,      \* the phase's timer is pending
    timedOut,   \* the phase's timedOut
    kill,       \* the kill the timer has sent
    container,  \* what Docker has of it
    output,     \* what the phase's command prints
    got,        \* how many of its bytes have arrived
    live,       \* publishFrames of the run phase
    code,       \* the exit code of the command, None while it runs
    outcome,    \* what execute is going to return or throw
    files,      \* the source files there are
    cut,        \* history: the phase's stream ended before its command was over,
    sourced,    \*   the file was there when the container started,
    guessed,    \*   an exit code was not found out,
    deprived,   \*   another execution has deleted the file since it was written,
    stray,      \*   Docker refused to remove the container, or to tell its name,
    litter,     \*   the file system refused to delete the file or to write it all
    faults

vars == <<at, phase, armed, timedOut, kill, container, output, got, live, code,
          outcome, files, cut, sourced, guessed, deprived, stray, litter, faults>>

None == -1
Steps == {"idle", "create", "start", "exec", "stream", "inspect", "remove", "unlink",
          "ended"}
Blank == [bytes |-> <<>>, stdout |-> <<>>, stderr |-> <<>>]
\* Only the run phase asks for a TTY, and only without one are there frames.
CompileOutputs == {Printed(frames) : frames \in CompileFrames}
RunOutputs == {[bytes |-> text, stdout |-> text, stderr |-> <<>>] : text \in RunTexts}

Returned(x, t) == [kind |-> "value", exitCode |-> x, timedOut |-> t]
Nothing == [kind |-> "none", exitCode |-> None, timedOut |-> FALSE]
Thrown == [Nothing EXCEPT !.kind = "error"]
Undefined == [Nothing EXCEPT !.kind = "undefined"]

TypeOK ==
    /\ at \in [Execs -> Steps]
    /\ phase \in [Execs -> {"compile", "run"}]
    /\ {armed, timedOut, cut, sourced, guessed, deprived, stray, litter}
         \subseteq [Execs -> BOOLEAN]
    /\ kill \in [Execs -> {"none", "sent", "failed", "done"}]
    /\ container \in [Execs -> {"none", "created", "running", "killed", "removed"}]
    /\ output \in [Execs -> {Blank} \cup CompileOutputs \cup RunOutputs]
    /\ \A e \in Execs : got[e] \in 0..Len(output[e].bytes)
    /\ code \in [Execs -> {None, 0, 1, 137}]
    /\ \A e \in Execs : outcome[e] \in {Nothing, Thrown, Undefined}
         \cup {Returned(x, t) : x \in {0, 1, 137}, t \in BOOLEAN}
    /\ files \in SUBSET {Path[e] : e \in Execs}
    /\ faults \in 0..MaxFaults

Init ==
    /\ at = [e \in Execs |-> "idle"]
    /\ phase = [e \in Execs |-> IF e \in Compiles THEN "compile" ELSE "run"]
    /\ armed = [e \in Execs |-> FALSE] /\ timedOut = armed
    /\ kill = [e \in Execs |-> "none"]
    /\ container = [e \in Execs |-> "none"]
    /\ output = [e \in Execs |-> Blank]
    /\ got = [e \in Execs |-> 0]
    /\ live = [e \in Execs |-> Silent]
    /\ code = [e \in Execs |-> None]
    /\ outcome = [e \in Execs |-> Nothing]
    /\ files = {}
    /\ cut = armed /\ sourced = armed /\ guessed = armed /\ deprived = armed
    /\ stray = armed /\ litter = armed
    /\ faults = MaxFaults

-----------------------------------------------------------------------------

Goto(e, from, to) == at[e] = from /\ at' = [at EXCEPT ![e] = to]
Set(f, e, v) == [f EXCEPT ![e] = v]
NoFault == UNCHANGED faults
Fault == faults > 0 /\ faults' = faults - 1

phaseVars == <<phase, armed, timedOut, output, got, live, code, cut>>
fileVars == <<files, sourced, deprived, litter>>

-----------------------------------------------------------------------------
(* Before the phases.                                                      *)

\* fs.writeFileSync
Write(e) ==
    /\ Goto(e, "idle", "create")
    /\ files' = files \cup {Path[e]}
    /\ UNCHANGED <<phaseVars, kill, container, outcome, sourced, guessed, deprived,
                   stray, litter, faults>>

\* It stands before the try, so nothing is cleaned up: not the part of the file
\* that was written either, when it fails after the file was opened.
WriteFails(e) ==
    /\ Goto(e, "idle", "ended")
    /\ Fault
    /\ outcome' = Set(outcome, e, Thrown)
    /\ \/ files' = files \cup {Path[e]} /\ litter' = Set(litter, e, TRUE)
       \/ UNCHANGED <<files, litter>>
    /\ UNCHANGED <<phaseVars, kill, container, sourced, guessed, deprived, stray>>

Create(e) ==
    /\ Goto(e, "create", "start")
    /\ container' = Set(container, e, "created")
    /\ UNCHANGED <<phaseVars, kill, outcome, fileVars, guessed, stray, faults>>

\* Docker refuses, or has created a container whose name never arrives: there is
\* nothing to remove.
CreateFails(e) ==
    /\ Goto(e, "create", "unlink")
    /\ Fault
    /\ outcome' = Set(outcome, e, Thrown)
    /\ \/ container' = Set(container, e, "created") /\ stray' = Set(stray, e, TRUE)
       \/ UNCHANGED <<container, stray>>
    /\ UNCHANGED <<phaseVars, kill, fileVars, guessed>>

\* executePhase from the top: the timer is armed, then the exec is created.
EnterPhase(e, ph) ==
    /\ phase' = Set(phase, e, ph)
    /\ armed' = Set(armed, e, TRUE)
    /\ timedOut' = Set(timedOut, e, FALSE)
    /\ \E o \in IF ph = "compile" THEN CompileOutputs ELSE RunOutputs :
         output' = Set(output, e, o)
    /\ got' = Set(got, e, 0)
    /\ live' = Set(live, e, Silent)
    /\ code' = Set(code, e, None)
    /\ cut' = Set(cut, e, FALSE)

Start(e) ==
    /\ Goto(e, "start", "exec")
    /\ container' = Set(container, e, "running")
    /\ sourced' = Set(sourced, e, Path[e] \in files)
    /\ EnterPhase(e, phase[e])
    /\ UNCHANGED <<kill, outcome, files, guessed, deprived, stray, litter, faults>>

\* Docker refuses, as it may when the file to mount is gone.
StartFails(e) ==
    /\ Goto(e, "start", "remove")
    /\ IF Path[e] \in files THEN Fault ELSE NoFault
    /\ outcome' = Set(outcome, e, Thrown)
    /\ UNCHANGED <<phaseVars, kill, container, fileVars, guessed, stray>>

-----------------------------------------------------------------------------
(* execInContainer within executePhase.                                    *)

\* container.exec and exec.start
ExecStarts(e) ==
    /\ container[e] = "running"
    /\ Goto(e, "exec", "stream")
    /\ UNCHANGED <<phaseVars, kill, container, outcome, fileVars, guessed, stray,
                   faults>>

Data(e, n) ==
    /\ at[e] = "stream"
    /\ n \in got[e] + 1..Len(output[e].bytes)
    /\ got' = Set(got, e, n)
    /\ live' = IF phase[e] = "compile" THEN live
               ELSE Set(live, e, publishFrames(live[e],
                                   SubSeq(output[e].bytes, got[e] + 1, n)))
    /\ UNCHANGED <<at, phase, armed, timedOut, output, code, cut, kill, container,
                   outcome, fileVars, guessed, stray, faults>>

\* The command has ended, or was killed with the container.
Ends(e) ==
    \/ \E x \in {0, 1} : (x = 0 => sourced[e]) /\ code' = Set(code, e, x)
    \/ container[e] = "killed" /\ code' = Set(code, e, 137)

\* The stream ends with the command, or with the container.
StreamEnds(e) ==
    /\ Goto(e, "stream", "inspect")
    /\ Ends(e)
    /\ code'[e] # 137 => got[e] = Len(output[e].bytes)
    /\ UNCHANGED <<phase, armed, timedOut, output, got, live, cut, kill, container,
                   outcome, fileVars, guessed, stray, faults>>

\* Docker closes its side of the connection: the stream ends with what has come,
\* and without an error, while the command goes on.
StreamBreaks(e) ==
    /\ Goto(e, "stream", "inspect")
    /\ Fault
    /\ cut' = Set(cut, e, TRUE)
    /\ UNCHANGED <<phase, armed, timedOut, output, got, live, code, kill, container,
                   outcome, fileVars, guessed, stray>>

\* It may be over by the time of inspect.
CommandEnds(e) ==
    /\ at[e] = "inspect"
    /\ code[e] = None
    /\ Ends(e)
    /\ UNCHANGED <<at, phase, armed, timedOut, output, got, live, cut, kill, container,
                   outcome, fileVars, guessed, stray, faults>>

\* return { ...result, timedOut }, the flag read now, and clearTimeout.  A compile
\* that succeeds in time is followed by the run.
\* (Faulty variant: compileResult.timedOut is not looked at.)
PhaseReturns_CodeOnly(e, x) ==
    IF phase[e] = "compile" /\ x = 0
      THEN /\ Goto(e, at[e], "exec")
           /\ EnterPhase(e, "run")
           /\ UNCHANGED outcome
      ELSE /\ Goto(e, at[e], "remove")
           /\ armed' = Set(armed, e, FALSE)
           /\ outcome' = Set(outcome, e, Returned(x, timedOut[e]))
           /\ UNCHANGED <<phase, timedOut, output, got, live, code, cut>>

PhaseReturns(e, x) ==
    IF phase[e] = "compile" /\ ~timedOut[e] /\ x = 0
      THEN /\ Goto(e, at[e], "exec")
           /\ EnterPhase(e, "run")
           /\ UNCHANGED outcome
      ELSE /\ Goto(e, at[e], "remove")
           /\ armed' = Set(armed, e, FALSE)
           /\ outcome' = Set(outcome, e, Returned(x, timedOut[e]))
           /\ UNCHANGED <<phase, timedOut, output, got, live, code, cut>>

\* inspection.ExitCode ?? 0: null means that the command is running.
Inspect(e) ==
    /\ at[e] = "inspect"
    /\ PhaseReturns(e, IF code[e] = None THEN 0 ELSE code[e])
    /\ UNCHANGED <<kill, container, fileVars, guessed, stray, faults>>

\* inspect fails, or still says null although the stream has ended: exit code 0.
\* (Faulty variant: null is passed on.)
InspectFails_Null(e) ==
    /\ at[e] = "inspect"
    /\ Fault
    /\ PhaseReturns(e, None)
    /\ guessed' = Set(guessed, e, TRUE)
    /\ UNCHANGED <<kill, container, fileVars, stray>>

InspectFails(e) ==
    /\ at[e] = "inspect"
    /\ Fault
    /\ PhaseReturns(e, 0)
    /\ guessed' = Set(guessed, e, TRUE)
    /\ UNCHANGED <<kill, container, fileVars, stray>>

\* The catch of executePhase: an error after the timer fired is a timeout.
\* (Faulty variants: every error is one; the timer outlives an error.)
PhaseThrows_AlwaysTimeout(e) ==
    /\ Goto(e, at[e], "remove")
    /\ armed' = Set(armed, e, FALSE)
    /\ outcome' = Set(outcome, e, Returned(137, timedOut[e]))
PhaseThrows_KeepsTimer(e) ==
    /\ Goto(e, at[e], "remove")
    /\ outcome' = Set(outcome, e, IF timedOut[e] THEN Returned(137, TRUE) ELSE Thrown)
    /\ UNCHANGED armed

PhaseThrows(e) ==
    /\ Goto(e, at[e], "remove")
    /\ armed' = Set(armed, e, FALSE)
    /\ outcome' = Set(outcome, e, IF timedOut[e] THEN Returned(137, TRUE) ELSE Thrown)

\* exec on a container that does not run any more, or a connection that breaks
\* with an error (without one: StreamBreaks).
ExecFails(e) ==
    /\ at[e] \in {"exec", "stream"}
    /\ IF at[e] = "exec" /\ container[e] = "killed" THEN NoFault ELSE Fault
    /\ PhaseThrows(e)
    /\ UNCHANGED <<phase, timedOut, output, got, live, code, cut, kill, container,
                   fileVars, guessed, stray>>

\* setTimeout: the kill is sent and nobody waits for it.
TimerFires(e) ==
    /\ armed[e]
    /\ armed' = Set(armed, e, FALSE)
    /\ timedOut' = Set(timedOut, e, TRUE)
    /\ kill' = Set(kill, e, "sent")
    /\ UNCHANGED <<at, phase, output, got, live, code, cut, container, outcome,
                   fileVars, guessed, stray, faults>>

\* Done, or 409 because it does not run; any other error is logged.
\* (Faulty variant: the timer does not kill.)
Killed_NotSent(e) ==
    /\ kill[e] = "sent"
    /\ kill' = Set(kill, e, "done")
    /\ UNCHANGED <<at, phaseVars, container, outcome, fileVars, guessed, stray,
                   faults>>

Killed(e) ==
    /\ kill[e] = "sent"
    /\ kill' = Set(kill, e, "done")
    /\ container' = Set(container, e, IF container[e] = "running" THEN "killed"
                                      ELSE container[e])
    /\ UNCHANGED <<at, phaseVars, outcome, fileVars, guessed, stray, faults>>

KillFails(e) ==
    /\ kill[e] = "sent"
    /\ Fault
    /\ kill' = Set(kill, e, "failed")
    /\ UNCHANGED <<at, phaseVars, container, outcome, fileVars, guessed, stray>>

-----------------------------------------------------------------------------
(* The finally of execute.                                                 *)

RemoveContainer(e) ==
    /\ Goto(e, "remove", "unlink")
    /\ \/ container' = Set(container, e, "removed") /\ NoFault /\ UNCHANGED stray
       \/ Fault /\ stray' = Set(stray, e, TRUE) /\ UNCHANGED container
    /\ UNCHANGED <<phaseVars, kill, outcome, fileVars, guessed>>

\* The file is there, or was deleted by another execution: then the return in
\* the finally block takes the place of whatever was returned or thrown.
Unlink(e) ==
    /\ Goto(e, "unlink", "ended")
    /\ IF Path[e] \in files
         THEN /\ files' = files \ {Path[e]}
              /\ deprived' = [f \in Execs |-> deprived[f] \/
                   (f # e /\ Path[f] = Path[e] /\ at[f] \notin {"idle", "ended"})]
              /\ UNCHANGED outcome
         ELSE /\ outcome' = Set(outcome, e, Undefined)
              /\ UNCHANGED <<files, deprived>>
    /\ UNCHANGED <<phaseVars, kill, container, sourced, guessed, stray, litter, faults>>

\* (Faulty variant: every error of unlinkSync is taken for ENOENT.)
UnlinkFails_Returns(e) ==
    /\ Goto(e, "unlink", "ended")
    /\ Fault
    /\ litter' = Set(litter, e, TRUE)
    /\ outcome' = Set(outcome, e, Undefined)
    /\ UNCHANGED <<phaseVars, kill, container, files, sourced, deprived, guessed, stray>>

\* Any other error is logged.
UnlinkFails(e) ==
    /\ Goto(e, "unlink", "ended")
    /\ Fault
    /\ litter' = Set(litter, e, TRUE)
    /\ UNCHANGED <<phaseVars, kill, container, outcome, files, sourced, deprived,
                   guessed, stray>>

-----------------------------------------------------------------------------

\* What goes on by itself: Docker answers, timers fire and kills arrive.  That
\* the command prints or ends is left to it.
Progress(e) ==
    \/ Create(e) \/ Start(e) \/ ExecStarts(e) \/ Inspect(e)
    \/ RemoveContainer(e) \/ Unlink(e)
    \/ TimerFires(e) \/ Killed(e)
    \/ at[e] = "exec" /\ container[e] = "killed" /\ ExecFails(e)
    \/ container[e] = "killed" /\ StreamEnds(e)

Next ==
    \E e \in Execs :
        \/ Write(e) \/ WriteFails(e) \/ Create(e) \/ CreateFails(e)
        \/ Start(e) \/ StartFails(e)
        \/ ExecStarts(e) \/ (\E n \in 1..Len(output[e].bytes) : Data(e, n))
        \/ StreamEnds(e) \/ StreamBreaks(e) \/ CommandEnds(e)
        \/ Inspect(e) \/ InspectFails(e) \/ ExecFails(e)
        \/ TimerFires(e) \/ Killed(e) \/ KillFails(e)
        \/ RemoveContainer(e) \/ Unlink(e) \/ UnlinkFails(e)

Spec == Init /\ [][Next]_vars /\ \A e \in Execs : WF_vars(Progress(e))

-----------------------------------------------------------------------------

\* A kill strikes the phase whose timer sent it: after a kill was sent no other
\* phase starts, and what execute returns says timedOut, although the timer may
\* fire while exec starts, after the stream has ended or during inspect
\* (executor.js:37-43, 59-69, 120).
KillMeansTimeout ==
    \A e \in Execs : kill[e] # "none" =>
        /\ timedOut[e]
        /\ outcome[e].kind = "value" => outcome[e].timedOut

\* A result that does not say timedOut never invents a failure: an exit code
\* other than 0 is the command's own.  Unless Docker cut the stream short, it is
\* that of a command that ended by itself: its exit code, but for a failed
\* inspect, which passes for 0, and all of its output.  After a cut, part of the
\* output and exit code 0 may stand for a command that still runs
\* (container-manager.js:119, 123-129).
ResultHonest ==
    \A e \in Execs :
        outcome[e].kind = "value" /\ ~outcome[e].timedOut =>
            /\ outcome[e].exitCode # 0 => outcome[e].exitCode = code[e]
            /\ ~cut[e] => /\ code[e] \in {0, 1}
                          /\ guessed[e] \/ outcome[e].exitCode = code[e]
                          /\ got[e] = Len(output[e].bytes)

\* execute returns undefined, and an error is swallowed, only if another
\* execution of the same job deleted the source file in between
\* (executor.js:175-180).
UndefinedOnlyIfShared ==
    \A e \in Execs : outcome[e] = Undefined => deprived[e]

\* When execute is over, no timer of it is left; its container is gone, unless
\* Docker refused to remove it or to tell its name; and its file is gone, unless
\* another execution has it or the file system refused to delete it or to write
\* it all (executor.js:98, 168-182).
CleanedUp ==
    \A e \in Execs :
        at[e] = "ended" =>
            /\ ~armed[e]
            /\ container[e] \in {"none", "removed"} \/ stray[e]
            /\ Path[e] \in files => \E f \in Execs :
                 Path[f] = Path[e] /\ (litter[f] \/ at[f] \notin {"idle", "ended"})

\* The live output of text is the recorded output as far as it has come, however
\* it was cut into chunks, but for carriage returns (a CR LF that is cut in two
\* keeps its CR) and for output shorter than a frame header, which is never
\* published (container-manager.js:78-96, 131-132).
LiveIsRecord ==
    \A e \in Execs :
        LET arrived == SubSeq(output[e].bytes, 1, got[e])
            record == normalizeTtyOutput(demultiplexLogs(arrived).stdout)
        IN  phase[e] = "run" /\ arrived # <<>> /\ arrived[1] \notin StreamTypes =>
              IF got[e] < HEADER THEN live[e].text = <<>>
                                 ELSE Without(live[e].text, CR) = Without(record, CR)

\* The logs of a compile that ended are what the compiler wrote on either stream
\* (container-manager.js:140-171).
LogsSplit ==
    \A e \in Execs :
        LET logs == demultiplexLogs(SubSeq(output[e].bytes, 1, got[e]))
        IN  phase[e] = "compile" /\ at[e] = "inspect" /\ code[e] \in {0, 1}
              /\ ~cut[e] =>
              logs.stdout = output[e].stdout /\ logs.stderr = output[e].stderr

\* An execution that has begun ends, also if its command never does, unless the
\* kill fails: that is only logged, and the stream is awaited for ever
\* (executor.js:40-42, container-manager.js:113-121).
ExecutionEnds ==
    \A e \in Execs : at[e] # "idle" ~> at[e] = "ended" \/ kill[e] = "failed"

=============================================================================

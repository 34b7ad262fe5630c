---------------------------- MODULE JobService -----------------------------
(***************************************************************************)
(* What the engine promises its clients about one job, without queue,      *)
(* markers, heartbeats or tables: a submitted job waits, is taken by a     *)
(* worker and is settled with one final status, which stays.  A job whose  *)
(* worker is gone goes back to the queue MAX_RETRIES times, then it has    *)
(* failed.  (README.md:96-102.)  A job may also be lost: its worker may    *)
(* go before anything names it as the owner.                               *)
(***************************************************************************)
EXTENDS Integers

CONSTANTS Jobs, MAX_RETRIES, Final, None

VARIABLES
    stage,     \* where each job is
    tries,     \* how often it has been recovered
    answer     \* the status its clients were given, None before that

vars == <<stage, tries, answer>>

Stages == {"out", "waiting", "taken", "orphan", "settled", "lost"}

Init ==
    /\ stage = [j \in Jobs |-> "out"]
    /\ tries = [j \in Jobs |-> 0]
    /\ answer = [j \in Jobs |-> None]

Move(j, from, to) == stage[j] = from /\ stage' = [stage EXCEPT ![j] = to]

Submit(j) == Move(j, "out", "waiting") /\ UNCHANGED <<tries, answer>>

Take(j) == Move(j, "waiting", "taken") /\ UNCHANGED <<tries, answer>>

\* By its worker, or when it turns out that its worker had not been gone.
Settle(j) ==
    /\ Move(j, "taken", "settled") \/ Move(j, "orphan", "settled")
    /\ \E s \in Final : answer' = [answer EXCEPT ![j] = s]
    /\ UNCHANGED tries

Abandon(j) == Move(j, "taken", "orphan") /\ UNCHANGED <<tries, answer>>

Lose(j) == Move(j, "taken", "lost") /\ UNCHANGED <<tries, answer>>

Recover(j) ==
    /\ tries[j] < MAX_RETRIES
    /\ Move(j, "orphan", "waiting")
    /\ tries' = [tries EXCEPT ![j] = @ + 1]
    /\ UNCHANGED answer

GiveUp(j) ==
    /\ tries[j] = MAX_RETRIES
    /\ Move(j, "orphan", "settled")
    /\ tries' = [tries EXCEPT ![j] = @ + 1]
    /\ answer' = [answer EXCEPT ![j] = "failed"]

Next ==
    \E j \in Jobs :
        \/ Submit(j) \/ Take(j) \/ Settle(j)
        \/ Abandon(j) \/ Recover(j) \/ GiveUp(j) \/ Lose(j)

Spec == Init /\ [][Next]_vars

=============================================================================

---------------------------- MODULE RateLimiter ----------------------------
(***************************************************************************)
(* The token bucket of one IP address: the middleware of the API processes *)
(* (api/middleware/rate-limit.js) and the Lua script it runs in Redis      *)
(* (lib/rate-limit.lua).  Buckets of different addresses share nothing.    *)
(*                                                                         *)
(* The script is atomic, but the time it works with is Date.now() of the   *)
(* process that sent it, read before the command left, while the bucket    *)
(* expires by the clock of Redis.  How long a command is on its way has no *)
(* bound: ioredis keeps it through any outage and sends it when it is      *)
(* connected again (lib/redis.js:7-9).  Time is counted in ticks of the    *)
(* slowest process's clock.  A token is WINDOW units of credit and a tick  *)
(* is worth MAX units, so that the script's fractions are integers here.   *)
(***************************************************************************)
EXTENDS Integers, Sequences

CONSTANTS
    Apis,        \* the API processes
    MAX,         \* RATE_LIMIT_MAX
    WINDOW,      \* RATE_LIMIT_WINDOW, in ticks
    SECOND,      \* ticks of a second, the unit of Retry-After
    Skew,        \* what each process's clock is ahead of the slowest one's
    MaxSkew,
    MaxClock,    \* bounds: ticks, commands in flight of a process,
    MaxInFlight, \* faults, and how far lastRefill is set back
    MaxFaults,
    MaxRegress,
    None

ASSUME RateAssumption == {MAX, WINDOW, SECOND} \subseteq Nat \ {0}
ASSUME SkewAssumption == MaxSkew \in Nat /\ Skew \in [Apis -> 0..MaxSkew]
ASSUME BoundAssumption == {MaxClock, MaxInFlight, MaxFaults, MaxRegress} \subseteq Nat
ASSUME NoneNotTime == None \notin Int

VARIABLES
    clock,       \* of Redis
    credit,      \* field tokens of rl:{ip}
    lastRefill,  \* field lastRefill of rl:{ip}
    expires,     \* when Redis deletes rl:{ip}
    inFlight,    \* for each process, the stamps of the scripts it has sent
    taken,       \* history: how many tokens the script has taken,
    regress,     \*   how far lastRefill was set back, in all,
    late,        \*   how many scripts were TooLate,
    promise,     \*   the first moment a denied client was told to come back
                 \*   at, while no token has been taken since; or None
    faults

bucketVars == <<credit, lastRefill, expires, taken, regress, late, promise>>
vars == <<clock, inFlight, faults, bucketVars>>

Full == MAX * WINDOW
Least(a, b) == IF a < b THEN a ELSE b
NonNegative(n) == IF n > 0 THEN n ELSE 0

TypeOK ==
    /\ clock \in 0..MaxClock
    /\ credit \in 0..Full
    /\ lastRefill \in Nat
    /\ expires \in Nat
    /\ inFlight \in [Apis -> Seq(Nat)]
    /\ {taken, regress, late, faults} \subseteq Nat
    /\ promise \in Int \cup {None}

Init ==
    /\ clock = 0
    /\ credit = Full /\ lastRefill = 0 /\ expires = 0
    /\ inFlight = [p \in Apis |-> <<>>]
    /\ taken = 0 /\ regress = 0 /\ late = 0
    /\ promise = None
    /\ faults = MaxFaults

-----------------------------------------------------------------------------
(* lib/rate-limit.lua                                                      *)

Exists == clock < expires

\* What the script finds once it has refilled the bucket at time now.
\* (Faulty variant: without math.min.)
Refilled_Uncapped(now) ==
    IF Exists THEN credit + MAX * NonNegative(now - lastRefill) ELSE Full

Refilled(now) ==
    IF Exists THEN Least(Full, credit + MAX * NonNegative(now - lastRefill))
              ELSE Full

\* A script finds the bucket deleted, and so full, though by its stamp it would
\* not have been full again: it was sent long before the deletion.
TooLate(now) == ~Exists /\ credit + MAX * (now - lastRefill) < Full

\* retry_after, in seconds: what is missing to one token, rounded up.
\* (Faulty variant: rounded down.)
RetryAfter_Floor(c) == 1 + NonNegative((WINDOW - c) \div (MAX * SECOND) - 1)

RetryAfter(c) == 1 + NonNegative(-((c - WINDOW) \div (MAX * SECOND)) - 1)

\* EXPIRE key ttl_seconds.  (Faulty variant: a time to live of one window.)
TimeToLive_OneWindow == WINDOW

TimeToLive == 2 * WINDOW

\* (Faulty variant: lastRefill is not written back.)
TakeToken_KeepsLastRefill(now) ==
    LET found == Refilled(now) IN
    /\ credit' = IF found >= WINDOW THEN found - WINDOW ELSE found
    /\ taken' = taken + (IF found >= WINDOW THEN 1 ELSE 0)
    /\ expires' = clock + TimeToLive
    /\ UNCHANGED <<lastRefill, regress, late, promise>>

TakeToken(now) ==
    LET found == Refilled(now)
        until == now + RetryAfter(found) * SECOND
    IN
    /\ lastRefill' = now
    /\ regress' = regress + NonNegative(lastRefill - now)
    /\ late' = late + (IF TooLate(now) THEN 1 ELSE 0)
    /\ expires' = clock + TimeToLive
    /\ \/ /\ found >= WINDOW
          /\ credit' = found - WINDOW
          /\ taken' = taken + 1
          /\ promise' = None
       \/ /\ found < WINDOW
          /\ credit' = found
          /\ promise' = IF promise = None THEN until ELSE Least(promise, until)
          /\ UNCHANGED taken

-----------------------------------------------------------------------------
(* The middleware: a request that carries the API key reads the clock and  *)
(* sends the script; the commands of a process reach Redis in their order. *)

Arrive(p) ==
    /\ Len(inFlight[p]) < MaxInFlight
    /\ regress < MaxRegress
    /\ inFlight' = [inFlight EXCEPT ![p] = Append(@, clock + Skew[p])]
    /\ UNCHANGED <<clock, faults, bucketVars>>

Settle(p) ==
    /\ inFlight[p] # <<>>
    /\ inFlight' = [inFlight EXCEPT ![p] = Tail(@)]

\* The script runs and its answer arrives: next(), or 429 with Retry-After.
Answer(p) ==
    /\ Settle(p)
    /\ TakeToken(Head(inFlight[p]))
    /\ UNCHANGED <<clock, faults>>

\* The connection breaks behind the script: its answer is lost, and ioredis
\* sends the command, stamp and all, again (lib/redis.js:7 sets no retry limit).
AnswerLost(p) ==
    /\ inFlight[p] # <<>>
    /\ faults > 0
    /\ faults' = faults - 1
    /\ TakeToken(Head(inFlight[p]))
    /\ UNCHANGED <<clock, inFlight>>

\* Redis refuses the script: fail open, next() without a token.
FailOpen(p) ==
    /\ Settle(p)
    /\ faults > 0
    /\ faults' = faults - 1
    /\ UNCHANGED <<clock, bucketVars>>

Tick ==
    /\ clock < MaxClock
    /\ clock' = clock + 1
    /\ UNCHANGED <<inFlight, faults, bucketVars>>

Next ==
    \/ Tick
    \/ \E p \in Apis : Arrive(p) \/ Answer(p) \/ AnswerLost(p) \/ FailOpen(p)

Spec == Init /\ [][Next]_vars

-----------------------------------------------------------------------------

\* The tokens taken, and so the requests the bucket lets through, are at most
\* one bucket and what time has refilled, but for the intervals credited twice
\* because a command with an older stamp set lastRefill back (rate-limit.lua:13),
\* and one more bucket for each command that was so long on its way that its
\* stamp is older than the bucket's deletion shows (rate-limit.lua:8-10).
\* A script that runs twice adds nothing to that.
RateBounded ==
    taken * WINDOW <= MAX * (WINDOW + clock + MaxSkew + regress + WINDOW * late)

\* What a script's stamp is behind the clock of the process that sent it.
Delay(p) == clock + Skew[p] - Head(inFlight[p])

\* An idle bucket that Redis has deleted would have been full for every script
\* that was on its way for no longer than a window, less the skew of the clocks:
\* the first one after the deletion finds no more than if the key were still
\* there (rate-limit.lua:8 and 25).
ExpiryHarmless ==
    \A p \in Apis : inFlight[p] # <<>> /\ Delay(p) + MaxSkew <= WINDOW
                      => ~TooLate(Head(inFlight[p]))

\* Retry-After is long enough: a script with a stamp at or past the moment a
\* client was told to come back at takes a token if no other took one since,
\* also when scripts of other processes, with other clocks, were denied in
\* between (rate-limit.lua:21).
RetryAfterSuffices ==
    \A p \in Apis :
        inFlight[p] # <<>> /\ promise # None /\ Head(inFlight[p]) >= promise
            => Refilled(Head(inFlight[p])) >= WINDOW

=============================================================================

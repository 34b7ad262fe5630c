----------------------------- MODULE RateProofs ----------------------------
(***************************************************************************)
(* The promises of the token bucket, proved for every limit, window and    *)
(* skew, and for commands that are on their way for any time.  The         *)
(* inductive invariant accounts for every token: what is in the bucket and *)
(* what was taken from it came from the first bucket, from time that was   *)
(* credited, or from a bucket that was deleted and found by a late stamp.  *)
(***************************************************************************)
EXTENDS RateLimiter, TLAPS

\* A stamp is the sender's clock, some time ago.
Stamped ==
    \A p \in Apis : \A i \in 1..Len(inFlight[p]) :
        inFlight[p][i] <= clock + Skew[p]

Accounted ==
    credit + WINDOW * taken
        <= MAX * (WINDOW + lastRefill + regress + WINDOW * late)

\* lastRefill is not far ahead of the clock, and the key outlives it by nearly
\* the two windows of its time to live.
Recent ==
    /\ lastRefill <= clock + MaxSkew
    /\ \/ lastRefill = 0 /\ credit = Full
       \/ lastRefill <= expires - 2 * WINDOW + MaxSkew

\* There is a token at the promised moment.
PromiseKept == promise # None => credit + MAX * (promise - lastRefill) >= WINDOW

RateInv == TypeOK /\ Stamped /\ Accounted /\ Recent /\ PromiseKept

-----------------------------------------------------------------------------
(* Arithmetic.                                                             *)

\* Products with a natural number are monotone.
LEMMA Monotone ==
    ASSUME NEW m \in Nat, NEW a \in Int, NEW b \in Int, a <= b
    PROVE  m * a <= m * b
  OBVIOUS

LEMMA Distributes ==
    ASSUME NEW m \in Int, NEW a \in Int, NEW b \in Int
    PROVE  m * (a + b) = m * a + m * b /\ m * (a - b) = m * a - m * b
  OBVIOUS

LEMMA Constants ==
    /\ MAX \in Nat /\ MAX >= 1 /\ WINDOW \in Nat /\ WINDOW >= 1
    /\ SECOND \in Nat /\ SECOND >= 1
    /\ MaxSkew \in Nat
    /\ \A p \in Apis : Skew[p] \in Nat /\ Skew[p] <= MaxSkew
    /\ Full \in Nat /\ Full >= WINDOW
    /\ None \notin Int
  <1>1. MAX \in Nat /\ MAX >= 1 /\ WINDOW \in Nat /\ WINDOW >= 1
        /\ SECOND \in Nat /\ SECOND >= 1
    BY RateAssumption
  <1>2. MAX * WINDOW \in Nat /\ MAX * WINDOW >= WINDOW
    BY <1>1, Monotone, 1 \in Int, MAX \in Int, WINDOW * 1 <= WINDOW * MAX
  <1> QED
    BY <1>1, <1>2, SkewAssumption, NoneNotTime DEF Full

-----------------------------------------------------------------------------
(* The bucket at the stamp now of a script.                                *)

\* ExpiryHarmless, of one stamp: 2 * WINDOW outlasts the delay and the skew.
LEMMA DeletedIsFull ==
    ASSUME RateInv, NEW p \in Apis, NEW now \in Nat, ~Exists,
           clock + Skew[p] - now + MaxSkew <= WINDOW
    PROVE  credit + MAX * (now - lastRefill) >= Full
  <1>1. credit \in Nat /\ credit <= Full /\ lastRefill \in Nat /\ clock \in Nat
        /\ expires \in Nat /\ Skew[p] \in Nat
    BY Constants DEF RateInv, TypeOK
  <1>2. CASE lastRefill = 0 /\ credit = Full
    <2>1. MAX * (now - lastRefill) >= 0
      BY <1>2, Constants, Monotone, MAX * 0 <= MAX * (now - lastRefill)
    <2> QED
      BY <1>1, <1>2, <2>1, Constants
  <1>3. CASE lastRefill <= expires - 2 * WINDOW + MaxSkew
    <2>1. now - lastRefill >= WINDOW
      BY <1>1, <1>3, Constants DEF Exists
    <2>2. MAX * WINDOW <= MAX * (now - lastRefill)
      BY <1>1, <2>1, Constants, Monotone
    <2>3. MAX * (now - lastRefill) \in Int
      BY <1>1, Constants
    <2> QED
      BY <1>1, <2>2, <2>3, Constants DEF Full
  <1> QED
    BY <1>2, <1>3 DEF RateInv, Recent

\* What the script finds fits the bucket, and exceeds what was left in it by no
\* more than the time it credits, or by one bucket if it is too late.
LEMMA RefilledBounds ==
    ASSUME RateInv, NEW now \in Nat
    PROVE  /\ Refilled(now) \in 0..Full
           /\ Refilled(now) <=
                credit + MAX * (now - lastRefill + NonNegative(lastRefill - now)
                  + WINDOW * (IF TooLate(now) THEN 1 ELSE 0))
  <1> DEFINE gained == NonNegative(now - lastRefill)
             lost == NonNegative(lastRefill - now)
             extra == WINDOW * (IF TooLate(now) THEN 1 ELSE 0)
  <1>1. credit \in Nat /\ credit <= Full /\ lastRefill \in Nat
    BY Constants DEF RateInv, TypeOK
  <1>2. gained \in Nat /\ lost \in Nat /\ gained = now - lastRefill + lost
        /\ now - lastRefill <= gained
    BY <1>1 DEF NonNegative
  <1>3. extra \in Nat /\ (TooLate(now) => extra = WINDOW)
    BY Constants
  <1>4. MAX * gained \in Nat
    BY <1>2, Constants, Monotone, MAX * 0 <= MAX * gained
  <1>5. MAX * (gained + extra) = MAX * gained + MAX * extra
    BY <1>2, <1>3, Constants, Distributes
  <1>6. MAX * extra \in Nat
    BY <1>3, Constants, Monotone, MAX * 0 <= MAX * extra
  <1>7. Refilled(now) \in 0..Full /\ Refilled(now) <= credit + MAX * (gained + extra)
    <2>1. CASE Exists
      <3>1. Refilled(now) = Least(Full, credit + MAX * gained)
        BY <2>1 DEF Refilled
      <3> HIDE DEF gained, extra
      <3> QED
        BY <1>1, <1>4, <1>5, <1>6, <3>1, Constants DEF Least
    <2>2. CASE ~Exists
      <3>1. Refilled(now) = Full
        BY <2>2 DEF Refilled
      <3>2. CASE TooLate(now)
        <4>1. MAX * extra = Full
          BY <1>3, <3>2 DEF Full
        <4> HIDE DEF gained, extra
        <4> QED
          BY <1>1, <1>4, <1>5, <3>1, <4>1, Constants
      <3>3. CASE ~TooLate(now)
        <4>1. credit + MAX * (now - lastRefill) >= Full
          BY <1>1, <2>2, <3>3, Constants DEF TooLate
        <4>2. MAX * (now - lastRefill) <= MAX * gained
          BY <1>1, <1>2, Constants, Monotone
        <4>3. MAX * (now - lastRefill) \in Int
          BY <1>1, Constants
        <4> HIDE DEF gained, extra
        <4> QED
          BY <1>1, <1>4, <1>5, <1>6, <3>1, <4>1, <4>2, <4>3, Constants
      <3> QED
        BY <3>2, <3>3
    <2> QED
      BY <2>1, <2>2
  <1> QED
    BY <1>2, <1>7

\* PromiseKept, at a stamp that is past the promised moment.
LEMMA PromiseFulfilled ==
    ASSUME RateInv, NEW now \in Nat, promise # None, now >= promise
    PROVE  Refilled(now) >= WINDOW
  <1>1. credit \in Nat /\ lastRefill \in Nat /\ promise \in Int
    BY Constants DEF RateInv, TypeOK
  <1>2. CASE ~Exists
    BY <1>2, Constants DEF Refilled
  <1>3. CASE Exists
    <2> DEFINE gained == NonNegative(now - lastRefill)
    <2>1. gained \in Nat /\ promise - lastRefill <= gained
      BY <1>1 DEF NonNegative
    <2>2. MAX * (promise - lastRefill) <= MAX * gained
      BY <1>1, <2>1, Constants, Monotone
    <2>3. MAX * (promise - lastRefill) \in Int /\ MAX * gained \in Int
      BY <1>1, <2>1, Constants
    <2>4. credit + MAX * gained >= WINDOW
      BY <1>1, <2>2, <2>3, Constants DEF RateInv, PromiseKept
    <2>5. Refilled(now) = Least(Full, credit + MAX * gained)
      BY <1>3 DEF Refilled
    <2> QED
      BY <1>1, <2>3, <2>4, <2>5, Constants DEF Least
  <1> QED
    BY <1>2, <1>3

\* retry_after covers what is missing to one token.
LEMMA RetryAfterCovers ==
    ASSUME NEW c \in Nat
    PROVE  /\ RetryAfter(c) \in Nat
           /\ MAX * (RetryAfter(c) * SECOND) >= WINDOW - c
  <1> DEFINE unit == MAX * SECOND
             d == (c - WINDOW) \div unit
  <1>1. unit \in Nat /\ unit >= 1
    BY Constants, Monotone, MAX * 1 <= MAX * SECOND
  <1>2. d \in Int /\ unit * d <= c - WINDOW
    BY <1>1, Constants
  <1>3. RetryAfter(c) \in Nat /\ RetryAfter(c) >= -d
    BY <1>2 DEF RetryAfter, NonNegative
  <1>4. unit * (-d) <= unit * RetryAfter(c)
    BY <1>1, <1>2, <1>3, Monotone
  <1>5. unit * (-d) = -(unit * d)
    BY <1>1, <1>2
  <1>6. unit * RetryAfter(c) = MAX * (RetryAfter(c) * SECOND)
    BY <1>3, Constants
  <1>7. unit * d \in Int /\ unit * RetryAfter(c) \in Int
    BY <1>1, <1>2, <1>3
  <1> QED
    BY <1>2, <1>3, <1>4, <1>5, <1>6, <1>7, Constants

-----------------------------------------------------------------------------
(* The script keeps the accounts.                                          *)

LEMMA ScriptKeepsAccounts ==
    ASSUME RateInv, NEW now \in Nat, now <= clock + MaxSkew, TakeToken(now),
           clock' = clock
    PROVE  /\ credit' \in 0..Full /\ lastRefill' \in Nat /\ expires' \in Nat
           /\ taken' \in Nat /\ regress' \in Nat /\ late' \in Nat
           /\ promise' \in Int \cup {None}
           /\ Accounted' /\ Recent' /\ PromiseKept'
  <1> DEFINE found == Refilled(now)
             setBack == NonNegative(lastRefill - now)
             one == IF TooLate(now) THEN 1 ELSE 0
             until == now + RetryAfter(found) * SECOND
  <1>1. /\ credit \in Nat /\ credit <= Full /\ lastRefill \in Nat /\ clock \in Nat
        /\ expires \in Nat /\ taken \in Nat /\ regress \in Nat /\ late \in Nat
        /\ promise \in Int \cup {None}
    BY Constants DEF RateInv, TypeOK
  <1>2. /\ lastRefill' = now /\ regress' = regress + setBack
        /\ late' = late + one
        /\ expires' = clock + 2 * WINDOW
        /\ \/ found >= WINDOW /\ credit' = found - WINDOW /\ taken' = taken + 1
              /\ promise' = None
           \/ found < WINDOW /\ credit' = found /\ taken' = taken
              /\ promise' = IF promise = None THEN until ELSE Least(promise, until)
    BY DEF TakeToken, TimeToLive
  <1>3. /\ found \in Nat /\ found <= Full
        /\ found <= credit + MAX * (now - lastRefill + setBack + WINDOW * one)
    BY RefilledBounds, Constants
  <1>4. setBack \in Nat /\ one \in {0, 1}
    BY <1>1 DEF NonNegative
  <1>5. until \in Nat /\ MAX * (until - now) >= WINDOW - found
    <2>1. RetryAfter(found) \in Nat /\ MAX * (RetryAfter(found) * SECOND) >= WINDOW - found
      BY <1>3, RetryAfterCovers
    <2>2. RetryAfter(found) * SECOND \in Nat
      BY <2>1, Constants, Monotone,
         RetryAfter(found) * 0 <= RetryAfter(found) * SECOND
    <2>3. until - now = RetryAfter(found) * SECOND
      BY <2>2
    <2> HIDE DEF until
    <2> QED
      BY <2>1, <2>2, <2>3 DEF until
  <1> HIDE DEF found, setBack, one, until
  <1>6. /\ credit' \in 0..Full /\ lastRefill' \in Nat /\ expires' \in Nat
        /\ taken' \in Nat /\ regress' \in Nat /\ late' \in Nat
        /\ promise' \in Int \cup {None}
    BY <1>1, <1>2, <1>3, <1>4, <1>5, Constants DEF Least
  <1>7. Accounted'
    <2> DEFINE before == WINDOW + lastRefill + regress + WINDOW * late
               gained == now - lastRefill + setBack + WINDOW * one
               after == WINDOW + now + (regress + setBack) + WINDOW * (late + one)
    <2>1. before \in Int /\ gained \in Int /\ after = before + gained
      <3>1. WINDOW * (late + one) = WINDOW * late + WINDOW * one
        BY <1>1, <1>4, Constants, Distributes
      <3>2. WINDOW * late \in Int /\ WINDOW * one \in Int
        BY <1>1, <1>4, Constants
      <3> QED
        BY <1>1, <1>4, <3>1, <3>2, Constants
    <2>2. MAX * after = MAX * before + MAX * gained
      BY <2>1, Constants, Distributes
    <2>3. credit + WINDOW * taken <= MAX * before
      BY DEF RateInv, Accounted
    <2>4. MAX * before \in Int /\ MAX * gained \in Int /\ WINDOW * taken \in Int
      BY <1>1, <2>1, Constants
    <2>5. WINDOW * (taken + 1) = WINDOW * taken + WINDOW
      BY <1>1, Constants
    <2>6. found + WINDOW * taken <= MAX * after
      BY <1>1, <1>3, <2>2, <2>3, <2>4
    <2>7. MAX * (WINDOW + lastRefill' + regress' + WINDOW * late') = MAX * after
      BY <1>2
    <2> HIDE DEF before, gained, after
    <2> QED
      BY <1>1, <1>2, <1>3, <2>2, <2>4, <2>5, <2>6, <2>7, Constants DEF Accounted
  <1>8. Recent'
    BY <1>1, <1>2, Constants DEF Recent
  <1>9. PromiseKept'
    <2>1. CASE promise' = None
      BY <2>1 DEF PromiseKept
    <2>2. CASE promise' # None
      <3>1. found < WINDOW /\ credit' = found
            /\ promise' = IF promise = None THEN until ELSE Least(promise, until)
        BY <1>2, <2>2
      <3>2. CASE promise' = until
        BY <1>2, <1>3, <1>5, <3>1, <3>2, Constants DEF PromiseKept
      <3>3. CASE promise # None /\ promise' = promise
        <4>1. promise \in Int /\ credit + MAX * (promise - lastRefill) >= WINDOW
          BY <1>1, <3>3 DEF RateInv, PromiseKept
        <4>2. Exists /\ found = credit + MAX * NonNegative(now - lastRefill)
          BY <3>1, Constants DEF found, Refilled, Least
        <4>3. NonNegative(now - lastRefill) \in Int
              /\ promise - lastRefill <= NonNegative(now - lastRefill) + (promise - now)
          BY <1>1, <4>1 DEF NonNegative
        <4>4. MAX * (promise - lastRefill)
                <= MAX * NonNegative(now - lastRefill) + MAX * (promise - now)
          BY <1>1, <4>1, <4>3, Constants, Monotone, Distributes
        <4>5. credit + MAX * NonNegative(now - lastRefill) + MAX * (promise - now) >= WINDOW
          BY <1>1, <4>1, <4>3, <4>4, Constants
        <4> QED
          BY <1>2, <3>1, <3>3, <4>2, <4>5 DEF PromiseKept
      <3> QED
        BY <3>1, <3>2, <3>3 DEF Least
    <2> QED
      BY <2>1, <2>2
  <1> QED
    BY <1>6, <1>7, <1>8, <1>9

-----------------------------------------------------------------------------
(* The steps.                                                              *)

LEMMA HeadIsStamp ==
    ASSUME RateInv, NEW p \in Apis, inFlight[p] # <<>>
    PROVE  Head(inFlight[p]) \in Nat /\ Head(inFlight[p]) <= clock + MaxSkew
  <1>1. inFlight[p] \in Seq(Nat) /\ clock \in Nat
    BY Constants DEF RateInv, TypeOK
  <1>2. Len(inFlight[p]) >= 1 /\ Head(inFlight[p]) = inFlight[p][1]
        /\ Head(inFlight[p]) \in Nat
    BY <1>1
  <1>3. inFlight[p][1] <= clock + Skew[p]
    BY <1>1, <1>2 DEF RateInv, Stamped
  <1>4. Skew[p] \in Nat /\ Skew[p] <= MaxSkew /\ MaxSkew \in Nat
    BY Constants
  <1> QED
    BY <1>1, <1>2, <1>3, <1>4

\* A command that leaves leaves the others as they were.
LEMMA SettleKeepsStamps ==
    ASSUME RateInv, NEW p \in Apis, Settle(p), clock' = clock
    PROVE  inFlight' \in [Apis -> Seq(Nat)] /\ Stamped'
  <1>1. inFlight \in [Apis -> Seq(Nat)] /\ inFlight[p] # <<>>
        /\ inFlight' = [inFlight EXCEPT ![p] = Tail(@)]
    BY DEF RateInv, TypeOK, Settle
  <1>2. Tail(inFlight[p]) \in Seq(Nat) /\ Len(Tail(inFlight[p])) = Len(inFlight[p]) - 1
        /\ \A i \in 1..Len(Tail(inFlight[p])) : Tail(inFlight[p])[i] = inFlight[p][i + 1]
    BY <1>1
  <1>3. inFlight' \in [Apis -> Seq(Nat)]
    BY <1>1, <1>2
  <1>4. ASSUME NEW q \in Apis, NEW i \in 1..Len(inFlight'[q])
        PROVE  \E k \in 1..Len(inFlight[q]) : inFlight'[q][i] = inFlight[q][k]
    <2>1. CASE q = p
      <3>1. inFlight'[q] = Tail(inFlight[p])
        BY <1>1, <2>1
      <3>2. i + 1 \in 1..Len(inFlight[p])
        BY <1>1, <1>2, <3>1
      <3> QED
        BY <1>2, <2>1, <3>1, <3>2
    <2>2. CASE q # p
      BY <1>1, <2>2
    <2> QED
      BY <2>1, <2>2
  <1>5. Stamped'
    BY <1>4 DEF RateInv, Stamped
  <1> QED
    BY <1>3, <1>5

LEMMA ArriveKeepsInv ==
    ASSUME RateInv, NEW p \in Apis, Arrive(p)
    PROVE  RateInv'
  <1>1. inFlight \in [Apis -> Seq(Nat)] /\ clock \in Nat /\ clock' = clock
        /\ inFlight' = [inFlight EXCEPT ![p] = Append(@, clock + Skew[p])]
    BY Constants DEF RateInv, TypeOK, Arrive
  <1>2. clock + Skew[p] \in Nat
    BY <1>1, Constants
  <1>3. inFlight' \in [Apis -> Seq(Nat)]
    BY <1>1, <1>2
  <1>4. TypeOK'
    BY <1>3 DEF RateInv, TypeOK, Arrive, bucketVars, Full
  <1>5. Stamped'
    <2> SUFFICES ASSUME NEW q \in Apis, NEW i \in 1..Len(inFlight'[q])
                 PROVE  inFlight'[q][i] <= clock + Skew[q]
      BY <1>1 DEF Stamped
    <2>1. CASE i \in 1..Len(inFlight[q]) /\ inFlight'[q][i] = inFlight[q][i]
      BY <2>1 DEF RateInv, Stamped
    <2>2. CASE q = p /\ inFlight'[q][i] = clock + Skew[p]
      BY <1>1, <2>2, Constants
    <2> QED
      BY <1>1, <1>2, <2>1, <2>2
  <1>6. Accounted' /\ Recent' /\ PromiseKept'
    BY DEF RateInv, Accounted, Recent, PromiseKept, Arrive, bucketVars, Full
  <1> QED
    BY <1>4, <1>5, <1>6 DEF RateInv

LEMMA TickKeepsInv ==
    ASSUME RateInv, Tick
    PROVE  RateInv'
  <1>1. /\ clock \in Nat /\ clock' = clock + 1 /\ inFlight' = inFlight
        /\ inFlight \in [Apis -> Seq(Nat)] /\ lastRefill \in Nat
    BY Constants DEF RateInv, TypeOK, Tick
  <1>2. TypeOK'
    BY BoundAssumption DEF RateInv, TypeOK, Tick, bucketVars, Full
  <1>3. Stamped'
    <2> SUFFICES ASSUME NEW p \in Apis, NEW i \in 1..Len(inFlight[p])
                 PROVE  inFlight[p][i] <= clock + 1 + Skew[p]
      BY <1>1 DEF Stamped
    <2>1. inFlight[p][i] \in Nat /\ inFlight[p][i] <= clock + Skew[p]
      BY <1>1 DEF RateInv, Stamped
    <2>2. Skew[p] \in Nat
      BY Constants
    <2> QED
      BY <1>1, <2>1, <2>2
  <1>4. Recent'
    BY <1>1, Constants DEF RateInv, Recent, Tick, bucketVars, Full
  <1>5. Accounted' /\ PromiseKept'
    BY DEF RateInv, Accounted, PromiseKept, Tick, bucketVars
  <1> QED
    BY <1>2, <1>3, <1>4, <1>5 DEF RateInv

LEMMA ScriptKeepsInv ==
    ASSUME RateInv, NEW p \in Apis, Answer(p) \/ AnswerLost(p)
    PROVE  RateInv'
  <1>1. inFlight[p] # <<>> /\ TakeToken(Head(inFlight[p])) /\ clock' = clock
    BY DEF Answer, AnswerLost, Settle
  <1>2. Head(inFlight[p]) \in Nat /\ Head(inFlight[p]) <= clock + MaxSkew
    BY <1>1, HeadIsStamp
  <1>3. /\ credit' \in 0..Full /\ lastRefill' \in Nat /\ expires' \in Nat
        /\ taken' \in Nat /\ regress' \in Nat /\ late' \in Nat
        /\ promise' \in Int \cup {None}
        /\ Accounted' /\ Recent' /\ PromiseKept'
    BY <1>1, <1>2, ScriptKeepsAccounts
  <1>4. faults' \in Nat
    BY DEF RateInv, TypeOK, Answer, AnswerLost
  <1>5. inFlight' \in [Apis -> Seq(Nat)] /\ Stamped'
    <2>1. CASE Answer(p)
      BY <1>1, <2>1, SettleKeepsStamps DEF Answer
    <2>2. CASE AnswerLost(p)
      BY <1>1, <2>2 DEF RateInv, TypeOK, Stamped, AnswerLost
    <2> QED
      BY <2>1, <2>2
  <1>6. TypeOK'
    BY <1>1, <1>3, <1>4, <1>5 DEF RateInv, TypeOK, Full
  <1> QED
    BY <1>3, <1>5, <1>6 DEF RateInv

LEMMA FailOpenKeepsInv ==
    ASSUME RateInv, NEW p \in Apis, FailOpen(p)
    PROVE  RateInv'
  <1>1. inFlight' \in [Apis -> Seq(Nat)] /\ Stamped'
    BY SettleKeepsStamps DEF FailOpen
  <1>2. TypeOK'
    BY <1>1 DEF RateInv, TypeOK, FailOpen, bucketVars, Full
  <1>3. Accounted' /\ Recent' /\ PromiseKept'
    BY DEF RateInv, Accounted, Recent, PromiseKept, FailOpen, bucketVars, Full
  <1> QED
    BY <1>1, <1>2, <1>3 DEF RateInv

-----------------------------------------------------------------------------

\* The inductive invariant holds in every state of the limiter: of the script,
\* of what is on its way to it, and of the clocks.
THEOREM RateInvariant == Spec => []RateInv
  <1>1. Init => RateInv
    <2> SUFFICES ASSUME Init PROVE RateInv
      OBVIOUS
    <2>1. TypeOK
      BY Constants, BoundAssumption DEF Init, TypeOK
    <2>2. Stamped
      BY DEF Init, Stamped
    <2>3. Accounted
      BY Constants DEF Init, Accounted, Full
    <2>4. Recent /\ PromiseKept
      BY Constants DEF Init, Recent, PromiseKept
    <2> QED
      BY <2>1, <2>2, <2>3, <2>4 DEF RateInv
  <1>2. RateInv /\ [Next]_vars => RateInv'
    <2> SUFFICES ASSUME RateInv, [Next]_vars PROVE RateInv'
      OBVIOUS
    <2>1. CASE Tick
      BY <2>1, TickKeepsInv
    <2>2. ASSUME NEW p \in Apis, Arrive(p) PROVE RateInv'
      BY <2>2, ArriveKeepsInv
    <2>3. ASSUME NEW p \in Apis, Answer(p) \/ AnswerLost(p) PROVE RateInv'
      BY <2>3, ScriptKeepsInv
    <2>4. ASSUME NEW p \in Apis, FailOpen(p) PROVE RateInv'
      BY <2>4, FailOpenKeepsInv
    <2>5. CASE UNCHANGED vars
      BY <2>5 DEF vars, bucketVars, RateInv, TypeOK, Stamped, Accounted, Recent,
                  PromiseKept, Full
    <2> QED
      BY <2>1, <2>2, <2>3, <2>4, <2>5 DEF Next
  <1> QED
    BY <1>1, <1>2, PTL DEF Spec

\* Every variable of the limiter keeps its type; the bucket never overflows.
THEOREM RateTypeCorrect == Spec => []TypeOK
  BY RateInvariant, PTL DEF RateInv

\* Whatever the clocks, the delays and the repetitions, the requests that passed
\* are bounded by the bucket, the time that passed, what was credited twice, and
\* a bucket for each command that came too late to see what it had deleted.
THEOREM RateIsBounded == Spec => []RateBounded
  <1>1. RateInv => RateBounded
    <2> SUFFICES ASSUME RateInv PROVE RateBounded
      OBVIOUS
    <2>1. /\ credit \in Nat /\ lastRefill \in Nat /\ clock \in Nat /\ taken \in Nat
          /\ regress \in Nat /\ late \in Nat /\ lastRefill <= clock + MaxSkew
      BY Constants DEF RateInv, TypeOK, Recent
    <2> DEFINE once == WINDOW + lastRefill + regress + WINDOW * late
               allowed == WINDOW + clock + MaxSkew + regress + WINDOW * late
    <2>4. once \in Int /\ allowed \in Int /\ once <= allowed
      <3>1. WINDOW * late \in Int
        BY <2>1, Constants
      <3> QED
        BY <2>1, <3>1, Constants
    <2>2. MAX * once <= MAX * allowed
      BY <2>4, Constants, Monotone
    <2>3. MAX * once \in Int /\ MAX * allowed \in Int
          /\ WINDOW * taken \in Int /\ WINDOW * taken = taken * WINDOW
      BY <2>1, Constants
    <2> QED
      BY <2>1, <2>2, <2>3 DEF RateInv, Accounted, RateBounded
  <1> QED
    BY <1>1, RateInvariant, PTL

\* The time to live of twice the window never deletes a bucket that is not full
\* for a script that was on its way for no longer than a window less the skew.
THEOREM DeletionIsHarmless == Spec => []ExpiryHarmless
  <1>1. RateInv => ExpiryHarmless
    <2> SUFFICES ASSUME RateInv, NEW p \in Apis, inFlight[p] # <<>>,
                        Delay(p) + MaxSkew <= WINDOW, ~Exists
                 PROVE  ~(credit + MAX * (Head(inFlight[p]) - lastRefill) < Full)
      BY DEF ExpiryHarmless, TooLate
    <2>1. Head(inFlight[p]) \in Nat
      BY HeadIsStamp
    <2>2. credit + MAX * (Head(inFlight[p]) - lastRefill) >= Full
      BY <2>1, DeletedIsFull DEF Delay
    <2>3. MAX * (Head(inFlight[p]) - lastRefill) \in Int /\ credit \in Nat
      BY <2>1, Constants DEF RateInv, TypeOK
    <2> QED
      BY <2>2, <2>3, Constants
  <1> QED
    BY <1>1, RateInvariant, PTL

\* A client that comes back when it was told to finds a token, unless another
\* request took one.
THEOREM RetryAfterIsEnough == Spec => []RetryAfterSuffices
  <1>1. RateInv => RetryAfterSuffices
    BY HeadIsStamp, PromiseFulfilled DEF RetryAfterSuffices
  <1> QED
    BY <1>1, RateInvariant, PTL

=============================================================================

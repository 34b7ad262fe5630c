------------------------------ MODULE Metrics ------------------------------
(***************************************************************************)
(* The duration histogram of one language and status (lib/metrics.js):     *)
(* workers add to it key by key, one awaited INCR after the other, while   *)
(* GET /metrics of the API reads it key by key.  Nothing makes either      *)
(* atomic, a worker may die half-way, and ioredis repeats an INCR whose    *)
(* answer was lost.  Series of other labels are other keys.                *)
(*                                                                         *)
(* Keys are numbered in the order in which a worker adds to them: the sum, *)
(* the count, the buckets by their upper bound, and +Inf.  A duration is   *)
(* the number of the first bucket that holds it.                           *)
(***************************************************************************)
EXTENDS Integers, FiniteSets

CONSTANTS
    Workers,
    Buckets,          \* how many bounds HISTOGRAM_BUCKETS has
    MaxObservations,  \* bounds: jobs measured, workers that die doing so,
    MaxDeaths,        \* answers lost, and scrapes
    MaxResent,
    MaxScrapes

ASSUME BucketsAssumption == Buckets \in Nat \ {0}
ASSUME WorkersAssumption == IsFiniteSet(Workers)
ASSUME BoundsAssumption == {MaxObservations, MaxDeaths, MaxResent, MaxScrapes} \subseteq Nat

Sum == -1
Count == 0
Les == 1..Buckets
Inf == Buckets + 1
Idle == Buckets + 2      \* a worker that is not in recordDuration
Rendered == Buckets + 2  \* the reply of the last scrape is complete
Keys == Sum..Inf

VARIABLES
    value,     \* the histogram: how many observations each key counts
    at,        \* the key each worker adds to next
    dur,       \* the duration it records
    reading,   \* the key GET /metrics reads next
    shown,     \* what it has read (0: not read, or not there)
    begun,     \* history: how many observations began that each bucket is to hold,
    died,      \*   how many workers died in one,
    resent,    \*   how many commands ran twice,
    overlap,   \*   how many observations were under way during the scrape,
    scrapes    \*   and how many scrapes there were

writeVars == <<value, at, dur, begun, died, resent>>
readVars == <<reading, shown, scrapes>>
vars == <<writeVars, readVars, overlap>>

Fresh == [k \in Keys |-> 0]
Recording == {w \in Workers : at[w] # Idle}

TypeOK ==
    /\ value \in [Keys -> Nat]
    /\ at \in [Workers -> Keys \cup {Idle}]
    /\ dur \in [Workers -> Les \cup {Inf}]
    /\ reading \in {Count, Sum, Rendered} \cup Les
    /\ shown \in [Keys -> Nat]
    /\ begun \in [Les \cup {Inf} -> 0..MaxObservations]
    /\ died \in 0..MaxDeaths /\ resent \in 0..MaxResent
    /\ overlap \in 0..MaxObservations /\ scrapes \in 0..MaxScrapes

Init ==
    /\ value = Fresh /\ shown = Fresh
    /\ at = [w \in Workers |-> Idle]
    /\ dur = [w \in Workers |-> Inf]
    /\ reading = Rendered
    /\ begun = [b \in Les \cup {Inf} |-> 0]
    /\ died = 0 /\ resent = 0 /\ overlap = 0 /\ scrapes = 0

-----------------------------------------------------------------------------
(* recordDuration                                                          *)

\* The first bucket whose bound is at least the duration.
\* (Faulty variant: durationMs < le.)
FirstBucket_Strict(d) == IF d = Inf THEN Inf ELSE d + 1

FirstBucket(d) == d

\* The key a worker adds to first.  (Faulty variant: the sum is left out.)
First_SkipsSum == Count

First == Sum

\* The key after k.  (Faulty variants: the count comes last; the loop ends with
\* the first bucket that holds the duration.)
After_CountLast(k, d) ==
    CASE k = Sum -> FirstBucket(d) [] k = Inf -> Count [] k = Count -> Idle
      [] OTHER -> k + 1
After_OneBucket(k, d) ==
    CASE k = Sum -> Count [] k = Count -> FirstBucket(d) [] k = Inf -> Idle
      [] OTHER -> Inf

After(k, d) == IF k = Count THEN FirstBucket(d) ELSE k + 1

\* A job has ended and its worker records how long it took.
Observe(w, d) ==
    /\ at[w] = Idle
    /\ begun[Inf] < MaxObservations
    /\ at' = [at EXCEPT ![w] = First]
    /\ dur' = [dur EXCEPT ![w] = d]
    /\ begun' = [b \in Les \cup {Inf} |-> IF d <= b THEN begun[b] + 1 ELSE begun[b]]
    /\ overlap' = IF reading = Rendered THEN overlap ELSE overlap + 1
    /\ UNCHANGED <<value, died, resent, readVars>>

Add(w) ==
    /\ at[w] # Idle
    /\ value' = [value EXCEPT ![at[w]] = @ + 1]
    /\ UNCHANGED <<dur, begun, died, overlap, readVars>>

Increment(w) ==
    /\ Add(w)
    /\ at' = [at EXCEPT ![w] = After(@, dur[w])]
    /\ UNCHANGED resent

\* The command has run, but its answer is lost and it will be sent again.
AnswerLost(w) ==
    /\ resent < MaxResent
    /\ Add(w)
    /\ resent' = resent + 1
    /\ UNCHANGED at

Die(w) ==
    /\ at[w] # Idle
    /\ died < MaxDeaths
    /\ died' = died + 1
    /\ at' = [at EXCEPT ![w] = Idle]
    /\ UNCHANGED <<value, dur, begun, resent, overlap, readVars>>

-----------------------------------------------------------------------------
(* renderDurationMetric                                                    *)

Scrape ==
    /\ reading = Rendered
    /\ scrapes < MaxScrapes
    /\ scrapes' = scrapes + 1
    /\ reading' = Count
    /\ shown' = Fresh
    /\ overlap' = Cardinality(Recording)
    /\ UNCHANGED writeVars

\* if (!countRaw) continue; then sum, and the buckets in order.
\* (Faulty variant: the loop runs one bound too far.)
NextRead_OffByOne(k) ==
    CASE k = Count -> IF value[Count] = 0 THEN Rendered ELSE Sum
      [] k = Sum -> 1
      [] OTHER -> k + 1

NextRead(k) ==
    CASE k = Count -> IF value[Count] = 0 THEN Rendered ELSE Sum
      [] k = Sum -> 1
      [] k = Buckets -> Rendered
      [] OTHER -> k + 1

\* One GET.  (The line of +Inf repeats the count.)
Read ==
    /\ reading # Rendered
    /\ shown' = [shown EXCEPT ![reading] = value[reading]]
    /\ reading' = NextRead(reading)
    /\ UNCHANGED <<writeVars, scrapes, overlap>>

Next ==
    \/ \E w \in Workers :
         \/ \E d \in Les \cup {Inf} : Observe(w, d)
         \/ Increment(w) \/ AnswerLost(w) \/ Die(w)
    \/ Scrape \/ Read

Spec == Init /\ [][Next]_vars

-----------------------------------------------------------------------------

\* The stored histogram is cumulative, as Prometheus requires, but for the
\* observations that are between two of their keys, those a death has left
\* there, and the INCRs that ran twice: no key counts more than one before it
\* beyond those that ran twice, and none lacks more than those on their way.
StoredCumulative ==
    /\ value[Count] <= value[Sum] + resent
    /\ \A b \in Les \cup {Inf} :
         /\ value[b] <= value[Count] + resent
         /\ begun[b] <= value[b] + Cardinality(Recording) + died

\* What one scrape shows is out of step by no more than what happened while it
\* ran: a bucket exceeds the count (which +Inf repeats), or a bucket of a larger
\* bound, by at most the observations under way during the scrape, those cut
\* short before, and the INCRs that ran twice (metrics.js:115-127 reads with one
\* GET per key what 85-93 writes with one INCR per key).
ScrapeSkewBounded ==
    reading = Rendered =>
        \A b \in Les :
            /\ shown[b] <= shown[Count] + overlap + resent
            /\ \A c \in b..Buckets :
                 shown[b] <= shown[c] + overlap + died + resent

\* The sum shown covers at least the observations counted, so that sum / count
\* never lacks one: it is added first (metrics.js:85) and read second (119).
SumCoversCount ==
    reading = Rendered => shown[Count] <= shown[Sum] + resent

\* A scrape that no observation overlaps, after none was cut short or repeated,
\* shows exactly the durations observed: each bucket those up to and with its
\* bound.
QuietScrapeExact ==
    reading = Rendered /\ scrapes > 0 /\ overlap + died + resent = 0 =>
        /\ shown[Count] = shown[Sum]
        /\ \A b \in Les : shown[Count] = begun[Inf] => shown[b] = begun[b]

=============================================================================

--------------------------- MODULE MetricsProofs ---------------------------
(***************************************************************************)
(* How wrong an exposition of the histogram can be, proved for any number  *)
(* of workers, buckets, observations, deaths, repeated commands and        *)
(* scrapes.                                                                *)
(*                                                                         *)
(* Two keys of the histogram differ by the workers that have added to one  *)
(* and not yet to the other, up to deaths and repeated commands: Stored    *)
(* counts these workers, key by key.  Exposed relates what a scrape has    *)
(* read so far to what is still to be read: every worker that gets from    *)
(* one key to another meanwhile is counted by overlap.                     *)
(***************************************************************************)
EXTENDS Metrics, FiniteSetTheorems, TLAPS

Bounds == Les \cup {Inf}

\* The workers between two keys: those that have added to the sum and not to the
\* count, that have not added to the count, that have counted and not added to
\* the bucket b though they are to, that are still to add to b, and that are
\* past b and not past c.
Summed == {w \in Workers : at[w] = Count}
Uncounted == {w \in Workers : at[w] <= Count}
Owed(b) == {w \in Workers : Count < at[w] /\ at[w] <= b /\ dur[w] <= b}
Due(b) == {w \in Workers : at[w] <= b /\ dur[w] <= b}
Between(b, c) == {w \in Workers : b < at[w] /\ at[w] <= c}

Exact ==
    died + resent = 0 =>
        /\ value[Sum] = value[Count] + Cardinality(Summed)
        /\ begun[Inf] = value[Count] + Cardinality(Uncounted)
        /\ \A b \in Bounds : begun[b] = value[b] + Cardinality(Due(b))

Stored ==
    /\ \A w \in Workers : at[w] \in Bounds => dur[w] <= at[w]
    /\ \A b \in Bounds : begun[b] <= begun[Inf]
    /\ Cardinality(Recording) <= begun[Inf] /\ overlap <= begun[Inf]
    /\ value[Count] + Cardinality(Summed) <= value[Sum] + resent
    /\ \A b \in Bounds :
         /\ value[b] + Cardinality(Owed(b)) <= value[Count] + resent
         /\ begun[b] <= value[b] + Cardinality(Due(b)) + died
    /\ \A b, c \in Bounds : b <= c =>
         value[b] <= value[c] + Cardinality(Between(b, c)) + died + resent
    /\ Exact

\* Those that may still add to b without being in the count that was read.
Late(b) == Uncounted \cup Owed(b)

\* A key that is still to be read counts with what it holds by now.
Seen(k, unread) == IF unread THEN value[k] ELSE shown[k]

Quiet == overlap + died + resent = 0

Exposed ==
    /\ reading # Rendered => Cardinality(Recording) <= overlap
    /\ reading = Count => shown[Count] = 0 /\ shown[Sum] = 0
    /\ \A b \in Les : reading <= b => shown[b] = 0
    /\ reading # Count => shown[Count] <= Seen(Sum, reading = Sum) + resent
    /\ \A b \in Les :
         /\ reading \in {Sum} \cup Les =>
              value[b] + Cardinality(Late(b)) <= shown[Count] + overlap + resent
         /\ shown[b] <= shown[Count] + overlap + resent
    /\ \A b, c \in Les : b <= c =>
         shown[b] <= Seen(c, reading <= c) + overlap + died + resent

\* A scrape that nothing disturbs reads what is there, and what is there is exact.
Undisturbed ==
    Quiet =>
        /\ reading \in {Sum} \cup Les =>
             /\ shown[Count] = value[Count]
             /\ reading # Sum => shown[Sum] = value[Sum]
             /\ \A b \in Les : b < reading => shown[b] = value[b]
        /\ reading = Rendered =>
             /\ shown[Count] = shown[Sum] /\ shown[Count] <= begun[Inf]
             /\ shown[Count] = begun[Inf] => \A b \in Les : shown[b] = begun[b]

MetricsInv == TypeOK /\ Stored /\ Exposed /\ Undisturbed

-----------------------------------------------------------------------------
(* Numbers and cardinalities.                                              *)

LEMMA KeyNumbers ==
    /\ Buckets \in Nat /\ Buckets >= 1
    /\ Sum = -1 /\ Count = 0 /\ Inf = Buckets + 1 /\ Idle = Buckets + 2
    /\ Rendered = Buckets + 2
    /\ \A k : k \in Les <=> k \in Int /\ 1 <= k /\ k <= Buckets
    /\ \A k : k \in Bounds <=> k \in Int /\ 1 <= k /\ k <= Inf
    /\ \A k : k \in Keys <=> k \in Int /\ Sum <= k /\ k <= Inf
    /\ {MaxObservations, MaxDeaths, MaxResent, MaxScrapes} \subseteq Nat
  BY BucketsAssumption, BoundsAssumption
  DEF Sum, Count, Inf, Idle, Rendered, Les, Bounds, Keys

LEMMA Sized ==
    ASSUME NEW S \in SUBSET Workers
    PROVE  IsFiniteSet(S) /\ Cardinality(S) \in Nat
  BY FS_Subset, FS_CardinalityType, WorkersAssumption

LEMMA SmallerSized ==
    ASSUME NEW S \in SUBSET Workers, NEW T \in SUBSET S
    PROVE  Cardinality(T) <= Cardinality(S)
  BY FS_Subset, Sized

\* Two sets of workers that differ in one worker at most.
LEMMA Recount ==
    ASSUME NEW S \in SUBSET Workers, NEW T \in SUBSET Workers, NEW w,
           S \ {w} = T \ {w}
    PROVE  Cardinality(T) = Cardinality(S) + (IF w \in T THEN 1 ELSE 0)
                                           - (IF w \in S THEN 1 ELSE 0)
  <1>1. IsFiniteSet(S) /\ IsFiniteSet(T) /\ Cardinality(S) \in Nat /\ Cardinality(T) \in Nat
    BY Sized
  <1>2. Cardinality(S \ {w}) = IF w \in S THEN Cardinality(S) - 1 ELSE Cardinality(S)
    BY <1>1, FS_RemoveElement
  <1>3. Cardinality(T \ {w}) = IF w \in T THEN Cardinality(T) - 1 ELSE Cardinality(T)
    BY <1>1, FS_RemoveElement
  <1>4. Cardinality(S \ {w}) = Cardinality(T \ {w})
    OBVIOUS
  <1>5. CASE w \in S
    BY <1>1, <1>2, <1>3, <1>4, <1>5
  <1>6. CASE w \notin S
    BY <1>1, <1>2, <1>3, <1>4, <1>6
  <1> QED
    BY <1>5, <1>6

LEMMA SetsSized ==
    /\ Cardinality(Recording) \in Nat
    /\ Cardinality(Summed) \in Nat /\ Cardinality(Uncounted) \in Nat
    /\ \A b : /\ Cardinality(Owed(b)) \in Nat /\ Cardinality(Due(b)) \in Nat
              /\ Cardinality(Late(b)) \in Nat
    /\ \A b, c : Cardinality(Between(b, c)) \in Nat
  BY Sized DEF Recording, Summed, Uncounted, Owed, Due, Late, Between

LEMMA SetsSizedNext ==
    /\ Cardinality(Recording') \in Nat
    /\ Cardinality(Summed') \in Nat /\ Cardinality(Uncounted') \in Nat
    /\ \A b : /\ Cardinality(Owed(b)') \in Nat /\ Cardinality(Due(b)') \in Nat
              /\ Cardinality(Late(b)') \in Nat
    /\ \A b, c : Cardinality(Between(b, c)') \in Nat
  BY Sized DEF Recording, Summed, Uncounted, Owed, Due, Late, Between

\* Whoever is between two keys is recording.
LEMMA SetsSmall ==
    ASSUME TypeOK, NEW b \in Bounds, NEW c \in Bounds
    PROVE  /\ Cardinality(Summed) <= Cardinality(Recording)
           /\ Cardinality(Uncounted) <= Cardinality(Recording)
           /\ Cardinality(Due(b)) <= Cardinality(Recording)
           /\ Cardinality(Between(b, c)) <= Cardinality(Recording)
  <1> USE KeyNumbers DEF TypeOK
  <1>1. Summed \subseteq Recording /\ Uncounted \subseteq Recording
        /\ Due(b) \subseteq Recording /\ Between(b, c) \subseteq Recording
    BY DEF Summed, Uncounted, Due, Between, Recording
  <1>2. Recording \in SUBSET Workers
    BY DEF Recording
  <1> QED
    BY <1>1, <1>2, SmallerSized

LEMMA LateSize ==
    ASSUME TypeOK, NEW b \in Bounds
    PROVE  Cardinality(Late(b)) <= Cardinality(Uncounted) + Cardinality(Owed(b))
  <1>1. Uncounted \in SUBSET Workers /\ Owed(b) \in SUBSET Workers
    BY DEF Uncounted, Owed
  <1>2. IsFiniteSet(Uncounted) /\ IsFiniteSet(Owed(b))
        /\ IsFiniteSet(Uncounted \cap Owed(b))
    BY <1>1, Sized, FS_Subset
  <1>3. Cardinality(Uncounted \cap Owed(b)) \in Nat
    BY <1>2, FS_CardinalityType
  <1>4. Cardinality(Late(b)) = Cardinality(Uncounted) + Cardinality(Owed(b))
                                 - Cardinality(Uncounted \cap Owed(b))
    BY <1>2, FS_Union DEF Late
  <1> QED
    BY <1>3, <1>4, SetsSized

-----------------------------------------------------------------------------
(* A step of one worker: how the sets grow and shrink.                     *)

One(p) == IF p THEN 1 ELSE 0

Only(w) ==
    /\ at' \in [Workers -> Keys \cup {Idle}] /\ dur' \in [Workers -> Bounds]
    /\ \A v \in Workers \ {w} : at'[v] = at[v] /\ dur'[v] = dur[v]

LEMMA Recounted ==
    ASSUME NEW w \in Workers, Only(w)
    PROVE  /\ Cardinality(Recording') = Cardinality(Recording)
                + One(at'[w] # Idle) - One(at[w] # Idle)
           /\ Cardinality(Summed') = Cardinality(Summed)
                + One(at'[w] = Count) - One(at[w] = Count)
           /\ Cardinality(Uncounted') = Cardinality(Uncounted)
                + One(at'[w] <= Count) - One(at[w] <= Count)
  <1>1. /\ Recording \in SUBSET Workers /\ Recording' \in SUBSET Workers
        /\ Recording \ {w} = Recording' \ {w}
        /\ w \in Recording <=> at[w] # Idle
        /\ w \in Recording' <=> at'[w] # Idle
    BY DEF Recording, Only
  <1>2. /\ Summed \in SUBSET Workers /\ Summed' \in SUBSET Workers
        /\ Summed \ {w} = Summed' \ {w}
        /\ w \in Summed <=> at[w] = Count
        /\ w \in Summed' <=> at'[w] = Count
    BY DEF Summed, Only
  <1>3. /\ Uncounted \in SUBSET Workers /\ Uncounted' \in SUBSET Workers
        /\ Uncounted \ {w} = Uncounted' \ {w}
        /\ w \in Uncounted <=> at[w] <= Count
        /\ w \in Uncounted' <=> at'[w] <= Count
    BY DEF Uncounted, Only
  <1>4. Cardinality(Recording') = Cardinality(Recording)
                + One(at'[w] # Idle) - One(at[w] # Idle)
    BY <1>1, Recount DEF One
  <1>5. Cardinality(Summed') = Cardinality(Summed)
                + One(at'[w] = Count) - One(at[w] = Count)
    BY <1>2, Recount DEF One
  <1>6. Cardinality(Uncounted') = Cardinality(Uncounted)
                + One(at'[w] <= Count) - One(at[w] <= Count)
    BY <1>3, Recount DEF One
  <1> QED
    BY <1>4, <1>5, <1>6

LEMMA BucketRecounted ==
    ASSUME NEW w \in Workers, Only(w), NEW b \in Bounds, NEW c \in Bounds
    PROVE  /\ Cardinality(Owed(b)') = Cardinality(Owed(b))
                + One(Count < at'[w] /\ at'[w] <= b /\ dur'[w] <= b)
                - One(Count < at[w] /\ at[w] <= b /\ dur[w] <= b)
           /\ Cardinality(Due(b)') = Cardinality(Due(b))
                + One(at'[w] <= b /\ dur'[w] <= b) - One(at[w] <= b /\ dur[w] <= b)
           /\ Cardinality(Between(b, c)') = Cardinality(Between(b, c))
                + One(b < at'[w] /\ at'[w] <= c) - One(b < at[w] /\ at[w] <= c)
           /\ Cardinality(Late(b)') = Cardinality(Late(b))
                + One(at'[w] <= Count \/ (Count < at'[w] /\ at'[w] <= b /\ dur'[w] <= b))
                - One(at[w] <= Count \/ (Count < at[w] /\ at[w] <= b /\ dur[w] <= b))
  <1>1. /\ Owed(b) \in SUBSET Workers /\ Owed(b)' \in SUBSET Workers
        /\ Owed(b) \ {w} = Owed(b)' \ {w}
        /\ w \in Owed(b) <=> (Count < at[w] /\ at[w] <= b /\ dur[w] <= b)
        /\ w \in Owed(b)' <=> (Count < at'[w] /\ at'[w] <= b /\ dur'[w] <= b)
    BY DEF Owed, Only
  <1>2. /\ Due(b) \in SUBSET Workers /\ Due(b)' \in SUBSET Workers
        /\ Due(b) \ {w} = Due(b)' \ {w}
        /\ w \in Due(b) <=> (at[w] <= b /\ dur[w] <= b)
        /\ w \in Due(b)' <=> (at'[w] <= b /\ dur'[w] <= b)
    BY DEF Due, Only
  <1>3. /\ Between(b, c) \in SUBSET Workers /\ Between(b, c)' \in SUBSET Workers
        /\ Between(b, c) \ {w} = Between(b, c)' \ {w}
        /\ w \in Between(b, c) <=> (b < at[w] /\ at[w] <= c)
        /\ w \in Between(b, c)' <=> (b < at'[w] /\ at'[w] <= c)
    BY DEF Between, Only
  <1>4. /\ Late(b) \in SUBSET Workers /\ Late(b)' \in SUBSET Workers
        /\ Late(b) \ {w} = Late(b)' \ {w}
        /\ w \in Late(b) <=>
             at[w] <= Count \/ (Count < at[w] /\ at[w] <= b /\ dur[w] <= b)
        /\ w \in Late(b)' <=>
             at'[w] <= Count \/ (Count < at'[w] /\ at'[w] <= b /\ dur'[w] <= b)
    BY DEF Late, Uncounted, Owed, Only
  <1>5. Cardinality(Owed(b)') = Cardinality(Owed(b))
                + One(Count < at'[w] /\ at'[w] <= b /\ dur'[w] <= b)
                - One(Count < at[w] /\ at[w] <= b /\ dur[w] <= b)
    BY <1>1, Recount DEF One
  <1>6. Cardinality(Due(b)') = Cardinality(Due(b))
                + One(at'[w] <= b /\ dur'[w] <= b) - One(at[w] <= b /\ dur[w] <= b)
    BY <1>2, Recount DEF One
  <1>7. Cardinality(Between(b, c)') = Cardinality(Between(b, c))
                + One(b < at'[w] /\ at'[w] <= c) - One(b < at[w] /\ at[w] <= c)
    BY <1>3, Recount DEF One
  <1>8. Cardinality(Late(b)') = Cardinality(Late(b))
          + One(at'[w] <= Count \/ (Count < at'[w] /\ at'[w] <= b /\ dur'[w] <= b))
          - One(at[w] <= Count \/ (Count < at[w] /\ at[w] <= b /\ dur[w] <= b))
    BY <1>4, Recount DEF One
  <1> QED
    BY <1>5, <1>6, <1>7, <1>8

-----------------------------------------------------------------------------
(* The steps of the workers: what is stored.                               *)

LEMMA ObserveStored ==
    ASSUME TypeOK, Stored, NEW w \in Workers, NEW d \in Bounds, Observe(w, d)
    PROVE  TypeOK' /\ Stored' /\ Only(w)
  <1> USE KeyNumbers, SetsSized, SetsSizedNext
  <1>1. /\ at[w] = Idle /\ at' = [at EXCEPT ![w] = Sum] /\ dur' = [dur EXCEPT ![w] = d]
        /\ begun[Inf] < MaxObservations
        /\ begun' = [b \in Bounds |-> IF d <= b THEN begun[b] + 1 ELSE begun[b]]
        /\ overlap' \in {overlap, overlap + 1}
        /\ UNCHANGED <<value, died, resent, reading, shown, scrapes>>
    BY DEF Observe, First, readVars, Bounds
  <1>2. Only(w) /\ at'[w] = Sum /\ dur'[w] = d
    BY <1>1 DEF TypeOK, Only, Bounds
  <1>3. \A b \in Bounds : begun'[b] = IF d <= b THEN begun[b] + 1 ELSE begun[b]
    BY <1>1
  <1>4. \A b \in Bounds : begun[b] \in Nat /\ begun[b] <= begun[Inf]
    BY DEF TypeOK, Stored, Bounds
  <1>5. overlap \in Nat /\ overlap <= begun[Inf] /\ begun'[Inf] = begun[Inf] + 1
    BY <1>3 DEF TypeOK, Stored
  <1>6. TypeOK'
    <2>1. begun' \in [Bounds -> 0..MaxObservations]
      BY <1>1, <1>4
    <2>2. overlap' \in 0..MaxObservations
      BY <1>1, <1>4, <1>5
    <2> QED
      BY <1>1, <1>2, <2>1, <2>2 DEF TypeOK, Only, Bounds
  <1>7. /\ Cardinality(Recording') = Cardinality(Recording) + 1
        /\ Cardinality(Summed') = Cardinality(Summed)
        /\ Cardinality(Uncounted') = Cardinality(Uncounted) + 1
    BY <1>1, <1>2, Recounted DEF One
  <1>8. ASSUME NEW b \in Bounds, NEW c \in Bounds
        PROVE  /\ Cardinality(Owed(b)') = Cardinality(Owed(b))
               /\ Cardinality(Due(b)') = Cardinality(Due(b)) + One(d <= b)
               /\ Cardinality(Between(b, c)') = Cardinality(Between(b, c))
    BY <1>1, <1>2, BucketRecounted DEF One
  <1>9. Exact'
    BY <1>1, <1>3, <1>7, <1>8 DEF Stored, Exact, One, TypeOK, Bounds
  <1> QED
    BY <1>1, <1>2, <1>3, <1>4, <1>5, <1>6, <1>7, <1>8, <1>9
    DEF Stored, Only, One, TypeOK, Bounds

\* A worker goes from a key to the next one.
LEMMA IncrementStored ==
    ASSUME TypeOK, Stored, NEW w \in Workers, Increment(w)
    PROVE  TypeOK' /\ Stored' /\ Only(w)
  <1> USE KeyNumbers, SetsSized, SetsSizedNext
  <1> DEFINE k == at[w]
             n == After(at[w], dur[w])
  <1>1. /\ k \in Keys /\ at' = [at EXCEPT ![w] = n]
        /\ value' = [value EXCEPT ![k] = @ + 1]
        /\ UNCHANGED <<dur, begun, died, resent, overlap, reading, shown, scrapes>>
    BY DEF Increment, Add, readVars, TypeOK
  <1>2. dur[w] \in Bounds /\ (k \in Bounds => dur[w] <= k)
    BY DEF TypeOK, Stored, Bounds
  <1>3. /\ k = Sum => n = Count
        /\ k = Count => n = dur[w]
        /\ k \in Bounds => n = k + 1
        /\ n \in Keys \cup {Idle}
    BY <1>1, <1>2 DEF After, FirstBucket
  <1>4. Only(w) /\ at'[w] = n /\ dur'[w] = dur[w]
    BY <1>1, <1>3 DEF TypeOK, Only, Bounds
  <1>5. \A i \in Keys : value'[i] = value[i] + One(i = k) /\ value[i] \in Nat
    BY <1>1 DEF TypeOK, One
  <1>6. TypeOK'
    <2>1. value' \in [Keys -> Nat]
      BY <1>1, <1>5 DEF TypeOK
    <2> QED
      BY <1>1, <1>4, <2>1 DEF TypeOK, Only, Bounds
  <1> HIDE DEF k, n
  <1>7. /\ Cardinality(Recording') <= Cardinality(Recording)
        /\ Cardinality(Summed') = Cardinality(Summed) + One(k = Sum) - One(k = Count)
        /\ Cardinality(Uncounted') = Cardinality(Uncounted) - One(k = Count)
    <2>1. k \in Int /\ n \in Int /\ k # Idle
      BY <1>1, <1>2, <1>3
    <2>2. /\ Cardinality(Recording') = Cardinality(Recording)
                + One(n # Idle) - One(k # Idle)
          /\ Cardinality(Summed') = Cardinality(Summed) + One(n = Count) - One(k = Count)
          /\ Cardinality(Uncounted') = Cardinality(Uncounted)
                + One(n <= Count) - One(k <= Count)
      BY <1>4, Recounted DEF k
    <2> QED
      BY <1>1, <1>2, <1>3, <2>1, <2>2 DEF One
  <1>8. ASSUME NEW b \in Bounds, NEW c \in Bounds
        PROVE  /\ Cardinality(Owed(b)') = Cardinality(Owed(b))
                    + One(k = Count /\ dur[w] <= b) - One(k = b)
               /\ Cardinality(Due(b)') = Cardinality(Due(b)) - One(k = b)
               /\ b <= c =>
                    Cardinality(Between(b, c)') >= Cardinality(Between(b, c))
                       + One(k = b /\ b < c) - One(k = c /\ b < c)
    <2>1. k \in Int /\ n \in Int /\ b \in Int /\ c \in Int /\ dur[w] \in Int
      BY <1>1, <1>2, <1>3
    <2>2. Cardinality(Owed(b)') = Cardinality(Owed(b))
            + One(Count < n /\ n <= b /\ dur[w] <= b)
            - One(Count < k /\ k <= b /\ dur[w] <= b)
      BY <1>4, BucketRecounted DEF k
    <2>3. Cardinality(Due(b)') = Cardinality(Due(b))
            + One(n <= b /\ dur[w] <= b) - One(k <= b /\ dur[w] <= b)
      BY <1>4, BucketRecounted DEF k
    <2>4. Cardinality(Between(b, c)') = Cardinality(Between(b, c))
            + One(b < n /\ n <= c) - One(b < k /\ k <= c)
      BY <1>4, BucketRecounted DEF k
    <2>5. Cardinality(Owed(b)') = Cardinality(Owed(b))
            + One(k = Count /\ dur[w] <= b) - One(k = b)
      BY <1>1, <1>2, <1>3, <2>1, <2>2 DEF One
    <2>6. Cardinality(Due(b)') = Cardinality(Due(b)) - One(k = b)
      BY <1>1, <1>2, <1>3, <2>1, <2>3 DEF One
    <2>7. b <= c => Cardinality(Between(b, c)') >= Cardinality(Between(b, c))
                      + One(k = b /\ b < c) - One(k = c /\ b < c)
      BY <1>1, <1>2, <1>3, <2>1, <2>4 DEF One
    <2> QED
      BY <2>5, <2>6, <2>7
  <1>9. Exact'
    <2> SUFFICES ASSUME died + resent = 0
                 PROVE  /\ value'[Sum] = value'[Count] + Cardinality(Summed')
                        /\ begun[Inf] = value'[Count] + Cardinality(Uncounted')
                        /\ \A b \in Bounds : begun[b] = value'[b] + Cardinality(Due(b)')
      BY <1>1 DEF Exact
    <2>1. /\ value[Sum] = value[Count] + Cardinality(Summed)
          /\ begun[Inf] = value[Count] + Cardinality(Uncounted)
          /\ \A b \in Bounds : begun[b] = value[b] + Cardinality(Due(b))
      BY DEF Stored, Exact
    <2>2. Sum \in Keys /\ Count \in Keys /\ Bounds \subseteq Keys
      OBVIOUS
    <2>3. value'[Sum] = value'[Count] + Cardinality(Summed')
          /\ begun[Inf] = value'[Count] + Cardinality(Uncounted')
      BY <1>5, <1>7, <2>1, <2>2 DEF One
    <2>4. ASSUME NEW b \in Bounds PROVE begun[b] = value'[b] + Cardinality(Due(b)')
      <3>1. Cardinality(Due(b)') = Cardinality(Due(b)) - One(k = b)
        BY <1>8
      <3>2. value'[b] = value[b] + One(b = k) /\ value[b] \in Nat
        BY <1>5, <2>2
      <3> QED
        BY <2>1, <3>1, <3>2 DEF One
    <2> QED
      BY <2>3, <2>4
  <1>10. ASSUME NEW b \in Bounds, NEW c \in Bounds, b <= c
         PROVE  value'[b] <= value'[c] + Cardinality(Between(b, c)') + died' + resent'
    <2>1. value[b] <= value[c] + Cardinality(Between(b, c)) + died + resent
      BY <1>10 DEF Stored
    <2>2. /\ value'[b] = value[b] + One(b = k) /\ value'[c] = value[c] + One(c = k)
          /\ value[b] \in Nat /\ value[c] \in Nat /\ died \in Nat /\ resent \in Nat
          /\ died' = died /\ resent' = resent
      BY <1>1, <1>5 DEF TypeOK
    <2>3. Cardinality(Between(b, c)') >= Cardinality(Between(b, c))
                       + One(k = b /\ b < c) - One(k = c /\ b < c)
      BY <1>8, <1>10
    <2> QED
      BY <1>10, <2>1, <2>2, <2>3 DEF One
  <1>11. \A b \in Bounds :
           /\ value'[b] + Cardinality(Owed(b)') <= value'[Count] + resent'
           /\ begun'[b] <= value'[b] + Cardinality(Due(b)') + died'
    BY <1>1, <1>5, <1>8 DEF Stored, One, TypeOK, Bounds
  <1>12. value'[Count] + Cardinality(Summed') <= value'[Sum] + resent'
    BY <1>1, <1>5, <1>7 DEF Stored, One, TypeOK
  <1>13. Cardinality(Recording') <= begun'[Inf] /\ overlap' <= begun'[Inf]
    <2>1. begun[Inf] \in Nat
      BY DEF TypeOK
    <2> QED
      BY <1>1, <1>7, <2>1 DEF Stored
  <1>14. \A v \in Workers : at'[v] \in Bounds => dur'[v] <= at'[v]
    <2>1. at'[w] \in Bounds => dur'[w] <= at'[w]
      BY <1>1, <1>2, <1>3, <1>4
    <2>2. \A v \in Workers \ {w} : at'[v] \in Bounds => dur'[v] <= at'[v]
      BY <1>4 DEF Stored, Only
    <2> QED
      BY <2>1, <2>2
  <1> QED
    BY <1>1, <1>4, <1>6, <1>9, <1>10, <1>11, <1>12, <1>13, <1>14 DEF Stored

\* A command that runs twice is one observation more for its key.
LEMMA AnswerLostStored ==
    ASSUME TypeOK, Stored, NEW w \in Workers, AnswerLost(w)
    PROVE  TypeOK' /\ Stored' /\ Only(w)
  <1> USE KeyNumbers, SetsSized, SetsSizedNext
  <1>1. /\ at[w] \in Keys /\ resent < MaxResent /\ resent' = resent + 1
        /\ value' = [value EXCEPT ![at[w]] = @ + 1]
        /\ UNCHANGED <<at, dur, begun, died, overlap, reading, shown, scrapes>>
    BY DEF AnswerLost, Add, readVars, TypeOK
  <1>2. Only(w)
    BY <1>1 DEF TypeOK, Only, Bounds
  <1>3. \A i \in Keys : value'[i] \in Nat /\ value[i] \in Nat
                          /\ value[i] <= value'[i] /\ value'[i] <= value[i] + 1
    BY <1>1 DEF TypeOK
  <1>4. TypeOK'
    <2>1. value' \in [Keys -> Nat]
      BY <1>1, <1>3 DEF TypeOK
    <2>2. resent' \in 0..MaxResent
      BY <1>1 DEF TypeOK
    <2> QED
      BY <1>1, <2>1, <2>2 DEF TypeOK
  <1>5. /\ Recording' = Recording /\ Summed' = Summed
        /\ \A b : Owed(b)' = Owed(b) /\ Due(b)' = Due(b)
        /\ \A b, c : Between(b, c)' = Between(b, c)
    BY <1>1 DEF Recording, Summed, Owed, Due, Between
  <1>6. Exact'
    BY <1>1 DEF Exact, TypeOK
  <1> QED
    BY <1>1, <1>2, <1>3, <1>4, <1>5, <1>6 DEF Stored, TypeOK, Bounds

LEMMA DieStored ==
    ASSUME TypeOK, Stored, NEW w \in Workers, Die(w)
    PROVE  TypeOK' /\ Stored' /\ Only(w)
  <1> USE KeyNumbers, SetsSized, SetsSizedNext
  <1>1. /\ at[w] \in Keys /\ died < MaxDeaths /\ died' = died + 1
        /\ at' = [at EXCEPT ![w] = Idle]
        /\ UNCHANGED <<value, dur, begun, resent, overlap, reading, shown, scrapes>>
    BY DEF Die, readVars, TypeOK
  <1>2. Only(w) /\ at'[w] = Idle
    BY <1>1 DEF TypeOK, Only, Bounds
  <1>3. TypeOK'
    <2>1. died' \in 0..MaxDeaths
      BY <1>1 DEF TypeOK
    <2> QED
      BY <1>1, <1>2, <2>1 DEF TypeOK, Only, Bounds
  <1>4. /\ Cardinality(Recording') <= Cardinality(Recording)
        /\ Cardinality(Summed') <= Cardinality(Summed)
    BY <1>1, <1>2, Recounted DEF One
  <1>5. ASSUME NEW b \in Bounds, NEW c \in Bounds
        PROVE  /\ Cardinality(Owed(b)') <= Cardinality(Owed(b))
               /\ Cardinality(Due(b)') + 1 >= Cardinality(Due(b))
               /\ Cardinality(Between(b, c)') + 1 >= Cardinality(Between(b, c))
    BY <1>1, <1>2, BucketRecounted DEF One
  <1>6. Exact'
    BY <1>1 DEF Exact, TypeOK
  <1>7. \A v \in Workers : at'[v] \in Bounds => dur'[v] <= at'[v]
    BY <1>2 DEF Stored, Only
  <1>8. begun[Inf] \in Nat /\ value[Sum] \in Nat /\ value[Count] \in Nat
        /\ died \in Nat /\ resent \in Nat
    BY DEF TypeOK
  <1>9. \A b \in Bounds : value[b] \in Nat /\ begun[b] \in Nat
    BY DEF TypeOK, Bounds
  <1>10. \A b \in Bounds :
           /\ value[b] + Cardinality(Owed(b)') <= value[Count] + resent
           /\ begun[b] <= value[b] + Cardinality(Due(b)') + died'
    BY <1>1, <1>5, <1>8, <1>9 DEF Stored
  <1>11. \A b, c \in Bounds : b <= c =>
           value[b] <= value[c] + Cardinality(Between(b, c)') + died' + resent
    BY <1>1, <1>5, <1>8, <1>9 DEF Stored
  <1>12. /\ Cardinality(Recording') <= begun[Inf]
         /\ value[Count] + Cardinality(Summed') <= value[Sum] + resent
    BY <1>4, <1>8 DEF Stored
  <1> QED
    BY <1>1, <1>2, <1>3, <1>6, <1>7, <1>10, <1>11, <1>12 DEF Stored

-----------------------------------------------------------------------------
(* The steps of the workers: what a scrape has read and is to read.        *)

LEMMA Busy ==
    ASSUME NEW w \in Workers, at[w] # Idle
    PROVE  Cardinality(Recording) >= 1
  <1>1. Recording \in SUBSET Workers /\ Recording # {}
    BY DEF Recording
  <1> QED
    BY <1>1, Sized, FS_EmptySet

\* All that a scrape needs to know of a step of a worker: what it adds to a
\* bucket was already on its way there, or is counted by overlap or resent.
Disturbs ==
    /\ UNCHANGED <<reading, shown, scrapes>>
    /\ \A k \in Keys : value'[k] >= value[k]
    /\ overlap' >= overlap /\ died' >= died /\ resent' >= resent
    /\ begun' = begun \/ begun'[Inf] = begun[Inf] + 1
    /\ reading # Rendered =>
         /\ Cardinality(Recording') - Cardinality(Recording) <= overlap' - overlap
         /\ overlap' + died' + resent' > 0
         /\ \A b \in Les :
              value'[b] + Cardinality(Late(b)') <= value[b] + Cardinality(Late(b))
                  + (overlap' - overlap) + (resent' - resent)

LEMMA DisturbsExposed ==
    ASSUME MetricsInv, TypeOK', Disturbs
    PROVE  Exposed' /\ Undisturbed'
  <1> USE KeyNumbers, SetsSized, SetsSizedNext
  <1>1. /\ \A k \in Keys : /\ value[k] \in Nat /\ value'[k] \in Nat /\ shown[k] \in Nat
                           /\ value[k] <= value'[k]
        /\ {overlap, died, resent, overlap', died', resent'} \subseteq Nat
        /\ overlap <= overlap' /\ died <= died' /\ resent <= resent'
        /\ reading' = reading /\ shown' = shown
    BY DEF MetricsInv, TypeOK, Disturbs
  <1>2. Sum \in Keys /\ Count \in Keys /\ Les \subseteq Keys /\ Inf \in Bounds
    OBVIOUS
  <1>3. Exposed'
    <2>1. (reading # Rendered => Cardinality(Recording) <= overlap)'
      BY <1>1 DEF MetricsInv, Exposed, Disturbs
    <2>2. (reading # Count => shown[Count] <= Seen(Sum, reading = Sum) + resent)'
      BY <1>1, <1>2 DEF MetricsInv, Exposed, Seen
    <2>3. ASSUME NEW b \in Les
          PROVE  (/\ reading \in {Sum} \cup Les =>
                      value[b] + Cardinality(Late(b)) <= shown[Count] + overlap + resent
                  /\ shown[b] <= shown[Count] + overlap + resent)'
      <3>1. CASE reading \in {Sum} \cup Les
        <4>1. value[b] + Cardinality(Late(b)) <= shown[Count] + overlap + resent
          BY <3>1 DEF MetricsInv, Exposed
        <4>2. value'[b] + Cardinality(Late(b)') <= value[b] + Cardinality(Late(b))
                + (overlap' - overlap) + (resent' - resent)
          BY <3>1 DEF Disturbs
        <4>3. shown[b] <= shown[Count] + overlap + resent
          BY DEF MetricsInv, Exposed
        <4> QED
          BY <1>1, <1>2, <4>1, <4>2, <4>3
      <3>2. CASE reading \notin {Sum} \cup Les
        <4>1. shown[b] <= shown[Count] + overlap + resent
          BY DEF MetricsInv, Exposed
        <4> QED
          BY <1>1, <1>2, <3>2, <4>1
      <3> QED
        BY <3>1, <3>2
    <2>4. ASSUME NEW b \in Les, NEW c \in Les, b <= c
          PROVE  (shown[b] <= Seen(c, reading <= c) + overlap + died + resent)'
      <3>1. shown[b] <= Seen(c, reading <= c) + overlap + died + resent
        BY <2>4 DEF MetricsInv, Exposed
      <3>2. Seen(c, reading <= c) <= Seen(c, reading <= c)'
            /\ Seen(c, reading <= c) \in Nat /\ Seen(c, reading <= c)' \in Nat
        BY <1>1, <1>2 DEF Seen
      <3> QED
        BY <1>1, <1>2, <3>1, <3>2
    <2> QED
      BY <1>1, <2>1, <2>2, <2>3, <2>4 DEF MetricsInv, Exposed
  <1>4. Undisturbed'
    <2> SUFFICES ASSUME Quiet' PROVE Undisturbed'
      BY DEF Undisturbed
    <2>1. Quiet /\ reading = Rendered
      BY <1>1 DEF Quiet, Disturbs
    <2>2. /\ shown[Count] = shown[Sum] /\ shown[Count] <= begun[Inf]
          /\ shown[Count] = begun[Inf] => \A b \in Les : shown[b] = begun[b]
      BY <2>1 DEF MetricsInv, Undisturbed
    <2>3. CASE begun' = begun
      BY <1>1, <2>1, <2>2, <2>3 DEF Undisturbed
    <2>4. CASE begun'[Inf] = begun[Inf] + 1
      <3>1. shown[Count] <= begun'[Inf] /\ shown[Count] # begun'[Inf]
        BY <1>1, <1>2, <2>2, <2>4 DEF MetricsInv, TypeOK
      <3> QED
        BY <1>1, <2>1, <2>2, <3>1 DEF Undisturbed
    <2> QED
      BY <2>3, <2>4 DEF Disturbs
  <1> QED
    BY <1>3, <1>4

LEMMA WorkerDisturbs ==
    ASSUME MetricsInv, NEW w \in Workers, TypeOK', Only(w),
           \/ \E d \in Bounds : Observe(w, d)
           \/ Increment(w) \/ AnswerLost(w) \/ Die(w)
    PROVE  Disturbs
  <1> USE KeyNumbers, SetsSized, SetsSizedNext
  <1>1. /\ \A k \in Keys : value[k] \in Nat
        /\ {overlap, died, resent} \subseteq Nat
        /\ \A b \in Les : b \in Bounds /\ b \in Keys
    BY DEF MetricsInv, TypeOK
  <1>2. ASSUME NEW b \in Les
        PROVE  Cardinality(Late(b)') = Cardinality(Late(b))
                + One(at'[w] <= Count \/ (Count < at'[w] /\ at'[w] <= b /\ dur'[w] <= b))
                - One(at[w] <= Count \/ (Count < at[w] /\ at[w] <= b /\ dur[w] <= b))
    BY <1>1, BucketRecounted
  <1>3. Cardinality(Recording') = Cardinality(Recording)
                + One(at'[w] # Idle) - One(at[w] # Idle)
    BY Recounted
  <1>4. ASSUME NEW d \in Bounds, Observe(w, d) PROVE Disturbs
    <2>1. /\ at[w] = Idle /\ at'[w] = Sum
          /\ begun'[Inf] = begun[Inf] + 1
          /\ overlap' = IF reading = Rendered THEN overlap ELSE overlap + 1
          /\ UNCHANGED <<value, died, resent, reading, shown, scrapes>>
      BY <1>4 DEF MetricsInv, TypeOK, Observe, First, readVars, Bounds
    <2> QED
      BY <1>1, <1>2, <1>3, <2>1 DEF Disturbs, One
  <1>5. ASSUME Increment(w) PROVE Disturbs
    <2>1. /\ at[w] \in Keys /\ at'[w] = After(at[w], dur[w]) /\ dur'[w] = dur[w]
          /\ value' = [value EXCEPT ![at[w]] = @ + 1]
          /\ UNCHANGED <<begun, died, resent, overlap, reading, shown, scrapes>>
      BY <1>5 DEF MetricsInv, TypeOK, Increment, Add, readVars
    <2>2. dur[w] \in Bounds /\ (at[w] \in Bounds => dur[w] <= at[w])
      BY DEF MetricsInv, TypeOK, Stored, Bounds
    <2>3. /\ at[w] = Sum => at'[w] = Count
          /\ at[w] = Count => at'[w] = dur[w]
          /\ at[w] \in Bounds => at'[w] = at[w] + 1
      BY <2>1, <2>2 DEF After, FirstBucket
    <2>4. \A k \in Keys : value'[k] = value[k] + One(k = at[w])
      BY <1>1, <2>1 DEF MetricsInv, TypeOK, One
    <2>5. Cardinality(Recording') <= Cardinality(Recording)
      BY <1>3, <2>1 DEF One
    <2>6. ASSUME NEW b \in Les
          PROVE  value'[b] + Cardinality(Late(b)') <= value[b] + Cardinality(Late(b))
      <3>1. value'[b] = value[b] + One(b = at[w])
        BY <1>1, <2>4
      <3>2. at[w] \in Int /\ at'[w] \in Int /\ dur[w] \in Int /\ b \in Int
        BY <2>1, <2>2, <2>3
      <3>3. Cardinality(Late(b)') <= Cardinality(Late(b)) - One(b = at[w])
        BY <1>2, <2>1, <2>2, <2>3, <3>2 DEF One
      <3> QED
        BY <1>1, <3>1, <3>3 DEF One
    <2>7. overlap > 0 \/ reading = Rendered
      BY <1>1, <2>1, Busy DEF MetricsInv, Exposed
    <2>8. \A k \in Keys : value'[k] >= value[k]
      BY <1>1, <2>4 DEF One
    <2> QED
      BY <1>1, <2>1, <2>5, <2>6, <2>7, <2>8 DEF Disturbs
  <1>6. ASSUME AnswerLost(w) PROVE Disturbs
    <2>1. /\ at[w] \in Keys /\ resent' = resent + 1
          /\ value' = [value EXCEPT ![at[w]] = @ + 1]
          /\ UNCHANGED <<at, dur, begun, died, overlap, reading, shown, scrapes>>
      BY <1>6 DEF MetricsInv, TypeOK, AnswerLost, Add, readVars
    <2>2. \A k \in Keys : value'[k] >= value[k] /\ value'[k] <= value[k] + 1
      BY <1>1, <2>1 DEF MetricsInv, TypeOK
    <2>3. Recording' = Recording /\ \A b : Late(b)' = Late(b)
      BY <2>1 DEF Recording, Late, Uncounted, Owed
    <2> QED
      BY <1>1, <2>1, <2>2, <2>3 DEF Disturbs, MetricsInv, TypeOK
  <1>7. ASSUME Die(w) PROVE Disturbs
    <2>1. /\ at[w] \in Keys /\ at'[w] = Idle /\ died' = died + 1
          /\ UNCHANGED <<value, dur, begun, resent, overlap, reading, shown, scrapes>>
      BY <1>7 DEF MetricsInv, TypeOK, Die, readVars
    <2>2. Cardinality(Recording') <= Cardinality(Recording)
      BY <1>3, <2>1 DEF One
    <2>3. \A b \in Les : Cardinality(Late(b)') <= Cardinality(Late(b))
      BY <1>2, <2>1 DEF One
    <2> QED
      BY <1>1, <2>1, <2>2, <2>3 DEF Disturbs
  <1> QED
    BY <1>4, <1>5, <1>6, <1>7

-----------------------------------------------------------------------------
(* The steps of a scrape.                                                  *)

LEMMA StoredAlone ==
    ASSUME Stored, UNCHANGED <<value, at, dur, begun, died, resent>>,
           overlap' \in {overlap, Cardinality(Recording)}
    PROVE  Stored'
  <1>1. /\ Recording' = Recording /\ Summed' = Summed /\ Uncounted' = Uncounted
        /\ \A b : Owed(b)' = Owed(b) /\ Due(b)' = Due(b)
        /\ \A b, c : Between(b, c)' = Between(b, c)
    BY DEF Recording, Summed, Uncounted, Owed, Due, Between
  <1>2. Exact'
    BY <1>1 DEF Stored, Exact
  <1> QED
    BY <1>1, <1>2 DEF Stored

LEMMA ScrapeStep ==
    ASSUME MetricsInv, Scrape
    PROVE  MetricsInv'
  <1> USE KeyNumbers, SetsSized
  <1>1. /\ reading = Rendered /\ reading' = Count /\ shown' = [k \in Keys |-> 0]
        /\ scrapes < MaxScrapes /\ scrapes' = scrapes + 1
        /\ overlap' = Cardinality(Recording)
        /\ UNCHANGED <<value, at, dur, begun, died, resent>>
    BY DEF Scrape, Fresh, writeVars
  <1>2. /\ begun[Inf] \in 0..MaxObservations /\ Inf \in Bounds
        /\ Cardinality(Recording) <= begun[Inf]
        /\ \A k \in Keys : value'[k] \in Nat /\ shown'[k] = 0
        /\ {died', resent', overlap'} \subseteq Nat
        /\ Sum \in Keys /\ Count \in Keys /\ Les \subseteq Keys
    BY <1>1 DEF MetricsInv, TypeOK, Stored
  <1>3. TypeOK'
    <2>1. overlap' \in 0..MaxObservations /\ scrapes' \in 0..MaxScrapes
      BY <1>1, <1>2 DEF MetricsInv, TypeOK
    <2>2. shown' \in [Keys -> Nat] /\ reading' \in {Count, Sum, Rendered} \cup Les
      BY <1>1
    <2> QED
      BY <1>1, <2>1, <2>2 DEF MetricsInv, TypeOK
  <1>4. Stored'
    BY <1>1, StoredAlone DEF MetricsInv
  <1>5. Exposed'
    <2>1. Recording' = Recording
      BY <1>1 DEF Recording
    <2>2. \A c \in Les : Seen(c, reading <= c)' \in Nat
      BY <1>1, <1>2 DEF Seen
    <2> QED
      BY <1>1, <1>2, <2>1, <2>2 DEF Exposed
  <1>6. Undisturbed'
    BY <1>1 DEF Undisturbed
  <1> QED
    BY <1>3, <1>4, <1>5, <1>6 DEF MetricsInv

\* While nothing disturbs a scrape, every key holds what was observed.
LEMMA QuietIsExact ==
    ASSUME MetricsInv, Quiet, reading # Rendered
    PROVE  /\ value[Sum] = value[Count] /\ value[Count] = begun[Inf]
           /\ \A b \in Les : value[b] = begun[b]
  <1> USE KeyNumbers, SetsSized
  <1>1. overlap = 0 /\ died + resent = 0
    BY DEF MetricsInv, TypeOK, Quiet
  <1>2. Cardinality(Recording) = 0
    BY <1>1 DEF MetricsInv, Exposed
  <1>3. Cardinality(Summed) = 0 /\ Cardinality(Uncounted) = 0
        /\ \A b \in Bounds : Cardinality(Due(b)) = 0
    BY <1>2, SetsSmall DEF MetricsInv
  <1>4. \A k \in Keys : value[k] \in Nat
    BY DEF MetricsInv, TypeOK
  <1>5. /\ value[Sum] = value[Count] + Cardinality(Summed)
        /\ begun[Inf] = value[Count] + Cardinality(Uncounted)
        /\ \A b \in Bounds : begun[b] = value[b] + Cardinality(Due(b))
    BY <1>1 DEF MetricsInv, Stored, Exact
  <1>6. Sum \in Keys /\ Count \in Keys /\ \A b \in Les : b \in Bounds /\ b \in Keys
    OBVIOUS
  <1> QED
    BY <1>3, <1>4, <1>5, <1>6

LEMMA ReadExposed ==
    ASSUME MetricsInv, Read, TypeOK'
    PROVE  Exposed'
  <1> USE KeyNumbers, SetsSized
  <1>1. /\ reading \in {Count, Sum} \cup Les
        /\ shown' = [shown EXCEPT ![reading] = value[reading]]
        /\ reading' = NextRead(reading)
        /\ UNCHANGED <<value, at, dur, begun, died, resent, scrapes, overlap>>
    BY DEF Read, MetricsInv, TypeOK, writeVars
  <1>2. /\ \A k \in Keys : value[k] \in Nat /\ shown[k] \in Nat
        /\ {overlap, died, resent} \subseteq Nat
        /\ Sum \in Keys /\ Count \in Keys /\ Les \subseteq Keys
        /\ \A k \in Keys : shown'[k] = IF k = reading THEN value[k] ELSE shown[k]
    BY <1>1 DEF MetricsInv, TypeOK
  <1>3. /\ reading = Count => reading' = IF value[Count] = 0 THEN Rendered ELSE Sum
        /\ reading = Sum => reading' = 1
        /\ reading = Buckets => reading' = Rendered
        /\ reading \in Les /\ reading # Buckets => reading' = reading + 1
    BY <1>1 DEF NextRead
  <1>4. Recording' = Recording /\ (\A b : Late(b)' = Late(b))
        /\ Cardinality(Recording) <= overlap
    BY <1>1 DEF Recording, Late, Uncounted, Owed, MetricsInv, Exposed
  <1>5. (reading = Count => shown[Count] = 0 /\ shown[Sum] = 0)'
    BY <1>1, <1>3
  <1>6. \A b \in Les : reading' <= b => shown'[b] = 0
    BY <1>1, <1>2, <1>3 DEF MetricsInv, Exposed
  <1>7. (reading # Count => shown[Count] <= Seen(Sum, reading = Sum) + resent)'
    <2>1. value[Count] <= value[Sum] + resent
      BY <1>2 DEF MetricsInv, Stored
    <2>2. reading # Count => shown[Count] <= Seen(Sum, reading = Sum) + resent
      BY DEF MetricsInv, Exposed
    <2>3. CASE reading = Count
      BY <1>1, <1>2, <1>3, <2>1, <2>3 DEF Seen
    <2>4. CASE reading # Count
      BY <1>1, <1>2, <1>3, <2>2, <2>4 DEF Seen
    <2> QED
      BY <2>3, <2>4
  <1>8. ASSUME NEW b \in Les
        PROVE  (/\ reading \in {Sum} \cup Les =>
                    value[b] + Cardinality(Late(b)) <= shown[Count] + overlap + resent
                /\ shown[b] <= shown[Count] + overlap + resent)'
    <2>1. /\ value[b] + Cardinality(Owed(b)) <= value[Count] + resent
          /\ Cardinality(Late(b)) <= Cardinality(Recording) + Cardinality(Owed(b))
      BY LateSize, SetsSmall DEF MetricsInv, Stored
    <2>2. /\ reading \in {Sum} \cup Les =>
               value[b] + Cardinality(Late(b)) <= shown[Count] + overlap + resent
          /\ reading <= b => shown[b] = 0
          /\ shown[b] <= shown[Count] + overlap + resent
      BY DEF MetricsInv, Exposed
    <2>3. CASE reading = Count
      BY <1>1, <1>2, <1>4, <2>1, <2>2, <2>3
    <2>4. CASE reading # Count
      BY <1>1, <1>2, <1>4, <2>2, <2>4
    <2> QED
      BY <2>3, <2>4
  <1>9. ASSUME NEW b \in Les, NEW c \in Les, b <= c
        PROVE  (shown[b] <= Seen(c, reading <= c) + overlap + died + resent)'
    <2>1. shown[b] <= Seen(c, reading <= c) + overlap + died + resent
      BY <1>9 DEF MetricsInv, Exposed
    <2>2. value[b] <= value[c] + overlap + died + resent
      <3>1. value[b] <= value[c] + Cardinality(Between(b, c)) + died + resent
        BY <1>9 DEF MetricsInv, Stored
      <3>2. Cardinality(Between(b, c)) <= Cardinality(Recording)
        BY SetsSmall DEF MetricsInv
      <3> QED
        BY <1>2, <1>4, <3>1, <3>2
    <2>3. CASE reading' <= b
      BY <1>1, <1>2, <1>6, <2>3 DEF Seen
    <2>4. CASE reading = b
      BY <1>1, <1>2, <1>3, <1>9, <2>2, <2>4 DEF Seen
    <2>5. CASE reading # b /\ ~(reading' <= b)
      <3>1. shown'[b] = shown[b] /\ shown[b] \in Nat
        BY <1>2, <2>5
      <3>2. Seen(c, reading <= c)' = Seen(c, reading <= c) \/ shown[b] = 0
        <4>1. CASE reading = Count
          BY <2>5, <4>1, <1>2 DEF MetricsInv, Exposed
        <4>2. CASE reading # Count
          BY <1>1, <1>2, <1>3, <1>9, <2>5, <4>2 DEF Seen
        <4> QED
          BY <4>1, <4>2
      <3>3. Seen(c, reading <= c)' \in Nat
        BY <1>1, <1>2 DEF Seen
      <3> QED
        BY <1>1, <1>2, <2>1, <3>1, <3>2, <3>3
    <2> QED
      BY <2>3, <2>4, <2>5
  <1> QED
    BY <1>1, <1>4, <1>5, <1>6, <1>7, <1>8, <1>9 DEF Exposed

LEMMA ReadStep ==
    ASSUME MetricsInv, Read
    PROVE  MetricsInv'
  <1> USE KeyNumbers, SetsSized
  <1>1. /\ reading \in {Count, Sum} \cup Les
        /\ shown' = [shown EXCEPT ![reading] = value[reading]]
        /\ reading' = NextRead(reading)
        /\ UNCHANGED <<value, at, dur, begun, died, resent, scrapes, overlap>>
    BY DEF Read, MetricsInv, TypeOK, writeVars
  <1>2. /\ \A k \in Keys : value[k] \in Nat /\ shown[k] \in Nat
        /\ Sum \in Keys /\ Count \in Keys /\ Les \subseteq Keys
        /\ \A k \in Keys : shown'[k] = IF k = reading THEN value[k] ELSE shown[k]
    BY <1>1 DEF MetricsInv, TypeOK
  <1>3. /\ reading = Count => reading' = IF value[Count] = 0 THEN Rendered ELSE Sum
        /\ reading = Sum => reading' = 1
        /\ reading = Buckets => reading' = Rendered
        /\ reading \in Les /\ reading # Buckets => reading' = reading + 1
    BY <1>1 DEF NextRead
  <1>4. TypeOK'
    <2>1. reading' \in {Count, Sum, Rendered} \cup Les
      BY <1>1, <1>3
    <2>2. shown' \in [Keys -> Nat]
      BY <1>1, <1>2 DEF MetricsInv, TypeOK
    <2> QED
      BY <1>1, <2>1, <2>2 DEF MetricsInv, TypeOK
  <1>5. Stored'
    BY <1>1, StoredAlone DEF MetricsInv
  <1>6. Exposed'
    BY <1>4, ReadExposed
  <1>7. Undisturbed'
    <2> SUFFICES ASSUME Quiet' PROVE Undisturbed'
      BY DEF Undisturbed
    <2>1. Quiet /\ reading # Rendered
      BY <1>1 DEF Quiet
    <2>2. /\ value[Sum] = value[Count] /\ value[Count] = begun[Inf]
          /\ \A b \in Les : value[b] = begun[b]
      BY <2>1, QuietIsExact
    <2>3. reading \in {Sum} \cup Les =>
             /\ shown[Count] = value[Count]
             /\ reading # Sum => shown[Sum] = value[Sum]
             /\ \A b \in Les : b < reading => shown[b] = value[b]
      BY <2>1 DEF MetricsInv, Undisturbed
    <2>4. CASE reading = Count /\ value[Count] = 0
      <3>1. shown'[Sum] = shown[Sum] /\ shown'[Count] = 0
            /\ \A b \in Les : shown'[b] = 0
        BY <1>2, <2>4 DEF MetricsInv, Exposed
      <3>2. shown[Sum] = 0
        BY <2>4 DEF MetricsInv, Exposed
      <3>3. \A b \in Les : begun[b] = 0
        BY <1>2, <2>2, <2>4 DEF MetricsInv, TypeOK, Stored, Bounds
      <3> QED
        BY <1>1, <1>3, <2>2, <2>4, <3>1, <3>2, <3>3 DEF Undisturbed
    <2>5. CASE reading = Count /\ value[Count] # 0
      BY <1>1, <1>2, <1>3, <2>5 DEF Undisturbed
    <2>6. CASE reading = Sum
      BY <1>1, <1>2, <1>3, <2>3, <2>6 DEF Undisturbed
    <2>7. CASE reading \in Les /\ reading # Buckets
      BY <1>1, <1>2, <1>3, <2>3, <2>7 DEF Undisturbed
    <2>8. CASE reading = Buckets
      <3>1. reading' = Rendered /\ reading \in Les /\ reading # Sum
        BY <1>1, <1>3, <2>8
      <3>2. shown'[Count] = value[Count] /\ shown'[Sum] = value[Sum]
        BY <1>2, <2>3, <3>1
      <3>3. \A b \in Les : shown'[b] = value[b]
        BY <1>2, <2>3, <2>8, <3>1
      <3>4. begun' = begun /\ value[Count] <= begun[Inf]
        BY <1>1, <1>2, <2>2
      <3> QED
        BY <2>2, <3>1, <3>2, <3>3, <3>4 DEF Undisturbed
    <2> QED
      BY <1>1, <2>4, <2>5, <2>6, <2>7, <2>8
  <1> QED
    BY <1>4, <1>5, <1>6, <1>7 DEF MetricsInv

-----------------------------------------------------------------------------

LEMMA MetricsInit == Init => MetricsInv
  <1> USE KeyNumbers
  <1> SUFFICES ASSUME Init PROVE MetricsInv
    OBVIOUS
  <1>1. /\ \A k \in Keys : value[k] = 0 /\ shown[k] = 0
        /\ \A b \in Bounds : begun[b] = 0
        /\ \A w \in Workers : at[w] = Idle
        /\ reading = Rendered /\ died = 0 /\ resent = 0 /\ overlap = 0 /\ scrapes = 0
        /\ Sum \in Keys /\ Count \in Keys /\ Bounds \subseteq Keys /\ Les \subseteq Bounds
    BY DEF Init, Fresh, Bounds
  <1>2. TypeOK
    BY <1>1 DEF Init, Fresh, TypeOK
  <1>3. /\ Recording = {} /\ Summed = {} /\ Uncounted = {}
        /\ \A b \in Bounds : Owed(b) = {} /\ Due(b) = {}
        /\ \A b, c \in Bounds : Between(b, c) = {}
    BY <1>1 DEF Recording, Summed, Uncounted, Owed, Due, Between
  <1>4. /\ Cardinality(Recording) = 0 /\ Cardinality(Summed) = 0
        /\ Cardinality(Uncounted) = 0
        /\ \A b \in Bounds : Cardinality(Owed(b)) = 0 /\ Cardinality(Due(b)) = 0
        /\ \A b, c \in Bounds : Cardinality(Between(b, c)) = 0
    BY <1>3, FS_EmptySet
  <1>5. Stored
    BY <1>1, <1>4 DEF Stored, Exact
  <1>6. Exposed
    BY <1>1 DEF Exposed, Seen
  <1>7. Undisturbed
    BY <1>1 DEF Undisturbed
  <1> QED
    BY <1>2, <1>5, <1>6, <1>7 DEF MetricsInv

LEMMA WorkerStep ==
    ASSUME MetricsInv, NEW w \in Workers,
           \/ \E d \in Bounds : Observe(w, d)
           \/ Increment(w) \/ AnswerLost(w) \/ Die(w)
    PROVE  MetricsInv'
  <1>1. TypeOK' /\ Stored' /\ Only(w)
    BY ObserveStored, IncrementStored, AnswerLostStored, DieStored DEF MetricsInv
  <1>2. Disturbs
    BY <1>1, WorkerDisturbs
  <1> QED
    BY <1>1, <1>2, DisturbsExposed DEF MetricsInv

LEMMA MetricsStep == MetricsInv /\ [Next]_vars => MetricsInv'
  <1> SUFFICES ASSUME MetricsInv, [Next]_vars PROVE MetricsInv'
    OBVIOUS
  <1>1. CASE Next
    BY <1>1, WorkerStep, ScrapeStep, ReadStep DEF Next, Bounds
  <1>2. CASE UNCHANGED vars
    <2>1. UNCHANGED <<value, at, dur, begun, died, resent, reading, shown, scrapes,
                      overlap>>
      BY <1>2 DEF vars, writeVars, readVars
    <2>2. Stored'
      BY <2>1, StoredAlone DEF MetricsInv
    <2>3. TypeOK' /\ Undisturbed'
      BY <2>1 DEF MetricsInv, TypeOK, Undisturbed, Quiet
    <2>4. Exposed'
      BY <2>1 DEF MetricsInv, Exposed, Seen, Late, Uncounted, Owed, Recording
    <2> QED
      BY <2>2, <2>3, <2>4 DEF MetricsInv
  <1> QED
    BY <1>1, <1>2

LEMMA MetricsAlways == Spec => []MetricsInv
  BY MetricsInit, MetricsStep, PTL DEF Spec

-----------------------------------------------------------------------------

\* The histogram, the loops over its keys and the histories keep their types; no
\* scrape reads past the last bucket (metrics.js:83-94, 103-134).
THEOREM HistogramTypeCorrect == Spec => []TypeOK
  <1>1. MetricsInv => TypeOK
    BY DEF MetricsInv
  <1> QED
    BY <1>1, MetricsAlways, PTL

\* Whatever workers do at once, die or send twice, no key of the histogram counts
\* more than one before it but for what ran twice, and none lacks more than the
\* observations on their way or cut short (metrics.js:83-94).
THEOREM StoredIsCumulative == Spec => []StoredCumulative
  <1>1. MetricsInv => StoredCumulative
    <2> SUFFICES ASSUME MetricsInv PROVE StoredCumulative
      OBVIOUS
    <2> USE KeyNumbers, SetsSized DEF MetricsInv
    <2>1. /\ Sum \in Keys /\ Count \in Keys /\ Bounds \subseteq Keys
          /\ \A k \in Keys : value[k] \in Nat
          /\ died \in Nat /\ resent \in Nat
          /\ \A b \in Bounds : begun[b] \in Nat
      BY DEF TypeOK, Bounds
    <2>2. value[Count] <= value[Sum] + resent
      BY <2>1 DEF Stored
    <2>3. ASSUME NEW b \in Bounds
          PROVE  /\ value[b] <= value[Count] + resent
                 /\ begun[b] <= value[b] + Cardinality(Recording) + died
      <3>1. Cardinality(Due(b)) <= Cardinality(Recording)
        BY SetsSmall
      <3> QED
        BY <2>1, <3>1 DEF Stored
    <2> QED
      BY <2>2, <2>3 DEF StoredCumulative, Bounds
  <1> QED
    BY <1>1, MetricsAlways, PTL

\* However many observations run into it, a scrape shows no bucket above the
\* count, or above a bucket of a larger bound, by more than those that were under
\* way, were cut short or ran twice (metrics.js:83-94, 115-127).
THEOREM SkewIsBounded == Spec => []ScrapeSkewBounded
  <1>1. MetricsInv => ScrapeSkewBounded
    <2> SUFFICES ASSUME MetricsInv, reading = Rendered,
                        NEW b \in Les, NEW c \in Les, b <= c
                 PROVE  /\ shown[b] <= shown[Count] + overlap + resent
                        /\ shown[b] <= shown[c] + overlap + died + resent
      BY KeyNumbers DEF ScrapeSkewBounded
    <2> QED
      BY KeyNumbers DEF MetricsInv, Exposed, Seen
  <1> QED
    BY <1>1, MetricsAlways, PTL

\* A scrape shows no count above its sum but for commands that ran twice: the sum
\* is written first and read second (metrics.js:85-86, 115-119).
THEOREM SumIsAhead == Spec => []SumCoversCount
  <1>1. MetricsInv => SumCoversCount
    BY KeyNumbers DEF MetricsInv, Exposed, Seen, SumCoversCount
  <1> QED
    BY <1>1, MetricsAlways, PTL

\* A scrape that nothing overlaps is exact (metrics.js:83-94, 103-134).
THEOREM QuietScrapeIsExact == Spec => []QuietScrapeExact
  <1>1. MetricsInv => QuietScrapeExact
    BY DEF MetricsInv, Undisturbed, Quiet, QuietScrapeExact
  <1> QED
    BY <1>1, MetricsAlways, PTL

=============================================================================

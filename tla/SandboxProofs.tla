--------------------------- MODULE SandboxProofs ---------------------------
(***************************************************************************)
(* What execute returns and what it leaves behind, proved for any number   *)
(* of executions, any outputs, any sharing of source files and any number  *)
(* of failing calls.                                                       *)
(*                                                                         *)
(* An execution shares only its source file with the others.  Execution    *)
(* says of one of them how its timer, its container and its outcome hang   *)
(* together at each await; Shared is about the files.                      *)
(*                                                                         *)
(* Before that: what the functions of Frames make of a sequence of bytes.  *)
(* Each recursive function is shown to exist and then used through its     *)
(* equation; lengths are run through by Induction, which is the existence  *)
(* of least elements.  Outputs says what of an execution's output has      *)
(* arrived and what has been published of it by then.                      *)
(***************************************************************************)
EXTENDS Sandbox, SequenceTheorems, WellFoundedInduction, TLAPS

-----------------------------------------------------------------------------
(* Induction.  The library has it for an operator; for a set it follows from*)
(* the well-foundedness of < on Nat.                                       *)

\* A set of natural numbers has a least one.
LEMMA Least ==
    ASSUME NEW T, T \subseteq Nat, T # {}
    PROVE  \E n \in T : \A m \in T : n <= m
  <1> DEFINE R == {ss \in Nat \X Nat : ss[1] < ss[2]}
  <1>1. IsWellFoundedOn(R, Nat)
    BY NatLessThanWellFounded DEF OpToRel
  <1>2. \A x, y \in Nat : y < x => <<y, x>> \in R
    BY SMT
  <1> HIDE DEF R
  <1>3. PICK x \in T : \A y \in T : ~ (<<y, x>> \in R)
    BY <1>1, WFMin
  <1>4. ASSUME NEW y \in T PROVE x <= y
    <2>1. x \in Nat /\ y \in Nat
      OBVIOUS
    <2>2. ~(y < x)
      BY <1>2, <1>3, <2>1
    <2> QED
      BY <2>1, <2>2
  <1> QED
    BY <1>4

LEMMA Induction ==
    ASSUME NEW T, 0 \in T, \A n \in Nat : n \in T => n + 1 \in T
    PROVE  \A n \in Nat : n \in T
  <1> SUFFICES ASSUME Nat \ T # {} PROVE FALSE
    OBVIOUS
  <1>1. PICK n \in Nat \ T : \A m \in Nat \ T : n <= m
    BY Least
  <1>2. n # 0 /\ n - 1 \in Nat /\ ~(n <= n - 1)
    OBVIOUS
  <1>3. n - 1 \in T
    BY <1>1, <1>2
  <1>4. (n - 1) + 1 = n
    OBVIOUS
  <1> QED
    BY <1>2, <1>3, <1>4

-----------------------------------------------------------------------------
(* Flattening.                                                             *)

\* The function within FlattenSeq: what the first sequences are together.
Concats(f, ss, n) == f = [i \in 1..n |-> IF i = 1 THEN ss[i] ELSE f[i - 1] \o ss[i]]

LEMMA ConcatsExist ==
    ASSUME NEW ss, NEW n \in Nat
    PROVE  \E f : Concats(f, ss, n)
  <1> DEFINE T == {m \in Nat : \E f : Concats(f, ss, m)}
  <1>1. 0 \in T
    <2>1. Concats([i \in 1..0 |-> 0], ss, 0)
      BY DEF Concats
    <2> QED
      BY <2>1
  <1>2. ASSUME NEW m \in Nat, m \in T PROVE m + 1 \in T
    <2>1. PICK f : Concats(f, ss, m)
      BY <1>2
    <2> DEFINE g == [i \in 1..m + 1 |-> IF i = 1 THEN ss[i] ELSE f[i - 1] \o ss[i]]
    <2>2. ASSUME NEW i \in 1..m PROVE g[i] = f[i]
      <3>1. f[i] = IF i = 1 THEN ss[i] ELSE f[i - 1] \o ss[i]
        BY <2>1 DEF Concats
      <3>2. i \in 1..m + 1
        OBVIOUS
      <3> QED
        BY <3>1, <3>2
    <2>3. \A i \in 1..m + 1 : i # 1 => i - 1 \in 1..m
      OBVIOUS
    <2>4. \A i \in 1..m + 1 : i # 1 => g[i - 1] = f[i - 1]
      <3> HIDE DEF g
      <3> QED
        BY <2>2, <2>3
    <2>5. g = [i \in 1..m + 1 |-> IF i = 1 THEN ss[i] ELSE g[i - 1] \o ss[i]]
      <3>1. /\ DOMAIN g = 1..m + 1
            /\ \A i \in 1..m + 1 : g[i] = IF i = 1 THEN ss[i] ELSE f[i - 1] \o ss[i]
        OBVIOUS
      <3>2. g = [i \in 1..m + 1 |-> g[i]]
        OBVIOUS
      <3> HIDE DEF g
      <3> QED
        BY <2>4, <3>1, <3>2
    <2>6. Concats(g, ss, m + 1)
      BY <2>5 DEF Concats
    <2> QED
      BY <2>6
  <1> HIDE DEF T
  <1>3. n \in T
    BY <1>1, <1>2, Induction
  <1> QED
    BY <1>3 DEF T

Agree(s, t, n) == \A i \in 1..n : s[i] = t[i]

LEMMA ConcatsAgree ==
    ASSUME NEW ss, NEW tt, NEW m \in Nat, NEW n \in Nat, NEW f, NEW g,
           Concats(f, ss, m), Concats(g, tt, n), m <= n, Agree(ss, tt, m)
    PROVE  Agree(f, g, m)
  <1> DEFINE T == {k \in Nat : k \in 1..m => f[k] = g[k]}
  <1>1. 0 \in T
    OBVIOUS
  <1>2. ASSUME NEW k \in Nat, k \in T PROVE k + 1 \in T
    <2> SUFFICES ASSUME k + 1 \in 1..m PROVE f[k + 1] = g[k + 1]
      OBVIOUS
    <2>1. k + 1 \in 1..n /\ (k + 1 # 1 => k \in 1..m) /\ (k + 1) - 1 = k
      OBVIOUS
    <2>2. f[k + 1] = IF k + 1 = 1 THEN ss[k + 1] ELSE f[k] \o ss[k + 1]
      BY <2>1 DEF Concats
    <2>3. g[k + 1] = IF k + 1 = 1 THEN tt[k + 1] ELSE g[k] \o tt[k + 1]
      BY <2>1 DEF Concats
    <2> QED
      BY <1>2, <2>1, <2>2, <2>3 DEF Agree
  <1> HIDE DEF T
  <1>3. \A k \in Nat : k \in T
    BY <1>1, <1>2, Induction
  <1> QED
    BY <1>3 DEF T, Agree

\* The function FlattenSeq chooses exists, and only one does.
LEMMA FlattenIs ==
    ASSUME NEW ss, Len(ss) \in Nat \ {0}, NEW f, Concats(f, ss, Len(ss))
    PROVE  FlattenSeq(ss) = f[Len(ss)]
  <1> DEFINE c == CHOOSE g : g = [i \in 1..Len(ss) |->
                       IF i = 1 THEN ss[i] ELSE g[i - 1] \o ss[i]]
  <1>1. FlattenSeq(ss) = c[Len(ss)]
    BY DEF FlattenSeq
  <1>2. \E g : g = [i \in 1..Len(ss) |->
                       IF i = 1 THEN ss[i] ELSE g[i - 1] \o ss[i]]
    BY ConcatsExist DEF Concats
  <1>3. c = [i \in 1..Len(ss) |-> IF i = 1 THEN ss[i] ELSE c[i - 1] \o ss[i]]
    BY <1>2
  <1>4. Concats(c, ss, Len(ss))
    BY <1>3 DEF Concats
  <1> HIDE DEF c
  <1>5. Agree(f, c, Len(ss))
    BY <1>4, ConcatsAgree DEF Agree
  <1> QED
    BY <1>1, <1>5 DEF Agree

LEMMA FlattenAppend ==
    ASSUME NEW S, NEW ss \in Seq(Seq(S)), NEW x \in Seq(S)
    PROVE  FlattenSeq(Append(ss, x)) = FlattenSeq(ss) \o x
  <1> DEFINE n == Len(ss)
             tt == Append(ss, x)
  <1>1. /\ n \in Nat /\ n + 1 \in Nat \ {0} /\ n <= n + 1
        /\ Len(tt) = n + 1 /\ tt[n + 1] = x
        /\ \A i \in 1..n : tt[i] = ss[i]
    OBVIOUS
  <1> HIDE DEF n, tt
  <1>2. PICK f : Concats(f, ss, n)
    BY <1>1, ConcatsExist
  <1>3. PICK g : Concats(g, tt, n + 1)
    BY <1>1, ConcatsExist
  <1>4. FlattenSeq(tt) = g[n + 1]
    BY <1>1, <1>3, FlattenIs
  <1>5. CASE n = 0
    <2>1. ss = <<>>
      BY <1>5 DEF n
    <2>2. FlattenSeq(ss) = ss
      BY <2>1 DEF FlattenSeq
    <2>3. g[n + 1] = tt[1]
      BY <1>3, <1>5 DEF Concats
    <2>4. <<>> \o x = x
      OBVIOUS
    <2> QED
      BY <1>1, <1>4, <1>5, <2>1, <2>2, <2>3, <2>4 DEF tt
  <1>6. CASE n # 0
    <2>1. FlattenSeq(ss) = f[n]
      BY <1>1, <1>2, <1>6, FlattenIs DEF n
    <2>a. Agree(f, g, n)
      <3>1. Agree(ss, tt, n)
        BY <1>1 DEF Agree
      <3>2. PICK k \in Nat : k = n + 1
        BY <1>1
      <3>3. n \in Nat /\ n <= k /\ Concats(g, tt, k)
        BY <1>1, <1>3, <3>2
      <3> QED
        BY <1>2, <3>1, <3>2, <3>3, ConcatsAgree
    <2>2. f[n] = g[n]
      BY <1>1, <1>6, <2>a DEF Agree
    <2>b. n + 1 \in 1..n + 1 /\ n + 1 # 1 /\ (n + 1) - 1 = n
      BY <1>1, <1>6
    <2>3. g[n + 1] = g[n] \o tt[n + 1]
      BY <1>3, <2>b DEF Concats
    <2> QED
      BY <1>1, <1>4, <2>1, <2>2, <2>3 DEF tt
  <1> QED
    BY <1>5, <1>6 DEF tt

LEMMA LastSplit ==
    ASSUME NEW S, NEW s \in Seq(S), s # <<>>
    PROVE  \E t \in Seq(S) : \E x \in S : s = Append(t, x)
  <1>0. PICK n \in Nat : Len(s) = n + 1
    <2>1. Len(s) \in Nat \ {0}
      BY EmptySeq
    <2> QED
      BY <2>1
  <1> DEFINE t == [i \in 1..n |-> s[i]]
  <1>1. t \in Seq(S) /\ Len(t) = n
    <2>1. \A i \in 1..n : s[i] \in S
      BY <1>0
    <2> QED
      BY <2>1
  <1>2. s[n + 1] \in S
    BY <1>0
  <1>3. \A i \in 1..n : t[i] = s[i]
    OBVIOUS
  <1> HIDE DEF t
  <1>4. /\ Append(t, s[n + 1]) \in Seq(S) /\ Len(Append(t, s[n + 1])) = n + 1
        /\ \A i \in 1..n + 1 : Append(t, s[n + 1])[i] =
             IF i <= n THEN t[i] ELSE s[n + 1]
    BY <1>1, <1>2
  <1>5. \A i \in 1..Len(s) : s[i] = Append(t, s[n + 1])[i]
    BY <1>0, <1>3, <1>4
  <1>6. s = Append(t, s[n + 1])
    BY <1>0, <1>4, <1>5, SeqEqual
  <1> QED
    BY <1>1, <1>2, <1>6

\* What holds of <<>>, and of Append(s, x) whenever of s, holds of every sequence.
LEMMA SequenceInduction ==
    ASSUME NEW S, NEW T, <<>> \in T,
           \A s \in Seq(S), x \in S : s \in T => Append(s, x) \in T
    PROVE  \A s \in Seq(S) : s \in T
  <1> DEFINE N == {n \in Nat : \A s \in Seq(S) : Len(s) = n => s \in T}
  <1>1. 0 \in N
    <2>1. \A s \in Seq(S) : Len(s) = 0 => s = <<>>
      OBVIOUS
    <2> QED
      BY <2>1
  <1>2. ASSUME NEW n \in Nat, n \in N PROVE n + 1 \in N
    <2>1. ASSUME NEW s \in Seq(S), Len(s) = n + 1 PROVE s \in T
      <3>1. s # <<>>
        BY <2>1
      <3>2. PICK t \in Seq(S) : \E x \in S : s = Append(t, x)
        BY <3>1, LastSplit
      <3>3. PICK x \in S : s = Append(t, x)
        BY <3>2
      <3>4. Len(t) = n
        BY <2>1, <3>3
      <3> QED
        BY <1>2, <3>3, <3>4
    <2> QED
      BY <2>1
  <1> HIDE DEF N
  <1>3. \A n \in Nat : n \in N
    BY <1>1, <1>2, Induction
  <1> QED
    BY <1>3 DEF N

LEMMA FlattenType ==
    ASSUME NEW S
    PROVE  \A ss \in Seq(Seq(S)) : FlattenSeq(ss) \in Seq(S)
  <1> DEFINE T == {ss \in Seq(Seq(S)) : FlattenSeq(ss) \in Seq(S)}
  <1>1. <<>> \in T
    <2>1. FlattenSeq(<<>>) = <<>>
      BY DEF FlattenSeq
    <2>2. \A A : <<>> \in Seq(A)
      OBVIOUS
    <2> QED
      BY <2>1, <2>2, Zenon
  <1>2. ASSUME NEW ss \in Seq(Seq(S)), NEW x \in Seq(S), ss \in T
        PROVE  Append(ss, x) \in T
    <2>1. FlattenSeq(ss) \in Seq(S)
      BY <1>2
    <2>2. FlattenSeq(Append(ss, x)) = FlattenSeq(ss) \o x
      BY FlattenAppend
    <2>3. FlattenSeq(ss) \o x \in Seq(S)
      BY <2>1, ConcatProperties
    <2>4. Append(ss, x) \in Seq(Seq(S))
      OBVIOUS
    <2> QED
      BY <2>2, <2>3, <2>4
  <1> HIDE DEF T
  <1>3. \A ss \in Seq(Seq(S)) : ss \in T
    BY <1>1, <1>2, SequenceInduction
  <1> QED
    BY <1>3 DEF T

-----------------------------------------------------------------------------
(* What is kept of a text.                                                 *)

\* What Kept flattens.
Choice(text, places) ==
    [i \in 1..Len(text) |-> IF i \in places THEN <<text[i]>> ELSE <<>>]

LEMMA ChoiceType ==
    ASSUME NEW S, NEW text \in Seq(S), NEW places
    PROVE  /\ Choice(text, places) \in Seq(Seq(S))
           /\ Len(Choice(text, places)) = Len(text)
  <1>1. \A i \in 1..Len(text) : (IF i \in places THEN <<text[i]>> ELSE <<>>) \in Seq(S)
    OBVIOUS
  <1>2. Len(text) \in Nat
    OBVIOUS
  <1> QED
    BY <1>1, <1>2 DEF Choice

LEMMA KeptIs == \A text, places : Kept(text, places) = FlattenSeq(Choice(text, places))
  BY DEF Kept, Choice

LEMMA KeptEmpty == \A places : Kept(<<>>, places) = <<>>
  <1>1. \A places : Choice(<<>>, places) = <<>>
    <2>1. \A places : /\ Choice(<<>>, places) \in Seq(Seq({}))
                      /\ Len(Choice(<<>>, places)) = 0
      BY ChoiceType, <<>> \in Seq({}), Len(<<>>) = 0
    <2> QED
      BY <2>1, EmptySeq
  <1>2. FlattenSeq(<<>>) = <<>>
    BY DEF FlattenSeq
  <1> QED
    BY <1>1, <1>2, KeptIs

LEMMA KeptType ==
    ASSUME NEW S, NEW text \in Seq(S), NEW places
    PROVE  Kept(text, places) \in Seq(S)
  BY ChoiceType, KeptIs, FlattenType

LEMMA KeptAppend ==
    ASSUME NEW S, NEW text \in Seq(S), NEW b \in S, NEW places
    PROVE  Kept(Append(text, b), places) =
             IF Len(text) + 1 \in places THEN Append(Kept(text, places), b)
             ELSE Kept(text, places)
  <1> DEFINE n == Len(text)
             last == IF n + 1 \in places THEN <<b>> ELSE <<>>
  <1>1. last \in Seq(S) /\ n \in Nat
    OBVIOUS
  <1>2. Choice(Append(text, b), places) = Append(Choice(text, places), last)
    <2>1. Append(text, b) \in Seq(S) /\ Len(Append(text, b)) = n + 1
      OBVIOUS
    <2>2. /\ Choice(Append(text, b), places) \in Seq(Seq(S))
          /\ Len(Choice(Append(text, b), places)) = n + 1
      BY <2>1, ChoiceType
    <2>3. /\ Choice(text, places) \in Seq(Seq(S))
          /\ Len(Choice(text, places)) = n
      BY ChoiceType
    <2>4. ASSUME NEW i \in 1..n + 1
          PROVE  Choice(Append(text, b), places)[i] =
                   IF i \in places THEN <<Append(text, b)[i]>> ELSE <<>>
      BY <2>1 DEF Choice
    <2>5. ASSUME NEW i \in 1..n
          PROVE  Choice(text, places)[i] = IF i \in places THEN <<text[i]>> ELSE <<>>
      BY DEF Choice
    <2>6. \A i \in 1..n + 1 : Append(text, b)[i] = IF i <= n THEN text[i] ELSE b
      OBVIOUS
    <2> HIDE DEF n, last
    <2>7. /\ Append(Choice(text, places), last) \in Seq(Seq(S))
          /\ Len(Append(Choice(text, places), last)) = n + 1
          /\ \A i \in 1..n + 1 : Append(Choice(text, places), last)[i] =
               IF i <= n THEN Choice(text, places)[i] ELSE last
      BY <1>1, <2>3, AppendProperties
    <2>8. ASSUME NEW i \in 1..n + 1
          PROVE  Choice(Append(text, b), places)[i] =
                   Append(Choice(text, places), last)[i]
      <3>1. CASE i <= n
        <4>1. i \in 1..n
          BY <1>1, <3>1
        <4> QED
          BY <2>4, <2>5, <2>6, <2>7, <3>1, <4>1
      <3>2. CASE ~(i <= n)
        <4>1. i = n + 1
          BY <1>1, <3>2
        <4> QED
          BY <2>4, <2>6, <2>7, <3>2, <4>1 DEF last
      <3> QED
        BY <3>1, <3>2
    <2> QED
      BY <2>2, <2>7, <2>8, SeqEqual
  <1>3. Kept(Append(text, b), places) = Kept(text, places) \o last
    BY <1>1, <1>2, ChoiceType, KeptIs, FlattenAppend
  <1>4. Kept(text, places) \in Seq(S)
    BY KeptType
  <1> QED
    BY <1>3, <1>4

LEMMA KeptSame ==
    ASSUME NEW text, NEW I, NEW J, \A i \in 1..Len(text) : i \in I <=> i \in J
    PROVE  Kept(text, I) = Kept(text, J)
  <1>1. Choice(text, I) = Choice(text, J)
    BY DEF Choice
  <1> QED
    BY <1>1, KeptIs

LEMMA WithoutType ==
    ASSUME NEW S, NEW text \in Seq(S), NEW c
    PROVE  Without(text, c) \in Seq(S)
  BY KeptType DEF Without

LEMMA WithoutEmpty == \A c : Without(<<>>, c) = <<>>
  BY KeptEmpty DEF Without

LEMMA WithoutAppend ==
    ASSUME NEW S, NEW text \in Seq(S), NEW b \in S, NEW c
    PROVE  Without(Append(text, b), c) =
             IF b # c THEN Append(Without(text, c), b) ELSE Without(text, c)
  <1> DEFINE n == Len(text)
             I == {i \in 1..Len(Append(text, b)) : Append(text, b)[i] # c}
             J == {i \in 1..n : text[i] # c}
  <1>1. /\ n \in Nat /\ Len(Append(text, b)) = n + 1 /\ Append(text, b)[n + 1] = b
        /\ \A i \in 1..n : Append(text, b)[i] = text[i]
    OBVIOUS
  <1>2. n + 1 \in I <=> b # c
    BY <1>1
  <1>3. \A i \in 1..n : i \in I <=> i \in J
    BY <1>1
  <1> HIDE DEF I, J
  <1>4. Kept(text, I) = Kept(text, J)
    BY <1>3, KeptSame
  <1>5. Kept(Append(text, b), I) =
          IF n + 1 \in I THEN Append(Kept(text, I), b) ELSE Kept(text, I)
    BY KeptAppend
  <1>6. Without(Append(text, b), c) = Kept(Append(text, b), I)
    BY DEF Without, I
  <1>7. Without(text, c) = Kept(text, J)
    BY DEF Without, J
  <1> QED
    BY <1>2, <1>4, <1>5, <1>6, <1>7

\* What is said of the parts can be said of the whole.
LEMMA WithoutConcat ==
    ASSUME NEW S, NEW s \in Seq(S), NEW c
    PROVE  \A t \in Seq(S) : Without(s \o t, c) = Without(s, c) \o Without(t, c)
  <1> DEFINE T == {t \in Seq(S) : Without(s \o t, c) = Without(s, c) \o Without(t, c)}
  <1>1. <<>> \in T
    <2>1. s \o <<>> = s /\ Without(s, c) \o <<>> = Without(s, c) /\ <<>> \in Seq(S)
      BY WithoutType, ConcatEmptySeq, EmptySeq
    <2> QED
      BY <2>1, WithoutEmpty
  <1>2. ASSUME NEW t \in Seq(S), NEW b \in S, t \in T PROVE Append(t, b) \in T
    <2>1. Without(s \o t, c) = Without(s, c) \o Without(t, c)
      BY <1>2
    <2>2. s \o t \in Seq(S) /\ s \o Append(t, b) = Append(s \o t, b)
      OBVIOUS
    <2>a. \A x \in Seq(S) : Without(Append(x, b), c) =
            IF b # c THEN Append(Without(x, c), b) ELSE Without(x, c)
      BY WithoutAppend
    <2>3. Without(s \o Append(t, b), c) =
            IF b # c THEN Append(Without(s \o t, c), b) ELSE Without(s \o t, c)
      BY <2>2, <2>a
    <2>4. Without(Append(t, b), c) =
            IF b # c THEN Append(Without(t, c), b) ELSE Without(t, c)
      BY <2>a
    <2>5. \A x, y \in Seq(S) : x \o Append(y, b) = Append(x \o y, b)
      OBVIOUS
    <2>6. Without(s, c) \in Seq(S) /\ Without(t, c) \in Seq(S)
      BY WithoutType
    <2>7. Without(s \o Append(t, b), c) = Without(s, c) \o Without(Append(t, b), c)
      <3>1. CASE b # c
        <4>1. Append(Without(s, c) \o Without(t, c), b)
                = Without(s, c) \o Append(Without(t, c), b)
          BY <2>5, <2>6
        <4> QED
          BY <2>1, <2>3, <2>4, <3>1, <4>1
      <3>2. CASE b = c
        BY <2>1, <2>3, <2>4, <3>2
      <3> QED
        BY <3>1, <3>2
    <2> QED
      BY <2>7
  <1> HIDE DEF T
  <1>3. \A t \in Seq(S) : t \in T
    BY <1>1, <1>2, SequenceInduction
  <1> QED
    BY <1>3 DEF T

\* Bytes that go anyway may go before.
LEMMA WithoutKept ==
    ASSUME NEW S, NEW c, NEW I
    PROVE  \A s \in Seq(S) :
             (\A i \in 1..Len(s) : s[i] # c => i \in I)
               => Without(Kept(s, I), c) = Without(s, c)
  <1> DEFINE Covered(s) == \A i \in 1..Len(s) : s[i] # c => i \in I
             T == {s \in Seq(S) : Covered(s) => Without(Kept(s, I), c) = Without(s, c)}
  <1>1. <<>> \in T
    <2>1. <<>> \in Seq(S)
      BY EmptySeq
    <2> QED
      BY <2>1, WithoutEmpty, KeptEmpty
  <1>2. ASSUME NEW s \in Seq(S), NEW b \in S, s \in T PROVE Append(s, b) \in T
    <2> SUFFICES ASSUME Covered(Append(s, b))
                 PROVE  Without(Kept(Append(s, b), I), c) = Without(Append(s, b), c)
      <3>1. Append(s, b) \in Seq(S)
        OBVIOUS
      <3> HIDE DEF Covered
      <3> QED
        BY <3>1
    <2>1. /\ Len(Append(s, b)) = Len(s) + 1 /\ Append(s, b)[Len(s) + 1] = b
          /\ \A i \in 1..Len(s) : Append(s, b)[i] = s[i]
          /\ Len(s) \in Nat
      OBVIOUS
    <2>2. Covered(s)
      BY <2>1
    <2>3. b # c => Len(s) + 1 \in I
      BY <2>1
    <2>4. Without(Kept(s, I), c) = Without(s, c)
      BY <1>2, <2>2
    <2> HIDE DEF Covered, T
    <2>5. Kept(s, I) \in Seq(S)
      BY KeptType
    <2>6. Kept(Append(s, b), I) =
            IF Len(s) + 1 \in I THEN Append(Kept(s, I), b) ELSE Kept(s, I)
      BY KeptAppend
    <2>7. \A x \in Seq(S) : Without(Append(x, b), c) =
            IF b # c THEN Append(Without(x, c), b) ELSE Without(x, c)
      BY WithoutAppend
    <2> QED
      BY <2>3, <2>4, <2>5, <2>6, <2>7
  <1> HIDE DEF T
  <1>3. \A s \in Seq(S) : s \in T
    BY <1>1, <1>2, SequenceInduction
  <1> QED
    BY <1>3 DEF T

LEMMA WithoutCommutes ==
    ASSUME NEW S, NEW c, NEW d
    PROVE  \A s \in Seq(S) : Without(Without(s, c), d) = Without(Without(s, d), c)
  <1> DEFINE T == {s \in Seq(S) : Without(Without(s, c), d) = Without(Without(s, d), c)}
  <1>1. <<>> \in T
    <2>1. <<>> \in Seq(S)
      BY EmptySeq
    <2> QED
      BY <2>1, WithoutEmpty
  <1>2. ASSUME NEW s \in Seq(S), NEW b \in S, s \in T PROVE Append(s, b) \in T
    <2>1. Without(s, c) \in Seq(S) /\ Without(s, d) \in Seq(S)
      BY WithoutType
    <2>2. \A x \in Seq(S) : \A e : Without(Append(x, b), e) =
            IF b # e THEN Append(Without(x, e), b) ELSE Without(x, e)
      BY WithoutAppend
    <2>3. Without(Without(s, c), d) = Without(Without(s, d), c)
      BY <1>2
    <2>4. Without(Without(Append(s, b), c), d) = Without(Without(Append(s, b), d), c)
      BY <2>1, <2>2, <2>3
    <2> QED
      BY <2>4
  <1> HIDE DEF T
  <1>3. \A s \in Seq(S) : s \in T
    BY <1>1, <1>2, SequenceInduction
  <1> QED
    BY <1>3 DEF T

-----------------------------------------------------------------------------
(* The frames of a buffer.                                                 *)

\* What is read from each place on, as FramesOf defines it.
FramesFrom(f, buffer, types, o) ==
    IF Complete(buffer, types, o)
      THEN <<FrameAt(buffer, o)>> \o f[FrameEnd(buffer, o)] ELSE <<>>
Reads(f, buffer, types) ==
    f = [o \in 0..Len(buffer) |-> FramesFrom(f, buffer, types, o)]

\* A frame is not empty, and ends within the buffer.
LEMMA FrameMoves ==
    ASSUME NEW buffer \in Seq(Nat), NEW types, NEW o \in 0..Len(buffer),
           Complete(buffer, types, o)
    PROVE  FrameEnd(buffer, o) \in 0..Len(buffer) /\ FrameEnd(buffer, o) > o
  <1>1. Len(buffer) \in Nat /\ HEADER \in Nat /\ HEADER >= 2
    BY HeaderAssumption
  <1>2. o + HEADER \in 1..Len(buffer)
    BY <1>1 DEF Complete
  <1>3. buffer[o + HEADER] \in Nat
    BY <1>2
  <1> QED
    BY <1>1, <1>3 DEF Complete, FrameEnd, Size

\* From every place something is read: by induction over what is left.
LEMMA ReadsExist ==
    ASSUME NEW buffer \in Seq(Nat), NEW types
    PROVE  \E f : Reads(f, buffer, types)
  <1> DEFINE n == Len(buffer)
             D(k) == {o \in 0..n : n - o <= k}
             Sol(f, k) == f = [o \in D(k) |-> FramesFrom(f, buffer, types, o)]
             T == {k \in Nat : \E f : Sol(f, k)}
  <1>0. n \in Nat
    OBVIOUS
  <1>1. 0 \in T
    <2> DEFINE g == [o \in D(0) |-> <<>>]
    <2>1. ASSUME NEW o \in D(0), NEW f PROVE FramesFrom(f, buffer, types, o) = <<>>
      <3>1. o \in 0..n /\ o = n
        BY <1>0
      <3>2. ~Complete(buffer, types, o)
        BY <1>0, <3>1, HeaderAssumption DEF Complete
      <3> QED
        BY <3>2 DEF FramesFrom
    <2>2. Sol(g, 0)
      <3> HIDE DEF D
      <3> QED
        BY <2>1
    <2> HIDE DEF Sol, g
    <2> QED
      BY <2>2
  <1>2. ASSUME NEW k \in Nat, k \in T PROVE k + 1 \in T
    <2>1. PICK f : Sol(f, k)
      BY <1>2
    <2> DEFINE g == [o \in D(k + 1) |-> FramesFrom(f, buffer, types, o)]
    <2>2. ASSUME NEW o \in D(k) PROVE o \in D(k + 1) /\ g[o] = f[o]
      <3>1. o \in D(k + 1)
        BY <1>0
      <3> HIDE DEF D
      <3> QED
        BY <2>1, <3>1
    <2>3. ASSUME NEW o \in D(k + 1)
          PROVE  FramesFrom(g, buffer, types, o) = FramesFrom(f, buffer, types, o)
      <3>1. CASE Complete(buffer, types, o)
        <4>1. FrameEnd(buffer, o) \in 0..n /\ FrameEnd(buffer, o) > o
          BY <3>1, FrameMoves
        <4>2. FrameEnd(buffer, o) \in D(k)
          BY <1>0, <4>1
        <4> HIDE DEF g, D
        <4> QED
          BY <2>2, <4>2 DEF FramesFrom
      <3>2. CASE ~Complete(buffer, types, o)
        BY <3>2 DEF FramesFrom
      <3> QED
        BY <3>1, <3>2
    <2>4. Sol(g, k + 1)
      <3> HIDE DEF D
      <3>1. g = [o \in D(k + 1) |-> FramesFrom(f, buffer, types, o)]
        OBVIOUS
      <3> HIDE DEF g
      <3>2. [o \in D(k + 1) |-> FramesFrom(g, buffer, types, o)]
              = [o \in D(k + 1) |-> FramesFrom(f, buffer, types, o)]
        BY <2>3
      <3> QED
        BY <3>1, <3>2
    <2> HIDE DEF Sol, g
    <2> QED
      BY <2>4
  <1>3. D(n) = 0..n
    BY <1>0
  <1> HIDE DEF T, D
  <1>4. n \in T
    BY <1>0, <1>1, <1>2, Induction
  <1>5. PICK f : Sol(f, n)
    BY <1>4 DEF T
  <1>6. Reads(f, buffer, types)
    BY <1>3, <1>5 DEF Reads
  <1> QED
    BY <1>6

LEMMA FramesOfIs ==
    ASSUME NEW buffer \in Seq(Nat), NEW types
    PROVE  \E f : Reads(f, buffer, types) /\ FramesOf(buffer, types) = f[0]
  <1> DEFINE c == CHOOSE f : f = [o \in 0..Len(buffer) |->
                    IF Complete(buffer, types, o)
                      THEN <<FrameAt(buffer, o)>> \o f[FrameEnd(buffer, o)] ELSE <<>>]
  <1>1. FramesOf(buffer, types) = c[0]
    BY DEF FramesOf
  <1>2. \E f : f = [o \in 0..Len(buffer) |->
                    IF Complete(buffer, types, o)
                      THEN <<FrameAt(buffer, o)>> \o f[FrameEnd(buffer, o)] ELSE <<>>]
    BY ReadsExist DEF Reads, FramesFrom
  <1>3. c = [o \in 0..Len(buffer) |->
                    IF Complete(buffer, types, o)
                      THEN <<FrameAt(buffer, o)>> \o c[FrameEnd(buffer, o)] ELSE <<>>]
    BY <1>2
  <1>4. Reads(c, buffer, types)
    BY <1>3 DEF Reads, FramesFrom
  <1> HIDE DEF c
  <1> QED
    BY <1>1, <1>4

LEMMA TextHasNoFrames ==
    ASSUME NEW buffer \in Seq(Nat), NEW types, ~Complete(buffer, types, 0)
    PROVE  FramesOf(buffer, types) = <<>>
  <1>1. PICK f : Reads(f, buffer, types) /\ FramesOf(buffer, types) = f[0]
    BY FramesOfIs
  <1>2. 0 \in 0..Len(buffer)
    OBVIOUS
  <1> QED
    BY <1>1, <1>2 DEF Reads, FramesFrom

-----------------------------------------------------------------------------
(* Docker's framing, and that it is read back.                             *)

FrameSet == [type : StreamTypes, payload : Seq(Nat)]
Encoded(frame) == Header(frame) \o frame.payload
Encodings(frames) == [i \in 1..Len(frames) |-> Header(frames[i]) \o frames[i].payload]

LEMMA HeaderIs ==
    ASSUME NEW f \in FrameSet
    PROVE  /\ Header(f) \in Seq(Nat) /\ Len(Header(f)) = HEADER
           /\ Header(f)[1] = f.type /\ Header(f)[HEADER] = Len(f.payload)
  <1>1. HEADER \in Nat /\ HEADER >= 2
    BY HeaderAssumption
  <1>2. f.type \in Nat /\ Len(f.payload) \in Nat /\ NUL \in Nat
    BY DEF FrameSet, StreamTypes, NUL
  <1>3. \A i \in 1..HEADER : (IF i = 1 THEN f.type
                         ELSE IF i = HEADER THEN Len(f.payload) ELSE NUL) \in Nat
    BY <1>2
  <1>4. Header(f) \in Seq(Nat) /\ Len(Header(f)) = HEADER
    BY <1>1, <1>3 DEF Header
  <1>5. 1 \in 1..HEADER /\ HEADER \in 1..HEADER /\ HEADER # 1
    BY <1>1
  <1> QED
    BY <1>4, <1>5 DEF Header

LEMMA EncodedIs ==
    ASSUME NEW f \in FrameSet
    PROVE  /\ Encoded(f) \in Seq(Nat) /\ Len(f.payload) \in Nat
           /\ Len(Encoded(f)) = HEADER + Len(f.payload)
           /\ Encoded(f)[1] = f.type /\ Encoded(f)[HEADER] = Len(f.payload)
           /\ \A i \in 1..Len(f.payload) : Encoded(f)[HEADER + i] = f.payload[i]
  <1>1. HEADER \in Nat /\ HEADER >= 2
    BY HeaderAssumption
  <1>2. f.payload \in Seq(Nat) /\ Len(f.payload) \in Nat
    BY DEF FrameSet
  <1>3. /\ Header(f) \o f.payload \in Seq(Nat)
        /\ Len(Header(f) \o f.payload) = HEADER + Len(f.payload)
        /\ \A i \in 1..HEADER + Len(f.payload) : (Header(f) \o f.payload)[i] =
             IF i <= HEADER THEN Header(f)[i] ELSE f.payload[i - HEADER]
    <2> DEFINE h == Header(f)
               p == f.payload
    <2>1. h \in Seq(Nat) /\ Len(h) = HEADER /\ p \in Seq(Nat)
      BY <1>2, HeaderIs
    <2> HIDE DEF h, p
    <2>2. /\ h \o p \in Seq(Nat) /\ Len(h \o p) = Len(h) + Len(p)
          /\ \A i \in 1..Len(h) + Len(p) : (h \o p)[i] =
               IF i <= Len(h) THEN h[i] ELSE p[i - Len(h)]
      BY <2>1, ConcatProperties
    <2> QED
      BY <2>1, <2>2 DEF h, p
  <1>4. \A i \in 1..Len(f.payload) :
          /\ HEADER + i \in 1..HEADER + Len(f.payload) /\ ~(HEADER + i <= HEADER)
          /\ (HEADER + i) - HEADER = i
    BY <1>1, <1>2
  <1>5. 1 \in 1..HEADER + Len(f.payload) /\ HEADER \in 1..HEADER + Len(f.payload)
    BY <1>1, <1>2
  <1> QED
    BY <1>1, <1>2, <1>3, <1>4, <1>5, HeaderIs DEF Encoded

LEMMA FramedEmpty == Framed(<<>>) = <<>>
  <1>1. [i \in 1..Len(<<>>) |-> Header(<<>>[i]) \o <<>>[i].payload] = <<>>
    OBVIOUS
  <1>2. FlattenSeq(<<>>) = <<>>
    BY DEF FlattenSeq
  <1> QED
    BY <1>1, <1>2 DEF Framed

LEMMA EncodingsType ==
    ASSUME NEW frames \in Seq(FrameSet)
    PROVE  Encodings(frames) \in Seq(Seq(Nat)) /\ Len(Encodings(frames)) = Len(frames)
  <1>1. \A i \in 1..Len(frames) : Header(frames[i]) \o frames[i].payload \in Seq(Nat)
    BY EncodedIs DEF Encoded
  <1>2. Len(frames) \in Nat
    OBVIOUS
  <1> QED
    BY <1>1, <1>2 DEF Encodings

LEMMA FramedType ==
    ASSUME NEW frames \in Seq(FrameSet)
    PROVE  Framed(frames) \in Seq(Nat)
  <1>1. Framed(frames) = FlattenSeq(Encodings(frames))
    BY DEF Framed, Encodings
  <1> QED
    BY <1>1, EncodingsType, FlattenType

LEMMA FramedAppend ==
    ASSUME NEW frames \in Seq(FrameSet), NEW f \in FrameSet
    PROVE  Framed(Append(frames, f)) = Framed(frames) \o Encoded(f)
  <1> DEFINE n == Len(frames)
  <1>1. /\ n \in Nat /\ Append(frames, f) \in Seq(FrameSet)
        /\ Len(Append(frames, f)) = n + 1
        /\ \A i \in 1..n + 1 : Append(frames, f)[i] = IF i <= n THEN frames[i] ELSE f
    OBVIOUS
  <1>2. /\ Encodings(frames) \in Seq(Seq(Nat)) /\ Len(Encodings(frames)) = n
        /\ Encodings(Append(frames, f)) \in Seq(Seq(Nat))
        /\ Len(Encodings(Append(frames, f))) = n + 1
        /\ Encoded(f) \in Seq(Nat)
    BY <1>1, EncodingsType, EncodedIs
  <1>3. \A i \in 1..n : Encodings(frames)[i] = Encoded(frames[i])
    BY DEF Encodings, Encoded
  <1>4. \A i \in 1..n + 1 :
          Encodings(Append(frames, f))[i] = Encoded(Append(frames, f)[i])
    BY <1>1 DEF Encodings, Encoded
  <1> HIDE DEF n
  <1>5. /\ Append(Encodings(frames), Encoded(f)) \in Seq(Seq(Nat))
        /\ Len(Append(Encodings(frames), Encoded(f))) = n + 1
        /\ \A i \in 1..n + 1 : Append(Encodings(frames), Encoded(f))[i] =
             IF i <= n THEN Encodings(frames)[i] ELSE Encoded(f)
    BY <1>1, <1>2, AppendProperties
  <1>6. ASSUME NEW i \in 1..n + 1
        PROVE  Encodings(Append(frames, f))[i] =
                 Append(Encodings(frames), Encoded(f))[i]
    <2>1. i <= n => i \in 1..n
      BY <1>1
    <2> QED
      BY <1>1, <1>3, <1>4, <1>5, <2>1
  <1>7. Encodings(Append(frames, f)) = Append(Encodings(frames), Encoded(f))
    BY <1>2, <1>5, <1>6, SeqEqual
  <1>8. FlattenSeq(Append(Encodings(frames), Encoded(f)))
          = FlattenSeq(Encodings(frames)) \o Encoded(f)
    BY <1>2, FlattenAppend
  <1>9. \A fs : Framed(fs) = FlattenSeq(Encodings(fs))
    BY DEF Framed, Encodings
  <1> QED
    BY <1>7, <1>8, <1>9

LEMMA SubSeqIs ==
    ASSUME NEW S, NEW s \in Seq(S), NEW m \in Int, NEW n \in Int,
           m >= 1, n <= Len(s), m <= n + 1
    PROVE  /\ SubSeq(s, m, n) \in Seq(S) /\ Len(SubSeq(s, m, n)) = n - m + 1
           /\ \A i \in 1..n - m + 1 : SubSeq(s, m, n)[i] = s[m + i - 1]
  <1>1. \A i \in m..n : s[i] \in S
    <2>1. \A i \in m..n : i \in 1..Len(s)
      OBVIOUS
    <2> QED
      BY <2>1, ElementOfSeq
  <1> QED
    BY <1>1, SubSeqProperties

\* A frame within a buffer is found.
LEMMA FrameFound ==
    ASSUME NEW f \in FrameSet, NEW before \in Seq(Nat), NEW after \in Seq(Nat),
           NEW buffer, buffer = before \o (Encoded(f) \o after)
    PROVE  /\ buffer \in Seq(Nat)
           /\ Len(before) \in 0..Len(buffer)
           /\ Complete(buffer, StreamTypes, Len(before))
           /\ FrameAt(buffer, Len(before)) = f
           /\ FrameEnd(buffer, Len(before)) = Len(before \o Encoded(f))
  <1> DEFINE m == Len(before)
             k == Len(f.payload)
             l == Len(after)
             e == Encoded(f)
  <1>1. HEADER \in Nat /\ HEADER >= 2 /\ m \in Nat /\ k \in Nat /\ l \in Nat
    BY HeaderAssumption, EncodedIs
  <1>2. e \in Seq(Nat) /\ Len(e) = HEADER + k
    BY EncodedIs
  <1> HIDE DEF m, k, l, e
  <1>3. /\ e \o after \in Seq(Nat) /\ Len(e \o after) = HEADER + k + l
        /\ \A i \in 1..HEADER + k : (e \o after)[i] = e[i]
    <2>1. /\ e \o after \in Seq(Nat) /\ Len(e \o after) = Len(e) + Len(after)
          /\ \A i \in 1..Len(e) + Len(after) : (e \o after)[i] =
               IF i <= Len(e) THEN e[i] ELSE after[i - Len(e)]
      BY <1>2, ConcatProperties
    <2> QED
      BY <1>1, <1>2, <2>1 DEF l
  <1>4. /\ buffer \in Seq(Nat) /\ Len(buffer) = m + (HEADER + k + l)
        /\ \A i \in 1..HEADER + k : buffer[m + i] = e[i]
    <2> DEFINE t == e \o after
    <2>1. /\ before \o t \in Seq(Nat) /\ Len(before \o t) = m + Len(t)
          /\ \A i \in 1..m + Len(t) : (before \o t)[i] =
               IF i <= m THEN before[i] ELSE t[i - m]
      BY <1>3, ConcatProperties DEF m
    <2>2. buffer = before \o t
      BY DEF e
    <2> HIDE DEF t
    <2>3. Len(t) = HEADER + k + l /\ \A i \in 1..HEADER + k : t[i] = e[i]
      BY <1>3 DEF t
    <2>4. \A i \in 1..HEADER + k :
            m + i \in 1..m + Len(t) /\ ~(m + i <= m) /\ (m + i) - m = i
      BY <1>1, <2>3
    <2>5. \A i \in 1..HEADER + k : (before \o t)[m + i] = t[i]
      BY <2>1, <2>4
    <2> QED
      BY <2>1, <2>2, <2>3, <2>5
  <1>5. 1 \in 1..HEADER + k /\ HEADER \in 1..HEADER + k
    BY <1>1
  <1>6. buffer[m + 1] = f.type /\ buffer[m + HEADER] = k
    BY <1>4, <1>5, EncodedIs DEF e, k
  <1>7. FrameEnd(buffer, m) = m + HEADER + k
    BY <1>6 DEF FrameEnd, Size
  <1>8. Complete(buffer, StreamTypes, m) /\ m \in 0..Len(buffer)
    <2>1. f.type \in StreamTypes
      BY DEF FrameSet
    <2> QED
      BY <1>1, <1>4, <1>6, <1>7, <2>1 DEF Complete
  <1>9. SubSeq(buffer, m + HEADER + 1, m + HEADER + k) = f.payload
    <2> DEFINE s == SubSeq(buffer, m + HEADER + 1, m + HEADER + k)
               lo == m + HEADER + 1
               hi == m + HEADER + k
    <2>2. /\ lo \in Int /\ hi \in Int /\ hi - lo + 1 = k
          /\ lo >= 1 /\ hi <= Len(buffer) /\ lo <= hi + 1
      BY <1>1, <1>4
    <2>b. s = SubSeq(buffer, lo, hi)
      OBVIOUS
    <2> HIDE DEF lo, hi, s
    <2>1. /\ s \in Seq(Nat) /\ Len(s) = hi - lo + 1
          /\ \A i \in 1..hi - lo + 1 : s[i] = buffer[lo + i - 1]
      <3>1. /\ SubSeq(buffer, lo, hi) \in Seq(Nat)
            /\ Len(SubSeq(buffer, lo, hi)) = hi - lo + 1
            /\ \A i \in 1..hi - lo + 1 : SubSeq(buffer, lo, hi)[i] = buffer[lo + i - 1]
        <4>1. buffer \in Seq(Nat)
          BY <1>4
        <4> QED
          BY <2>2, <4>1, SubSeqIs
      <3> QED
        BY <2>b, <3>1
    <2>3. /\ s \in Seq(Nat) /\ Len(s) = k
          /\ \A i \in 1..k : s[i] = buffer[lo + i - 1]
      BY <2>1, <2>2
    <2>4. \A i \in 1..k : lo + i - 1 = m + (HEADER + i) /\ HEADER + i \in 1..HEADER + k
      BY <1>1 DEF lo
    <2>5. ASSUME NEW i \in 1..k PROVE s[i] = f.payload[i]
      <3>1. s[i] = buffer[m + (HEADER + i)]
        BY <2>3, <2>4
      <3>2. buffer[m + (HEADER + i)] = e[HEADER + i]
        BY <1>4, <2>4
      <3>3. e[HEADER + i] = f.payload[i]
        BY EncodedIs DEF e, k
      <3> QED
        BY <3>1, <3>2, <3>3
    <2>6. f.payload \in Seq(Nat) /\ Len(f.payload) = k
      BY DEF FrameSet, k
    <2>7. s = f.payload
      BY <2>3, <2>5, <2>6, SeqEqual
    <2> QED
      BY <2>7 DEF s
  <1>10. FrameAt(buffer, m) = f
    BY <1>6, <1>7, <1>9 DEF FrameAt, FrameSet
  <1>11. Len(before \o Encoded(f)) = m + HEADER + k
    <2>1. Len(before \o e) = Len(before) + Len(e)
      BY <1>2, ConcatProperties
    <2> QED
      BY <1>1, <1>2, <2>1 DEF m, e
  <1> QED
    BY <1>4, <1>7, <1>8, <1>10, <1>11 DEF m

\* What is read from the start of what Docker has sent are the frames, and then
\* what follows them.
LEMMA FramesFound ==
    \A frames \in Seq(FrameSet), after \in Seq(Nat) : \A f :
      LET end == Len(Framed(frames))
      IN  Reads(f, Framed(frames) \o after, StreamTypes) /\ f[end] \in Seq(FrameSet)
            => f[0] = frames \o f[end]
  <1> DEFINE Found(fs, after, f) ==
               Reads(f, Framed(fs) \o after, StreamTypes)
                 /\ f[Len(Framed(fs))] \in Seq(FrameSet)
               => f[0] = fs \o f[Len(Framed(fs))]
             T == {fs \in Seq(FrameSet) :
                     \A after \in Seq(Nat) : \A f : Found(fs, after, f)}
  <1>1. <<>> \in T
    <2>1. \A after, f : Found(<<>>, after, f)
      <3>1. Len(Framed(<<>>)) = 0
        BY FramedEmpty
      <3> QED
        BY <3>1, ConcatEmptySeq
    <2>2. <<>> \in Seq(FrameSet)
      BY EmptySeq
    <2> HIDE DEF Found
    <2> QED
      BY <2>1, <2>2
  <1>2. ASSUME NEW fs \in Seq(FrameSet), NEW x \in FrameSet, fs \in T
        PROVE  Append(fs, x) \in T
    <2>1. ASSUME NEW after \in Seq(Nat), NEW f,
                 Reads(f, Framed(Append(fs, x)) \o after, StreamTypes),
                 f[Len(Framed(Append(fs, x)))] \in Seq(FrameSet)
          PROVE  f[0] = Append(fs, x) \o f[Len(Framed(Append(fs, x)))]
      <3> DEFINE m == Len(Framed(fs))
                 rest == f[Len(Framed(Append(fs, x)))]
                 buffer == Framed(fs) \o (Encoded(x) \o after)
      <3>1. /\ Framed(fs) \in Seq(Nat) /\ Encoded(x) \in Seq(Nat)
            /\ Framed(Append(fs, x)) = Framed(fs) \o Encoded(x)
            /\ Encoded(x) \o after \in Seq(Nat)
        BY FramedType, EncodedIs, FramedAppend, ConcatProperties
      <3>2. Framed(Append(fs, x)) \o after = buffer
        BY <3>1, ConcatAssociative
      <3>3. Reads(f, buffer, StreamTypes)
        BY <2>1, <3>2
      <3>4. /\ m \in 0..Len(buffer) /\ Complete(buffer, StreamTypes, m)
            /\ FrameAt(buffer, m) = x
            /\ FrameEnd(buffer, m) = Len(Framed(Append(fs, x)))
        <4> DEFINE before == Framed(fs)
        <4>1. before \in Seq(Nat) /\ buffer = before \o (Encoded(x) \o after)
          BY <3>1
        <4> HIDE DEF buffer
        <4>2. m = Len(before) /\ Framed(Append(fs, x)) = before \o Encoded(x)
          BY <3>1
        <4> HIDE DEF before, m
        <4>3. /\ Len(before) \in 0..Len(buffer)
              /\ Complete(buffer, StreamTypes, Len(before))
              /\ FrameAt(buffer, Len(before)) = x
              /\ FrameEnd(buffer, Len(before)) = Len(before \o Encoded(x))
          BY <4>1, FrameFound
        <4> QED
          BY <4>2, <4>3
      <3> HIDE DEF m, buffer
      <3>5. f[m] = <<x>> \o rest
        BY <3>3, <3>4 DEF Reads, FramesFrom
      <3> HIDE DEF rest
      <3>6. rest \in Seq(FrameSet) /\ <<x>> \in Seq(FrameSet)
        BY <2>1 DEF rest
      <3>7. f[m] \in Seq(FrameSet)
        BY <3>5, <3>6, ConcatProperties
      <3>8. f[0] = fs \o f[m]
        BY <1>2, <3>1, <3>3, <3>7 DEF m, buffer
      <3>9. fs \o (<<x>> \o rest) = (fs \o <<x>>) \o rest
        BY <3>6, ConcatAssociative
      <3>10. fs \o <<x>> = Append(fs, x)
        OBVIOUS
      <3> QED
        BY <3>5, <3>8, <3>9, <3>10 DEF rest
    <2>2. \A after \in Seq(Nat) : \A f : Found(Append(fs, x), after, f)
      BY <2>1
    <2>3. Append(fs, x) \in Seq(FrameSet)
      OBVIOUS
    <2> HIDE DEF Found
    <2> QED
      BY <2>2, <2>3
  <1> HIDE DEF T
  <1>3. \A fs \in Seq(FrameSet) : fs \in T
    BY <1>1, <1>2, SequenceInduction
  <1> QED
    BY <1>3 DEF T

\* What Docker frames is read back.
LEMMA FramesRead ==
    ASSUME NEW frames \in Seq(FrameSet)
    PROVE  FramesOf(Framed(frames), StreamTypes) = frames
  <1> DEFINE buffer == Framed(frames)
             n == Len(buffer)
  <1>1. buffer \in Seq(Nat) /\ n \in Nat /\ buffer \o <<>> = buffer /\ <<>> \in Seq(Nat)
    BY FramedType, ConcatEmptySeq, EmptySeq
  <1> HIDE DEF buffer, n
  <1>2. PICK f : Reads(f, buffer, StreamTypes) /\ FramesOf(buffer, StreamTypes) = f[0]
    BY <1>1, FramesOfIs
  <1>3. f[n] = <<>>
    <2>1. n \in 0..Len(buffer) /\ ~Complete(buffer, StreamTypes, n)
      BY <1>1, HeaderAssumption DEF n, Complete
    <2> QED
      BY <1>2, <2>1 DEF Reads, FramesFrom
  <1>4. <<>> \in Seq(FrameSet)
    BY EmptySeq
  <1>5. f[0] = frames \o <<>>
    BY <1>1, <1>2, <1>3, <1>4, FramesFound DEF buffer, n
  <1> QED
    BY <1>2, <1>5, ConcatEmptySeq DEF buffer

\* What is kept of the output of a command without a TTY is what it printed.
LEMMA LogsRead ==
    ASSUME NEW frames \in Seq(FrameSet)
    PROVE  /\ demultiplexLogs(Printed(frames).bytes).stdout = Printed(frames).stdout
           /\ demultiplexLogs(Printed(frames).bytes).stderr = Printed(frames).stderr
  <1>1. /\ Printed(frames).bytes = Framed(frames)
        /\ Printed(frames).stdout = Without(Joined(frames, {1}), NUL)
        /\ Printed(frames).stderr = Without(Joined(frames, {2}), NUL)
    BY DEF Printed
  <1>2. FramesOf(Framed(frames), StreamTypes) = frames
    BY FramesRead
  <1>3. CASE frames # <<>>
    BY <1>1, <1>2, <1>3 DEF demultiplexLogs
  <1>4. CASE frames = <<>>
    <2>1. \A types : Joined(<<>>, types) = <<>>
      <3>1. \A types : [i \in 1..Len(<<>>) |-> IF <<>>[i].type \in types
                                                 THEN <<>>[i].payload ELSE <<>>] = <<>>
        OBVIOUS
      <3>2. FlattenSeq(<<>>) = <<>>
        BY DEF FlattenSeq
      <3> QED
        BY <3>1, <3>2 DEF Joined
    <2> QED
      BY <1>1, <1>2, <1>4, <2>1, FramedEmpty, WithoutEmpty DEF demultiplexLogs
  <1> QED
    BY <1>3, <1>4

-----------------------------------------------------------------------------
(* The live output of text.                                                *)

\* A text without its carriage returns and NULs.
Plain(text) == Without(Without(text, CR), NUL)

LEMMA WithoutTwice ==
    ASSUME NEW S, NEW s \in Seq(S), NEW c
    PROVE  Without(Without(s, c), c) = Without(s, c)
  <1> DEFINE I == {i \in 1..Len(s) : s[i] # c}
  <1>1. Without(s, c) = Kept(s, I)
    BY DEF Without
  <1>2. \A i \in 1..Len(s) : s[i] # c => i \in I
    OBVIOUS
  <1> HIDE DEF I
  <1> QED
    BY <1>1, <1>2, WithoutKept

LEMMA PlainConcat ==
    ASSUME NEW s \in Seq(Nat), NEW t \in Seq(Nat)
    PROVE  Plain(s \o t) = Plain(s) \o Plain(t)
  <1> DEFINE u == Without(s, CR)
             v == Without(t, CR)
  <1>1. Without(s \o t, CR) = u \o v
    BY WithoutConcat
  <1>2. u \in Seq(Nat) /\ v \in Seq(Nat)
    BY WithoutType
  <1> HIDE DEF u, v
  <1>3. Without(u \o v, NUL) = Without(u, NUL) \o Without(v, NUL)
    BY <1>2, WithoutConcat
  <1> QED
    BY <1>1, <1>3 DEF Plain, u, v

\* normalizeTtyOutput drops nothing but CRs and NULs, and every NUL.
LEMMA NormalizedIsPlain ==
    ASSUME NEW s \in Seq(Nat)
    PROVE  /\ normalizeTtyOutput(s) \in Seq(Nat)
           /\ Without(normalizeTtyOutput(s), CR) = Plain(s)
  <1> DEFINE broken == {i \in 1..Len(s) - 1 : s[i] = CR /\ s[i + 1] = LF}
             I == 1..Len(s) \ broken
             k == Kept(s, I)
  <1>1. normalizeTtyOutput(s) = Without(k, NUL)
    BY DEF normalizeTtyOutput
  <1>2. \A i \in 1..Len(s) : s[i] # CR => i \in I
    OBVIOUS
  <1> HIDE DEF broken, I
  <1>3. k \in Seq(Nat)
    BY KeptType
  <1>4. Without(k, CR) = Without(s, CR)
    BY <1>2, WithoutKept
  <1> HIDE DEF k
  <1>5. Without(Without(k, NUL), CR) = Without(Without(k, CR), NUL)
    BY <1>3, WithoutCommutes
  <1>6. Without(k, NUL) \in Seq(Nat)
    BY <1>3, WithoutType
  <1> QED
    BY <1>1, <1>4, <1>5, <1>6 DEF Plain

\* What is kept of text is shown as it was published, but for the CRs.
LEMMA RecordIsPlain ==
    ASSUME NEW s \in Seq(Nat)
    PROVE  Without(normalizeTtyOutput(Without(s, NUL)), CR) = Plain(s)
  <1> DEFINE t == Without(s, NUL)
             u == Without(s, CR)
  <1>1. t \in Seq(Nat) /\ u \in Seq(Nat)
    BY WithoutType
  <1>2. Without(normalizeTtyOutput(t), CR) = Without(Without(t, CR), NUL)
    BY <1>1, NormalizedIsPlain DEF Plain
  <1>3. Without(t, CR) = Without(u, NUL)
    BY WithoutCommutes
  <1>4. Without(Without(u, NUL), NUL) = Without(u, NUL)
    BY <1>1, WithoutTwice
  <1> QED
    BY <1>2, <1>3, <1>4 DEF Plain

\* Text is kept as it is.
LEMMA TextLogs ==
    ASSUME NEW buffer \in Seq(Nat),
           buffer = <<>> \/ buffer[1] \notin StreamTypes
    PROVE  /\ demultiplexLogs(buffer).stdout = Without(buffer, NUL)
           /\ demultiplexLogs(buffer).stderr = <<>>
  <1>1. ~Complete(buffer, StreamTypes, 0)
    BY HeaderAssumption DEF Complete
  <1> QED
    BY <1>1, TextHasNoFrames DEF demultiplexLogs

\* Until it is decided whether the stream is framed, what comes is held back.
Held(text) == [pending |-> text, framed |-> "unknown", text |-> <<>>]

LEMMA HeldBack ==
    ASSUME NEW p \in Seq(Nat), NEW data \in Seq(Nat), Len(p \o data) < HEADER
    PROVE  publishFrames(Held(p), data) = Held(p \o data)
  <1>1. /\ Held(p).pending = p /\ Held(p).framed = "unknown"
        /\ \A q : [Held(p) EXCEPT !.pending = q] = Held(q)
    BY DEF Held
  <1>2. ~(Len(p \o data) >= HEADER)
    <2>1. HEADER \in Nat /\ Len(p \o data) \in Nat
      BY HeaderAssumption, ConcatProperties
    <2> QED
      BY <2>1
  <1> QED
    BY <1>1, <1>2 DEF publishFrames

\* Then text is published as it comes.
LEMMA TextDecided ==
    ASSUME NEW p \in Seq(Nat), NEW data \in Seq(Nat), Len(p \o data) >= HEADER,
           (p \o data)[1] \notin StreamTypes
    PROVE  publishFrames(Held(p), data)
             = [pending |-> <<>>, framed |-> "no",
                text |-> normalizeTtyOutput(p \o data)]
  <1> DEFINE q == p \o data
  <1>1. Held(p).pending = p /\ Held(p).framed = "unknown" /\ Held(p).text = <<>>
    BY DEF Held
  <1>2. ~Multiplexed(q)
    BY DEF Multiplexed
  <1>3. q \in Seq(Nat) /\ normalizeTtyOutput(q) \in Seq(Nat)
    BY ConcatProperties, NormalizedIsPlain
  <1>4. Len(q) >= HEADER
    OBVIOUS
  <1> HIDE DEF q
  <1>5. <<>> \o normalizeTtyOutput(q) = normalizeTtyOutput(q)
    BY <1>3, ConcatEmptySeq
  <1>6. publishFrames(Held(p), data)
             = [pending |-> <<>>, framed |-> "no",
                text |-> <<>> \o normalizeTtyOutput(q)]
    BY <1>1, <1>2, <1>4 DEF publishFrames, q
  <1> QED
    BY <1>5, <1>6 DEF q

LEMMA TextPublished ==
    ASSUME NEW l, l.framed = "no", l.pending = <<>>, NEW data \in Seq(Nat)
    PROVE  publishFrames(l, data)
             = [pending |-> <<>>, framed |-> "no",
                text |-> l.text \o normalizeTtyOutput(data)]
  <1>1. l.pending \o data = data
    BY ConcatEmptySeq
  <1> QED
    BY <1>1 DEF publishFrames

-----------------------------------------------------------------------------
(* The execution.                                                         *)

Exits == {0, 1, 137}
Outcomes == {Nothing, Thrown, Undefined}
              \cup {Returned(x, t) : x \in Exits, t \in BOOLEAN}

Cleanup == {"remove", "unlink", "ended"}
InPhase == {"exec", "stream", "inspect"}

\* TypeOK, with the domains it leaves open.
Typed ==
    /\ at \in [Execs -> Steps]
    /\ phase \in [Execs -> {"compile", "run"}]
    /\ armed \in [Execs -> BOOLEAN] /\ timedOut \in [Execs -> BOOLEAN]
    /\ sourced \in [Execs -> BOOLEAN] /\ guessed \in [Execs -> BOOLEAN]
    /\ deprived \in [Execs -> BOOLEAN] /\ litter \in [Execs -> BOOLEAN]
    /\ cut \in [Execs -> BOOLEAN] /\ stray \in [Execs -> BOOLEAN]
    /\ kill \in [Execs -> {"none", "sent", "failed", "done"}]
    /\ container \in [Execs -> {"none", "created", "running", "killed", "removed"}]
    /\ output \in [Execs -> {Blank} \cup CompileOutputs \cup RunOutputs]
    /\ got \in [Execs -> Nat]
    /\ code \in [Execs -> {None, 0, 1, 137}]
    /\ outcome \in [Execs -> Outcomes]
    /\ files \in SUBSET {Path[e] : e \in Execs}
    /\ faults \in 0..MaxFaults

\* The timer of the phase: a kill was sent if and only if it has fired, which is
\* within a phase and once at most.  Only its kill ends a container early.
Clock(e) ==
    /\ kill[e] # "none" <=> timedOut[e]
    /\ armed[e] => at[e] \in InPhase /\ ~timedOut[e]
    /\ at[e] \in {"idle", "create", "start"} => kill[e] = "none"
    /\ container[e] = "killed" => timedOut[e]

\* A stream that has ended was read to its end, or the container was killed, or
\* Docker cut it short.
Ended(e) ==
    \/ code[e] \in {0, 1} /\ got[e] = Len(output[e].bytes)
    \/ code[e] = 137 /\ timedOut[e]
    \/ cut[e] /\ (code[e] = 137 => timedOut[e])

\* A value says what the timer says, which does not fire any more.
Value(e) ==
    outcome[e].kind = "value" =>
        /\ outcome[e].timedOut = timedOut[e]
        /\ timedOut[e] \/
             /\ Ended(e)
             /\ outcome[e].exitCode # 0 => outcome[e].exitCode = code[e]
             /\ cut[e] \/ guessed[e] \/ outcome[e].exitCode = code[e]

Execution(e) ==
    /\ got[e] <= Len(output[e].bytes)
    /\ Clock(e)
    /\ at[e] \in {"exec", "stream"} => code[e] = None
    /\ at[e] = "inspect" => Ended(e)
    /\ outcome[e] # Nothing => at[e] \in Cleanup
    /\ Value(e)
    /\ at[e] \in {"idle", "create"} => container[e] = "none"
    /\ at[e] \in {"unlink", "ended"} =>
         container[e] \in {"none", "removed"} \/ stray[e]

Working(e) == at[e] \notin {"idle", "ended"}

\* The source file of an execution at work is there unless another has deleted
\* it; one that is there is somebody's to delete.
Shared ==
    /\ \A e \in Execs : Working(e) => Path[e] \in files \/ deprived[e]
    /\ \A e \in Execs : Path[e] \in files =>
         \E f \in Execs : Path[f] = Path[e] /\ (litter[f] \/ Working(f))
    /\ \A e \in Execs : outcome[e] = Undefined => deprived[e]

SandboxInv == Typed /\ (\A e \in Execs : Execution(e)) /\ Shared

-----------------------------------------------------------------------------
(* Outcomes and outputs.                                                   *)

LEMMA OutcomeFields ==
    /\ Nothing.kind = "none" /\ Thrown.kind = "error" /\ Undefined.kind = "undefined"
    /\ \A x \in Exits, t \in BOOLEAN :
         /\ Returned(x, t).kind = "value" /\ Returned(x, t).exitCode = x
         /\ Returned(x, t).timedOut = t
  BY DEF Nothing, Thrown, Undefined, Returned, Exits

LEMMA OutcomesDiffer ==
    /\ Thrown # Nothing /\ Undefined # Nothing /\ Thrown # Undefined
    /\ \A x \in Exits, t \in BOOLEAN :
         Returned(x, t) \notin {Nothing, Thrown, Undefined}
  BY OutcomeFields

LEMMA OutcomeTypes ==
    /\ {Nothing, Thrown, Undefined} \subseteq Outcomes
    /\ \A x \in Exits, t \in BOOLEAN : Returned(x, t) \in Outcomes
  BY DEF Outcomes

LEMMA OutputTypes ==
    \A o \in {Blank} \cup CompileOutputs \cup RunOutputs : o.bytes \in Seq(Nat)
  <1>1. Blank.bytes \in Seq(Nat)
    <2>1. Blank.bytes = <<>>
      BY DEF Blank
    <2> QED
      BY <2>1, EmptySeq
  <1>2. ASSUME NEW o \in CompileOutputs PROVE o.bytes \in Seq(Nat)
    <2>1. PICK frames \in CompileFrames : o = Printed(frames)
      BY DEF CompileOutputs
    <2>2. o.bytes = Framed(frames) /\ frames \in Seq(FrameSet)
      BY <2>1, OutputsAssumption DEF Printed, FrameSet
    <2> QED
      BY <2>2, FramedType
  <1>3. \A o \in RunOutputs : o.bytes \in Seq(Nat)
    BY OutputsAssumption DEF RunOutputs
  <1> QED
    BY <1>1, <1>2, <1>3

LEMMA OutputLengths ==
    \A o \in {Blank} \cup CompileOutputs \cup RunOutputs : Len(o.bytes) \in Nat
  BY OutputTypes, LenProperties

LEMMA TypedIsTypeOK ==
    ASSUME SandboxInv
    PROVE  TypeOK
  <1>1. \A e \in Execs : got[e] \in 0..Len(output[e].bytes)
    BY OutputLengths DEF SandboxInv, Typed, Execution
  <1>2. \A e \in Execs : outcome[e] \in {Nothing, Thrown, Undefined}
          \cup {Returned(x, t) : x \in {0, 1, 137}, t \in BOOLEAN}
    BY DEF SandboxInv, Typed, Outcomes, Exits
  <1> QED
    BY <1>1, <1>2 DEF SandboxInv, Typed, TypeOK

LEMMA SandboxInit == Init => SandboxInv
  <1> SUFFICES ASSUME Init PROVE SandboxInv
    OBVIOUS
  <1>1. Typed
    BY OutcomeTypes, FaultsAssumption DEF Init, Typed, Steps
  <1>2. ASSUME NEW e \in Execs PROVE Execution(e)
    <2>1. Len(Blank.bytes) = 0
      BY DEF Blank
    <2>2. got[e] <= Len(output[e].bytes)
      BY <2>1 DEF Init
    <2>3. Clock(e)
      BY DEF Init, Clock
    <2>4. outcome[e] = Nothing /\ Value(e)
      BY OutcomeFields DEF Init, Value
    <2> QED
      BY <2>2, <2>3, <2>4 DEF Init, Execution
  <1>3. Shared
    BY OutcomesDiffer DEF Init, Shared, Working
  <1> QED
    BY <1>1, <1>2, <1>3 DEF SandboxInv

-----------------------------------------------------------------------------
(* What a step does to the execution it belongs to, and that it does       *)
(* nothing to the others but for the history of deleted files.             *)

Same(f) ==
    /\ at'[f] = at[f] /\ phase'[f] = phase[f] /\ armed'[f] = armed[f]
    /\ timedOut'[f] = timedOut[f] /\ kill'[f] = kill[f]
    /\ container'[f] = container[f] /\ output'[f] = output[f] /\ got'[f] = got[f]
    /\ code'[f] = code[f] /\ outcome'[f] = outcome[f]
    /\ guessed'[f] = guessed[f] /\ litter'[f] = litter[f]
    /\ cut'[f] = cut[f] /\ stray'[f] = stray[f]

LEMMA SameExecution ==
    ASSUME NEW f \in Execs, Execution(f), Same(f)
    PROVE  Execution(f)'
  BY DEF Same, Execution, Clock, Ended, Value

\* What is to be shown of a step of e.
Good(e) == Typed' /\ Execution(e)' /\ \A f \in Execs \ {e} : Same(f)

LEMMA WriteStep ==
    ASSUME SandboxInv, NEW e \in Execs, Write(e) \/ WriteFails(e)
    PROVE  Good(e)
  <1> USE DEF SandboxInv, Typed, Goto, Set, phaseVars, fileVars
  <1>1. CASE Write(e)
    <2> USE <1>1 DEF Write
    <2>1. Typed'
      BY DEF Steps
    <2>2. \A f \in Execs \ {e} : Same(f)
      BY DEF Same
    <2>3. Execution(e) /\ at'[e] = "create"
      OBVIOUS
    <2>4. Clock(e)'
      BY <2>3 DEF Execution, Clock, InPhase
    <2>5. outcome'[e] = Nothing /\ Value(e)'
      BY <2>3, OutcomeFields DEF Execution, Value, Cleanup
    <2>6. Execution(e)'
      BY <2>3, <2>4, <2>5 DEF Execution
    <2> QED
      BY <2>1, <2>2, <2>6 DEF Good
  <1>2. CASE WriteFails(e)
    <2> USE <1>2 DEF WriteFails
    <2>a. /\ litter' = litter \/ litter' = [litter EXCEPT ![e] = TRUE]
          /\ files' = files \/ files' = files \cup {Path[e]}
      OBVIOUS
    <2>b. litter' \in [Execs -> BOOLEAN] /\ files' \in SUBSET {Path[f] : f \in Execs}
      <3>1. CASE litter' = litter
        BY <2>a, <3>1
      <3>2. CASE litter' = [litter EXCEPT ![e] = TRUE]
        BY <2>a, <3>2
      <3> QED
        BY <2>a, <3>1, <3>2
    <2>c. at' \in [Execs -> Steps] /\ outcome' \in [Execs -> Outcomes]
      BY OutcomeTypes DEF Steps
    <2>d. faults' \in 0..MaxFaults
      BY FaultsAssumption DEF Fault
    <2>1. Typed'
      BY <2>b, <2>c, <2>d
    <2>2. \A f \in Execs \ {e} : Same(f)
      BY DEF Same
    <2>3. outcome'[e] = Thrown /\ at'[e] \in Cleanup
      BY DEF Cleanup
    <2>4. Value(e)'
      BY <2>3, OutcomeFields DEF Value
    <2>5. Execution(e)
      OBVIOUS
    <2>6. Clock(e)'
      BY <2>5 DEF Execution, Clock, InPhase
    <2>7. Execution(e)'
      BY <2>3, <2>4, <2>5, <2>6 DEF Execution
    <2> QED
      BY <2>1, <2>2, <2>7 DEF Good
  <1> QED
    BY <1>1, <1>2

LEMMA CreateStep ==
    ASSUME SandboxInv, NEW e \in Execs, Create(e) \/ CreateFails(e)
    PROVE  Good(e)
  <1> USE DEF SandboxInv, Typed, Goto, Set, phaseVars, fileVars
  <1>1. CASE Create(e)
    <2> USE <1>1 DEF Create
    <2>1. Typed'
      BY DEF Steps
    <2>2. \A f \in Execs \ {e} : Same(f)
      BY DEF Same
    <2>3. Execution(e) /\ outcome'[e] = Nothing
      BY DEF Execution, Cleanup
    <2>4. Clock(e)'
      BY <2>3 DEF Execution, Clock, InPhase
    <2>5. Value(e)'
      BY <2>3, OutcomeFields DEF Value
    <2>6. Execution(e)'
      BY <2>3, <2>4, <2>5 DEF Execution
    <2> QED
      BY <2>1, <2>2, <2>6 DEF Good
  <1>2. CASE CreateFails(e)
    <2> USE <1>2 DEF CreateFails
    <2>a. /\ container' \in [Execs -> {"none", "created", "running", "killed", "removed"}]
          /\ stray' \in [Execs -> BOOLEAN]
      <3>1. CASE container' = Set(container, e, "created") /\ stray' = Set(stray, e, TRUE)
        BY <3>1
      <3>2. CASE UNCHANGED <<container, stray>>
        BY <3>2
      <3> QED
        BY <3>1, <3>2
    <2>b. faults' \in 0..MaxFaults
      BY FaultsAssumption DEF Fault
    <2>c. at' \in [Execs -> Steps] /\ outcome' \in [Execs -> Outcomes]
      BY OutcomeTypes DEF Steps
    <2>1. Typed'
      BY <2>a, <2>b, <2>c
    <2>2. \A f \in Execs \ {e} : Same(f)
      BY DEF Same
    <2>3. outcome'[e] = Thrown /\ at'[e] \in Cleanup
      BY DEF Cleanup
    <2>4. Value(e)'
      BY <2>3, OutcomeFields DEF Value
    <2>5. Execution(e)
      OBVIOUS
    <2>6. Clock(e)'
      BY <2>5 DEF Execution, Clock, InPhase
    <2>7. Execution(e)'
      BY <2>3, <2>4, <2>5, <2>6 DEF Execution
    <2> QED
      BY <2>1, <2>2, <2>7 DEF Good
  <1> QED
    BY <1>1, <1>2

\* A phase begins with a timer that has not fired.
LEMMA EnterStep ==
    ASSUME SandboxInv, NEW e \in Execs, NEW ph \in {"compile", "run"},
           EnterPhase(e, ph)
    PROVE  /\ phase' \in [Execs -> {"compile", "run"}]
           /\ armed' \in [Execs -> BOOLEAN] /\ timedOut' \in [Execs -> BOOLEAN]
           /\ output' \in [Execs -> {Blank} \cup CompileOutputs \cup RunOutputs]
           /\ got' \in [Execs -> Nat]
           /\ code' \in [Execs -> {None, 0, 1, 137}]
           /\ cut' \in [Execs -> BOOLEAN]
           /\ armed'[e] /\ ~timedOut'[e] /\ got'[e] = 0 /\ code'[e] = None
           /\ 0 <= Len(output'[e].bytes)
           /\ \A f \in Execs \ {e} :
                /\ phase'[f] = phase[f] /\ armed'[f] = armed[f]
                /\ timedOut'[f] = timedOut[f] /\ output'[f] = output[f]
                /\ got'[f] = got[f] /\ code'[f] = code[f] /\ cut'[f] = cut[f]
  <1> USE DEF SandboxInv, Typed
  <1>1. PICK o \in CompileOutputs \cup RunOutputs : output' = [output EXCEPT ![e] = o]
    BY DEF EnterPhase, Set
  <1>2. output'[e] = o /\ Len(o.bytes) \in Nat
    BY <1>1, OutputLengths
  <1> QED
    BY <1>1, <1>2 DEF EnterPhase, Set

LEMMA StartStep ==
    ASSUME SandboxInv, NEW e \in Execs, Start(e) \/ StartFails(e)
    PROVE  Good(e)
  <1> USE DEF SandboxInv, Typed
  <1>1. CASE Start(e)
    <2>1. phase[e] \in {"compile", "run"} /\ EnterPhase(e, phase[e])
      BY <1>1 DEF Start
    <2>2. Typed'
      BY <1>1, <2>1, EnterStep DEF Start, Goto, Set, Steps
    <2>3. \A f \in Execs \ {e} : Same(f)
      BY <1>1, <2>1, EnterStep DEF Start, Goto, Set, Same
    <2>4. Execution(e)
      OBVIOUS
    <2>5. kill[e] = "none" /\ container'[e] = "running" /\ outcome[e] = Nothing
          /\ at'[e] = "exec"
      BY <1>1, <2>4 DEF Start, Goto, Set, Execution, Clock, Cleanup
    <2>6. Clock(e)'
      BY <1>1, <2>1, <2>5, EnterStep DEF Start, Clock, InPhase
    <2>7. Value(e)' /\ outcome'[e] = Nothing
      BY <1>1, <2>5, OutcomeFields DEF Start, Value
    <2>8. Execution(e)'
      BY <2>1, <2>5, <2>6, <2>7, EnterStep DEF Execution
    <2> QED
      BY <2>2, <2>3, <2>8 DEF Good
  <1>2. CASE StartFails(e)
    <2> USE <1>2 DEF StartFails, Goto, Set, NoFault, phaseVars, fileVars
    <2>1. Typed'
      BY OutcomeTypes, FaultsAssumption DEF Fault, Steps
    <2>2. \A f \in Execs \ {e} : Same(f)
      BY DEF Same
    <2>3. outcome'[e] = Thrown /\ at'[e] \in Cleanup
      BY DEF Cleanup
    <2>4. Value(e)'
      BY <2>3, OutcomeFields DEF Value
    <2>5. Execution(e)
      OBVIOUS
    <2>6. Clock(e)'
      BY <2>5 DEF Execution, Clock, InPhase
    <2>7. Execution(e)'
      BY <2>3, <2>4, <2>5, <2>6 DEF Execution
    <2> QED
      BY <2>1, <2>2, <2>7 DEF Good
  <1> QED
    BY <1>1, <1>2

LEMMA ExecStartsStep ==
    ASSUME SandboxInv, NEW e \in Execs, ExecStarts(e)
    PROVE  Good(e)
  <1> USE DEF SandboxInv, Typed, ExecStarts, Goto, Set, phaseVars, fileVars
  <1>1. Typed'
    BY DEF Steps
  <1>2. \A f \in Execs \ {e} : Same(f)
    BY DEF Same
  <1>3. Execution(e)
    OBVIOUS
  <1>4. Clock(e)'
    BY <1>3 DEF Execution, Clock, InPhase
  <1>5. outcome'[e] = Nothing /\ Value(e)'
    BY <1>3, OutcomeFields DEF Execution, Value, Cleanup
  <1>6. Execution(e)'
    BY <1>3, <1>4, <1>5 DEF Execution
  <1> QED
    BY <1>1, <1>2, <1>6 DEF Good

LEMMA DataStep ==
    ASSUME SandboxInv, NEW e \in Execs, NEW n \in 1..Len(output[e].bytes), Data(e, n)
    PROVE  Good(e)
  <1> USE DEF SandboxInv, Typed, Data, Set, fileVars
  <1>0. Len(output[e].bytes) \in Nat /\ n \in Nat
    BY OutputLengths
  <1>1. Typed'
    BY <1>0
  <1>2. \A f \in Execs \ {e} : Same(f)
    BY DEF Same
  <1>3. Execution(e)
    OBVIOUS
  <1>4. Clock(e)'
    BY <1>3 DEF Execution, Clock, InPhase
  <1>5. outcome'[e] = Nothing /\ Value(e)'
    BY <1>3, OutcomeFields DEF Execution, Value, Cleanup
  <1>6. (got[e] <= Len(output[e].bytes))'
    BY <1>0
  <1>7. Execution(e)'
    BY <1>3, <1>4, <1>5, <1>6 DEF Execution
  <1> QED
    BY <1>1, <1>2, <1>7 DEF Good

LEMMA StreamEndsStep ==
    ASSUME SandboxInv, NEW e \in Execs, StreamEnds(e) \/ StreamBreaks(e) \/ CommandEnds(e)
    PROVE  Good(e)
  <1> USE DEF SandboxInv, Typed, Goto, Set, fileVars
  <1>1. Execution(e) /\ Len(output[e].bytes) \in Nat
    BY OutputLengths
  <1>2. /\ UNCHANGED <<phase, armed, timedOut, output, got, live, kill, container,
                       outcome, files, sourced, deprived, litter, guessed, stray>>
        /\ at[e] \in {"stream", "inspect"} /\ at' = [at EXCEPT ![e] = "inspect"]
        /\ faults' \in 0..MaxFaults
    <2>1. CASE StreamEnds(e)
      BY <2>1 DEF StreamEnds
    <2>2. CASE StreamBreaks(e)
      BY <2>2, FaultsAssumption DEF StreamBreaks, Fault
    <2>3. CASE CommandEnds(e)
      <3>1. at' = at /\ at[e] = "inspect"
        BY <2>3 DEF CommandEnds
      <3>2. at' = [at EXCEPT ![e] = "inspect"]
        BY <3>1
      <3> QED
        BY <2>3, <3>1, <3>2 DEF CommandEnds
    <2> QED
      BY <2>1, <2>2, <2>3
  <1>3. /\ code' = code \/ (\E x \in {0, 1, 137} : code' = [code EXCEPT ![e] = x])
        /\ cut' = cut \/ cut' = [cut EXCEPT ![e] = TRUE]
    BY DEF StreamEnds, StreamBreaks, CommandEnds, Ends
  <1>4. code' \in [Execs -> {None, 0, 1, 137}] /\ cut' \in [Execs -> BOOLEAN]
    <2>1. code' \in [Execs -> {None, 0, 1, 137}]
      <3>1. CASE code' = code
        BY <3>1
      <3>2. CASE \E x \in {0, 1, 137} : code' = [code EXCEPT ![e] = x]
        BY <3>2
      <3> QED
        BY <1>3, <3>1, <3>2
    <2>2. cut' \in [Execs -> BOOLEAN]
      <3>1. CASE cut' = cut
        BY <3>1
      <3>2. CASE cut' = [cut EXCEPT ![e] = TRUE]
        BY <3>2
      <3> QED
        BY <1>3, <3>1, <3>2
    <2> QED
      BY <2>1, <2>2
  <1>5. Typed'
    <2>1. at' \in [Execs -> Steps]
      BY <1>2 DEF Steps
    <2> QED
      BY <1>2, <1>4, <2>1
  <1>6. \A f \in Execs \ {e} : Same(f)
    BY <1>2, <1>3 DEF Same
  <1>7. Clock(e)'
    BY <1>1, <1>2 DEF Execution, Clock, InPhase
  <1>8. outcome'[e] = Nothing /\ Value(e)'
    BY <1>1, <1>2, OutcomeFields DEF Execution, Value, Cleanup
  <1>9. Ended(e)'
    <2>1. CASE StreamEnds(e)
      <3>1. code'[e] \in {0, 1} \/ (code'[e] = 137 /\ timedOut[e])
        BY <1>1, <2>1 DEF StreamEnds, Ends, Execution, Clock
      <3>2. code'[e] # 137 => got[e] = Len(output[e].bytes)
        BY <2>1 DEF StreamEnds
      <3> QED
        BY <1>2, <3>1, <3>2 DEF Ended
    <2>2. CASE StreamBreaks(e)
      <3>1. cut'[e] /\ code'[e] = None
        BY <1>1, <2>2 DEF StreamBreaks, Execution
      <3>2. None # 137
        BY DEF None
      <3> QED
        BY <3>1, <3>2 DEF Ended
    <2>3. CASE CommandEnds(e)
      <3>1. at[e] = "inspect" /\ code[e] = None /\ cut' = cut
        BY <2>3 DEF CommandEnds
      <3>2. cut[e]
        BY <1>1, <3>1 DEF Execution, Ended, None
      <3>3. code'[e] = 137 => timedOut[e]
        BY <1>1, <2>3 DEF CommandEnds, Ends, Execution, Clock
      <3> QED
        BY <1>2, <3>1, <3>2, <3>3 DEF Ended
    <2> QED
      BY <2>1, <2>2, <2>3
  <1>10. Execution(e)'
    BY <1>1, <1>2, <1>7, <1>8, <1>9 DEF Execution
  <1> QED
    BY <1>5, <1>6, <1>10 DEF Good

\* executePhase returns: x is the command's exit code, unless it was not found
\* out, the stream was cut or the timer fired; and if not, x is 0.
LEMMA ReturnStep ==
    ASSUME SandboxInv, NEW e \in Execs, at[e] = "inspect", NEW x \in Exits,
           PhaseReturns(e, x), UNCHANGED <<kill, container, fileVars, stray>>,
           guessed' \in [Execs -> BOOLEAN], faults' \in 0..MaxFaults,
           \A f \in Execs \ {e} : guessed'[f] = guessed[f],
           x # 0 => x = code[e], cut[e] \/ guessed'[e] \/ x = code[e]
    PROVE  Good(e)
  <1> USE DEF SandboxInv, Typed, Goto, Set, fileVars
  <1>1. Execution(e) /\ Ended(e)
    BY DEF Execution
  <1>2. CASE phase[e] = "compile" /\ ~timedOut[e] /\ x = 0
    <2>1. EnterPhase(e, "run") /\ at' = [at EXCEPT ![e] = "exec"]
          /\ UNCHANGED outcome
      BY <1>2 DEF PhaseReturns
    <2>2. Typed'
      BY <2>1, EnterStep DEF Steps
    <2>3. \A f \in Execs \ {e} : Same(f)
      BY <2>1, EnterStep DEF Same
    <2>4. Clock(e)'
      BY <1>1, <1>2, <2>1, EnterStep DEF Execution, Clock, InPhase
    <2>5. outcome'[e] = Nothing /\ Value(e)'
      BY <1>1, <2>1, OutcomeFields DEF Execution, Value, Cleanup
    <2>6. at'[e] = "exec"
      BY <2>1
    <2>7. Execution(e)'
      BY <2>1, <2>4, <2>5, <2>6, EnterStep DEF Execution
    <2> QED
      BY <2>2, <2>3, <2>7 DEF Good
  <1>3. CASE ~(phase[e] = "compile" /\ ~timedOut[e] /\ x = 0)
    <2>1. /\ at' = [at EXCEPT ![e] = "remove"] /\ armed' = [armed EXCEPT ![e] = FALSE]
          /\ outcome' = [outcome EXCEPT ![e] = Returned(x, timedOut[e])]
          /\ UNCHANGED <<phase, timedOut, output, got, live, code, cut>>
      BY <1>3 DEF PhaseReturns
    <2>2. timedOut[e] \in BOOLEAN /\ Returned(x, timedOut[e]) \in Outcomes
      BY OutcomeTypes
    <2>3. Typed'
      BY <2>1, <2>2 DEF Steps
    <2>4. \A f \in Execs \ {e} : Same(f)
      BY <2>1 DEF Same
    <2>5. at'[e] = "remove" /\ ~armed'[e] /\ outcome'[e] = Returned(x, timedOut[e])
      BY <2>1
    <2>6. outcome'[e].timedOut = timedOut[e] /\ outcome'[e].exitCode = x
      BY <2>2, <2>5, OutcomeFields
    <2>7. Clock(e)'
      BY <1>1, <2>1, <2>5 DEF Execution, Clock
    <2>8. Ended(e)'
      BY <1>1, <2>1 DEF Ended
    <2>9. Value(e)'
      BY <2>1, <2>6, <2>8 DEF Value
    <2>10. Execution(e)'
      BY <1>1, <2>1, <2>5, <2>7, <2>9 DEF Execution, Cleanup
    <2> QED
      BY <2>3, <2>4, <2>10 DEF Good
  <1> QED
    BY <1>2, <1>3

LEMMA InspectStep ==
    ASSUME SandboxInv, NEW e \in Execs, Inspect(e) \/ InspectFails(e)
    PROVE  Good(e)
  <1> USE DEF SandboxInv, Typed
  <1>1. CASE Inspect(e)
    <2> DEFINE x == IF code[e] = None THEN 0 ELSE code[e]
    <2>1. x \in Exits /\ (x # 0 => x = code[e])
      BY DEF Exits
    <2>2. code[e] = None => cut[e]
      <3>1. Ended(e)
        BY <1>1 DEF Inspect, Execution
      <3> QED
        BY <3>1 DEF Ended, None
    <2>3. at[e] = "inspect" /\ PhaseReturns(e, x)
          /\ UNCHANGED <<kill, container, fileVars, guessed, stray, faults>>
      BY <1>1 DEF Inspect
    <2>4. cut[e] \/ guessed'[e] \/ x = code[e]
      BY <2>2
    <2> HIDE DEF x
    <2> QED
      BY <2>1, <2>3, <2>4, ReturnStep
  <1>2. CASE InspectFails(e)
    <2>1. 0 \in Exits /\ faults' \in 0..MaxFaults
      BY <1>2, FaultsAssumption DEF InspectFails, Fault, Exits
    <2>2. guessed' \in [Execs -> BOOLEAN] /\ guessed'[e]
          /\ \A f \in Execs \ {e} : guessed'[f] = guessed[f]
      BY <1>2 DEF InspectFails, Set
    <2> QED
      BY <1>2, <2>1, <2>2, ReturnStep DEF InspectFails
  <1> QED
    BY <1>1, <1>2

LEMMA ExecFailsStep ==
    ASSUME SandboxInv, NEW e \in Execs, ExecFails(e)
    PROVE  Good(e)
  <1> USE DEF SandboxInv, Typed, ExecFails, PhaseThrows, Goto, Set, fileVars
  <1>1. Execution(e) /\ at'[e] = "remove" /\ ~armed'[e]
    OBVIOUS
  <1>2. 137 \in Exits /\ TRUE \in BOOLEAN
    BY DEF Exits
  <1>3. Returned(137, TRUE) \in Outcomes /\ Thrown \in Outcomes
    BY <1>2, OutcomeTypes
  <1>4. faults' \in 0..MaxFaults
    BY FaultsAssumption DEF Fault, NoFault
  <1>5. Typed'
    BY <1>3, <1>4 DEF Steps
  <1>6. \A f \in Execs \ {e} : Same(f)
    BY DEF Same
  <1>7. Clock(e)'
    BY <1>1 DEF Execution, Clock
  <1>8. outcome'[e] = IF timedOut[e] THEN Returned(137, TRUE) ELSE Thrown
    OBVIOUS
  <1>9. Value(e)'
    <2>1. timedOut'[e] = timedOut[e]
      OBVIOUS
    <2>2. Returned(137, TRUE).timedOut = TRUE /\ Thrown.kind # "value"
      BY <1>2, OutcomeFields
    <2>3. CASE timedOut[e]
      BY <1>8, <2>1, <2>2, <2>3 DEF Value
    <2>4. CASE ~timedOut[e]
      BY <1>8, <2>1, <2>2, <2>4 DEF Value
    <2> QED
      BY <2>3, <2>4
  <1>10. Execution(e)'
    BY <1>1, <1>7, <1>9 DEF Execution, Cleanup
  <1> QED
    BY <1>5, <1>6, <1>10 DEF Good

\* The timer and its kill: whatever await the execution stands at.
LEMMA TimerStep ==
    ASSUME SandboxInv, NEW e \in Execs, TimerFires(e)
    PROVE  Good(e)
  <1> USE DEF SandboxInv, Typed, TimerFires, Set, fileVars
  <1>1. Typed'
    OBVIOUS
  <1>2. \A f \in Execs \ {e} : Same(f)
    BY DEF Same
  <1>3. Execution(e) /\ at[e] \in InPhase
    BY DEF Execution, Clock
  <1>4. Clock(e)'
    BY <1>3 DEF InPhase, Clock
  <1>5. outcome'[e] = Nothing /\ Value(e)'
    BY <1>3, OutcomeFields DEF Execution, Value, Cleanup, InPhase
  <1>6. at[e] = "inspect" => Ended(e)'
    BY <1>3 DEF Execution, Ended
  <1>7. Execution(e)'
    BY <1>3, <1>4, <1>5, <1>6 DEF Execution, InPhase
  <1> QED
    BY <1>1, <1>2, <1>7 DEF Good

LEMMA KilledStep ==
    ASSUME SandboxInv, NEW e \in Execs, Killed(e) \/ KillFails(e)
    PROVE  Good(e)
  <1> USE DEF SandboxInv, Typed, Killed, KillFails, Set, fileVars, phaseVars
  <1>1. faults' \in 0..MaxFaults
    BY FaultsAssumption DEF Fault
  <1>2. container' \in [Execs -> {"none", "created", "running", "killed", "removed"}]
    OBVIOUS
  <1>3. Typed'
    BY <1>1, <1>2
  <1>4. \A f \in Execs \ {e} : Same(f)
    BY DEF Same
  <1>5. Execution(e) /\ kill[e] = "sent" /\ timedOut[e]
    BY DEF Execution, Clock
  <1>6. \/ container'[e] = container[e]
        \/ container[e] = "running" /\ container'[e] = "killed"
    OBVIOUS
  <1>7. Clock(e)'
    BY <1>5, <1>6 DEF Execution, Clock
  <1>8. Value(e)' /\ (at[e] = "inspect" => Ended(e)')
    BY <1>5 DEF Execution, Value, Ended
  <1>9. Execution(e)'
    BY <1>5, <1>6, <1>7, <1>8 DEF Execution
  <1> QED
    BY <1>3, <1>4, <1>9 DEF Good

LEMMA RemoveStep ==
    ASSUME SandboxInv, NEW e \in Execs, RemoveContainer(e)
    PROVE  Good(e)
  <1> USE DEF SandboxInv, Typed, RemoveContainer, Goto, Set, fileVars, phaseVars
  <1>1. CASE container' = Set(container, e, "removed") /\ NoFault /\ UNCHANGED stray
    <2> USE <1>1 DEF NoFault
    <2>1. Typed'
      BY DEF Steps
    <2>2. \A f \in Execs \ {e} : Same(f)
      BY DEF Same
    <2>3. Execution(e)
      OBVIOUS
    <2>4. Clock(e)'
      BY <2>3 DEF Execution, Clock, InPhase
    <2>5. Value(e)'
      BY <2>3 DEF Execution, Value, Ended
    <2>6. Execution(e)'
      BY <2>3, <2>4, <2>5 DEF Execution, Cleanup
    <2> QED
      BY <2>1, <2>2, <2>6 DEF Good
  <1>2. CASE Fault /\ stray' = Set(stray, e, TRUE) /\ UNCHANGED container
    <2> USE <1>2 DEF Fault
    <2>1. Typed'
      BY FaultsAssumption DEF Steps
    <2>2. \A f \in Execs \ {e} : Same(f)
      BY DEF Same
    <2>3. Execution(e)
      OBVIOUS
    <2>4. Clock(e)'
      BY <2>3 DEF Execution, Clock, InPhase
    <2>5. Value(e)'
      BY <2>3 DEF Execution, Value, Ended
    <2>6. Execution(e)'
      BY <2>3, <2>4, <2>5 DEF Execution, Cleanup
    <2> QED
      BY <2>1, <2>2, <2>6 DEF Good
  <1> QED
    BY <1>1, <1>2

LEMMA UnlinkStep ==
    ASSUME SandboxInv, NEW e \in Execs, Unlink(e) \/ UnlinkFails(e)
    PROVE  Good(e)
  <1> USE DEF SandboxInv, Typed, Unlink, UnlinkFails, Goto, Set, fileVars, phaseVars
  <1>1. /\ outcome' = outcome \/ outcome' = [outcome EXCEPT ![e] = Undefined]
        /\ litter' = litter \/ litter' = [litter EXCEPT ![e] = TRUE]
        /\ at' = [at EXCEPT ![e] = "ended"] /\ at[e] = "unlink"
    OBVIOUS
  <1>2. deprived' \in [Execs -> BOOLEAN]
    <2>1. CASE UNCHANGED deprived
      BY <2>1
    <2>2. CASE deprived' = [f \in Execs |-> deprived[f] \/
                  (f # e /\ Path[f] = Path[e] /\ at[f] \notin {"idle", "ended"})]
      BY ONLY <2>2
    <2> QED
      BY <2>1, <2>2
  <1>3. faults' \in 0..MaxFaults /\ files' \in SUBSET {Path[f] : f \in Execs}
    BY FaultsAssumption DEF Fault
  <1>4. outcome' \in [Execs -> Outcomes]
    BY <1>1, OutcomeTypes
  <1>5. Typed'
    <2>1. at' \in [Execs -> Steps]
      BY <1>1 DEF Steps
    <2>2. litter' \in [Execs -> BOOLEAN]
      <3>1. CASE litter' = litter
        BY <3>1
      <3>2. CASE litter' = [litter EXCEPT ![e] = TRUE]
        BY <3>2
      <3> QED
        BY <1>1, <3>1, <3>2
    <2> QED
      BY <2>1, <2>2, <1>2, <1>3, <1>4
  <1>6. \A f \in Execs \ {e} : Same(f)
    BY <1>1 DEF Same
  <1>7. Execution(e)
    OBVIOUS
  <1>8. Clock(e)'
    BY <1>1, <1>7 DEF Execution, Clock, InPhase
  <1>9. Ended(e)' <=> Ended(e)
    BY DEF Ended
  <1>10. Value(e)'
    <2>1. CASE outcome' = outcome
      BY <1>7, <1>9, <2>1 DEF Execution, Value
    <2>2. CASE outcome' = [outcome EXCEPT ![e] = Undefined]
      BY <2>2, OutcomeFields DEF Value
    <2> QED
      BY <1>1, <2>1, <2>2
  <1>11. Execution(e)'
    BY <1>1, <1>7, <1>8, <1>10 DEF Execution, Cleanup
  <1> QED
    BY <1>5, <1>6, <1>11 DEF Good

-----------------------------------------------------------------------------
(* The source files.                                                       *)

Step(e) ==
    \/ Write(e) \/ WriteFails(e) \/ Create(e) \/ CreateFails(e)
    \/ Start(e) \/ StartFails(e)
    \/ ExecStarts(e) \/ (\E n \in 1..Len(output[e].bytes) : Data(e, n))
    \/ StreamEnds(e) \/ StreamBreaks(e) \/ CommandEnds(e)
    \/ Inspect(e) \/ InspectFails(e) \/ ExecFails(e)
    \/ TimerFires(e) \/ Killed(e) \/ KillFails(e)
    \/ RemoveContainer(e) \/ Unlink(e) \/ UnlinkFails(e)

LEMMA StepIsGood ==
    ASSUME SandboxInv, NEW e \in Execs, Step(e)
    PROVE  Good(e)
  BY WriteStep, CreateStep, StartStep, ExecStartsStep, DataStep, StreamEndsStep,
     InspectStep, ExecFailsStep, TimerStep, KilledStep, RemoveStep, UnlinkStep
  DEF Step

\* Between Write and Unlink a step leaves the files alone, stays at work and is
\* not undefined in the end.
LEMMA FilesAlone ==
    ASSUME SandboxInv, NEW e \in Execs, Step(e),
           ~Write(e), ~WriteFails(e), ~Unlink(e), ~UnlinkFails(e)
    PROVE  /\ UNCHANGED files /\ UNCHANGED deprived
           /\ Working(e) => Working(e)'
           /\ ~Working(e) => ~Working(e)'
           /\ litter[e] => litter'[e]
           /\ outcome'[e] = Undefined => outcome[e] = Undefined
  <1> USE DEF SandboxInv, Typed, Goto, Set, fileVars, phaseVars, Working
  <1>1. CASE Create(e) \/ CreateFails(e)
    BY <1>1, OutcomesDiffer DEF Create, CreateFails
  <1>2. CASE Start(e)
    BY <1>2 DEF Start
  <1>3. CASE StartFails(e)
    BY <1>3, OutcomesDiffer DEF StartFails
  <1>4. CASE ExecStarts(e) \/ (\E n \in 1..Len(output[e].bytes) : Data(e, n))
    BY <1>4 DEF ExecStarts, Data
  <1>5. CASE StreamEnds(e) \/ StreamBreaks(e) \/ CommandEnds(e)
    BY <1>5 DEF StreamEnds, StreamBreaks, CommandEnds
  <1>6. ASSUME NEW x \in Exits, at[e] = "inspect", PhaseReturns(e, x)
        PROVE  /\ Working(e)'
               /\ outcome'[e] = Undefined => outcome[e] = Undefined
    BY <1>6, OutcomesDiffer DEF PhaseReturns
  <1>7. CASE Inspect(e)
    <2>1. (IF code[e] = None THEN 0 ELSE code[e]) \in Exits
      BY DEF Exits
    <2> QED
      BY <1>6, <1>7, <2>1 DEF Inspect
  <1>8. CASE InspectFails(e)
    <2>1. 0 \in Exits
      BY DEF Exits
    <2> QED
      BY <1>6, <1>8, <2>1 DEF InspectFails
  <1>9. CASE ExecFails(e)
    <2>1. 137 \in Exits /\ TRUE \in BOOLEAN
      BY DEF Exits
    <2>2. outcome'[e] \in {Returned(137, TRUE), Thrown}
      BY <1>9 DEF ExecFails, PhaseThrows
    <2>3. outcome'[e] # Undefined
      BY <2>1, <2>2, OutcomesDiffer
    <2> QED
      BY <1>9, <2>3 DEF ExecFails, PhaseThrows
  <1>10. CASE TimerFires(e) \/ Killed(e) \/ KillFails(e)
    BY <1>10 DEF TimerFires, Killed, KillFails
  <1>11. CASE RemoveContainer(e)
    BY <1>11 DEF RemoveContainer
  <1> QED
    BY <1>1, <1>2, <1>3, <1>4, <1>5, <1>7, <1>8, <1>9, <1>10, <1>11 DEF Step

\* Shared depends on this of an execution.
LEMMA SameShared ==
    ASSUME NEW f \in Execs, Same(f)
    PROVE  /\ Working(f)' <=> Working(f)
           /\ litter'[f] = litter[f] /\ outcome'[f] = outcome[f]
  BY DEF Same, Working

LEMMA SharedStep ==
    ASSUME SandboxInv, NEW e \in Execs, Step(e)
    PROVE  Shared'
  <1>1. \A f \in Execs \ {e} : Same(f)
    BY StepIsGood DEF Good
  <1>2. \A f \in Execs \ {e} :
          /\ Working(f)' <=> Working(f)
          /\ litter'[f] = litter[f] /\ outcome'[f] = outcome[f]
    BY <1>1, SameShared
  <1>3. CASE Write(e)
    <2>1. /\ files' = files \cup {Path[e]} /\ UNCHANGED deprived
          /\ outcome'[e] = outcome[e]
      BY <1>3 DEF Write
    <2>2. Working(e)' /\ litter'[e] = litter[e]
      BY <1>3 DEF Write, Goto, Working, SandboxInv, Typed
    <2> QED
      BY <1>2, <2>1, <2>2 DEF SandboxInv, Shared
  <1>4. CASE WriteFails(e)
    <2>1. /\ \/ files' = files /\ litter'[e] = litter[e]
             \/ files' = files \cup {Path[e]} /\ litter'[e]
          /\ UNCHANGED deprived /\ outcome'[e] = Thrown
      BY <1>4 DEF WriteFails, Set, fileVars, SandboxInv, Typed
    <2>2. ~Working(e) /\ ~Working(e)'
      BY <1>4 DEF WriteFails, Goto, Working, SandboxInv, Typed
    <2> QED
      BY <1>2, <2>1, <2>2, OutcomesDiffer DEF SandboxInv, Shared
  <1>5. CASE Unlink(e)
    <2>1. Working(e) /\ ~Working(e)' /\ litter'[e] = litter[e]
      BY <1>5 DEF Unlink, Goto, Working, SandboxInv, Typed
    <2>2. CASE Path[e] \in files
      <3>1. /\ files' = files \ {Path[e]} /\ UNCHANGED outcome
            /\ \A f \in Execs : deprived'[f] <=> deprived[f] \/
                 (f # e /\ Path[f] = Path[e] /\ Working(f))
        BY <1>5, <2>2 DEF Unlink, Working
      <3> QED
        BY <1>2, <2>1, <3>1 DEF SandboxInv, Shared
    <2>3. CASE Path[e] \notin files
      <3>1. UNCHANGED files /\ UNCHANGED deprived /\ deprived[e]
        BY <1>5, <2>1, <2>3 DEF Unlink, SandboxInv, Shared
      <3> QED
        BY <1>2, <2>1, <2>3, <3>1 DEF SandboxInv, Shared
    <2> QED
      BY <2>2, <2>3
  <1>6. CASE UnlinkFails(e)
    <2>1. UNCHANGED files /\ UNCHANGED deprived /\ UNCHANGED outcome /\ litter'[e]
      BY <1>6 DEF UnlinkFails, Set, fileVars, SandboxInv, Typed
    <2>2. ~Working(e)'
      BY <1>6 DEF UnlinkFails, Goto, Working, SandboxInv, Typed
    <2> QED
      BY <1>2, <2>1, <2>2 DEF SandboxInv, Shared
  <1>7. CASE ~Write(e) /\ ~WriteFails(e) /\ ~Unlink(e) /\ ~UnlinkFails(e)
    <2>1. /\ UNCHANGED files /\ UNCHANGED deprived
          /\ Working(e) <=> Working(e)'
          /\ litter[e] => litter'[e]
          /\ outcome'[e] = Undefined => outcome[e] = Undefined
      BY <1>7, FilesAlone
    <2> QED
      BY <1>2, <2>1 DEF SandboxInv, Shared
  <1> QED
    BY <1>3, <1>4, <1>5, <1>6, <1>7

LEMMA SandboxStep == SandboxInv /\ [Next]_vars => SandboxInv'
  <1> SUFFICES ASSUME SandboxInv, [Next]_vars PROVE SandboxInv'
    OBVIOUS
  <1>1. ASSUME NEW e \in Execs, Step(e) PROVE SandboxInv'
    <2>1. Good(e) /\ Shared'
      BY <1>1, StepIsGood, SharedStep
    <2>2. \A f \in Execs : Execution(f)'
      BY <2>1, SameExecution DEF Good, SandboxInv
    <2> QED
      BY <2>1, <2>2 DEF Good, SandboxInv
  <1>2. CASE UNCHANGED vars
    BY <1>2 DEF vars, SandboxInv, Typed, Shared, Working, Execution, Clock, Ended,
       Value
  <1>3. CASE Next
    BY <1>1, <1>3 DEF Next, Step
  <1> QED
    BY <1>2, <1>3

LEMMA SandboxAlways == Spec => []SandboxInv
  BY SandboxInit, SandboxStep, PTL DEF Spec

-----------------------------------------------------------------------------
(* The output.  Only a phase that begins and a chunk that arrives touch it. *)

Arrived(e) == SubSeq(output[e].bytes, 1, got[e])

\* The live output of a terminal: held back until it is decided to be text, and
\* then all that has arrived, but for CRs and NULs.
LiveText(e) ==
    IF got[e] < HEADER
      THEN live[e] = Held(Arrived(e))
      ELSE Arrived(e)[1] \notin StreamTypes =>
             /\ live[e].framed = "no" /\ live[e].pending = <<>>
             /\ live[e].text \in Seq(Nat)
             /\ Without(live[e].text, CR) = Plain(Arrived(e))

Outputs(e) ==
    /\ output[e] \in {Blank} \cup
         (IF phase[e] = "compile" THEN CompileOutputs ELSE RunOutputs)
    /\ phase[e] = "run" => LiveText(e)

OutputsInv == DOMAIN live = Execs /\ \A e \in Execs : Outputs(e)

LEMMA NothingArrived ==
    ASSUME NEW s \in Seq(Nat)
    PROVE  SubSeq(s, 1, 0) = <<>>
  <1>1. SubSeq(s, 1, 0) \in Seq(Nat) /\ Len(SubSeq(s, 1, 0)) = 0
    BY SubSeqIs
  <1> QED
    BY <1>1, EmptySeq

LEMMA SilentIsHeld == Silent = Held(<<>>)
  BY DEF Silent, Held

LEMMA OutputsInit == Init => OutputsInv
  <1> SUFFICES ASSUME Init PROVE OutputsInv
    OBVIOUS
  <1>1. ASSUME NEW e \in Execs PROVE Outputs(e)
    <2>1. output[e] = Blank /\ got[e] = 0 /\ live[e] = Silent
      BY DEF Init
    <2>2. Blank.bytes \in Seq(Nat) /\ 0 < HEADER
      BY OutputTypes, HeaderAssumption
    <2>3. Arrived(e) = <<>>
      BY <2>1, <2>2, NothingArrived DEF Arrived
    <2> QED
      BY <2>1, <2>2, <2>3, SilentIsHeld DEF Outputs, LiveText
  <1>2. DOMAIN live = Execs
    BY DEF Init
  <1> QED
    BY <1>1, <1>2 DEF OutputsInv

SameOutput(f) ==
    /\ phase'[f] = phase[f] /\ output'[f] = output[f]
    /\ got'[f] = got[f] /\ live'[f] = live[f]

LEMMA OutputKept ==
    ASSUME NEW f \in Execs, Outputs(f), SameOutput(f)
    PROVE  Outputs(f)'
  BY DEF SameOutput, Outputs, LiveText, Arrived

\* A phase begins with nothing arrived and nothing published.
LEMMA EnterOutputs ==
    ASSUME SandboxInv, OutputsInv, NEW e \in Execs, NEW ph \in {"compile", "run"},
           EnterPhase(e, ph)
    PROVE  OutputsInv'
  <1>1. PICK o \in IF ph = "compile" THEN CompileOutputs ELSE RunOutputs :
          output' = [output EXCEPT ![e] = o]
    BY DEF EnterPhase, Set
  <1>2. /\ phase'[e] = ph /\ output'[e] = o /\ got'[e] = 0 /\ live'[e] = Silent
        /\ DOMAIN live' = Execs
        /\ \A f \in Execs \ {e} : SameOutput(f)
    BY <1>1 DEF EnterPhase, Set, SandboxInv, Typed, OutputsInv, SameOutput
  <1>3. o.bytes \in Seq(Nat) /\ 0 < HEADER
    BY <1>1, OutputTypes, HeaderAssumption
  <1>4. Arrived(e)' = <<>>
    BY <1>2, <1>3, NothingArrived DEF Arrived
  <1>5. Outputs(e)'
    BY <1>1, <1>2, <1>3, <1>4, SilentIsHeld DEF Outputs, LiveText
  <1> QED
    BY <1>2, <1>5, OutputKept DEF OutputsInv

\* A chunk arrives: what is shown of all that has arrived is what is shown of the
\* part that had, then of the chunk.
LEMMA DataOutputs ==
    ASSUME SandboxInv, OutputsInv, NEW e \in Execs, NEW n \in 1..Len(output[e].bytes),
           Data(e, n)
    PROVE  OutputsInv'
  <1> DEFINE bytes == output[e].bytes
             g == got[e]
             old == SubSeq(bytes, 1, g)
             chunk == SubSeq(bytes, g + 1, n)
             new == SubSeq(bytes, 1, n)
  <1>1. bytes \in Seq(Nat) /\ g \in Nat /\ n \in Nat /\ g < n /\ n <= Len(bytes)
        /\ Len(bytes) \in Nat
    <2>1. bytes \in Seq(Nat)
      BY OutputTypes DEF SandboxInv, Typed
    <2>2. g \in Nat /\ n \in g + 1..Len(bytes)
      BY DEF SandboxInv, Typed, Data
    <2> HIDE DEF bytes, g
    <2>3. Len(bytes) \in Nat
      BY <2>1, LenProperties
    <2> QED
      BY <2>1, <2>2, <2>3
  <1>2. /\ old \in Seq(Nat) /\ Len(old) = g /\ chunk \in Seq(Nat)
        /\ new \in Seq(Nat) /\ Len(new) = n /\ old \o chunk = new
    <2> HIDE DEF bytes, g
    <2>1. old \in Seq(Nat) /\ Len(old) = g
      BY <1>1, SubSeqIs
    <2>2. chunk \in Seq(Nat)
      BY <1>1, SubSeqIs
    <2>3. new \in Seq(Nat) /\ Len(new) = n
      BY <1>1, SubSeqIs
    <2>4. old \o chunk = new
      <3>1. 1 \in 1..Len(bytes) + 1 /\ g \in 0..Len(bytes) /\ n \in g..Len(bytes)
            /\ 1 - 1 = 0
        BY <1>1
      <3> QED
        BY <1>1, <3>1, ConcatAdjacentSubSeq
    <2> QED
      BY <2>1, <2>2, <2>3, <2>4
  <1>3. /\ \A f \in Execs \ {e} : SameOutput(f)
        /\ DOMAIN live' = Execs
    BY DEF Data, Set, SandboxInv, Typed, OutputsInv, SameOutput
  <1>4. phase' = phase /\ output' = output /\ got'[e] = n /\ Outputs(e)
    BY DEF Data, Set, SandboxInv, Typed, OutputsInv
  <1>5. Arrived(e) = old /\ Arrived(e)' = new
    BY <1>4 DEF Arrived
  <1>6. ASSUME phase[e] = "run" PROVE LiveText(e)'
    <2>1. live'[e] = publishFrames(live[e], chunk)
      BY <1>6 DEF Data, Set, OutputsInv
    <2>2. LiveText(e) /\ HEADER \in Nat /\ HEADER >= 2
      BY <1>4, <1>6, HeaderAssumption DEF Outputs
    <2> DEFINE later == live'[e]
    <2> HIDE DEF bytes, g, old, chunk, new
    <2>3. CASE n < HEADER
      <3>1. live[e] = Held(old)
        BY <1>1, <1>5, <2>2, <2>3 DEF LiveText, g
      <3>2. later = Held(new)
        BY <1>2, <2>1, <2>3, <3>1, HeldBack
      <3> QED
        BY <1>4, <1>5, <2>3, <3>2 DEF LiveText
    <2>4. CASE ~(n < HEADER) /\ new[1] \in StreamTypes
      BY <1>4, <1>5, <2>4 DEF LiveText
    <2>5. CASE ~(n < HEADER) /\ new[1] \notin StreamTypes /\ g < HEADER
      <3>1. live[e] = Held(old)
        BY <1>5, <2>2, <2>5 DEF LiveText, g
      <3>2. n >= HEADER
        BY <1>1, <2>2, <2>5
      <3>3. later = [pending |-> <<>>, framed |-> "no", text |-> normalizeTtyOutput(new)]
        BY <1>2, <2>1, <2>5, <3>1, <3>2, TextDecided
      <3>4. /\ later.text \in Seq(Nat) /\ Without(later.text, CR) = Plain(new)
            /\ later.framed = "no" /\ later.pending = <<>>
        BY <1>2, <3>3, NormalizedIsPlain
      <3> QED
        BY <1>4, <1>5, <2>5, <3>4 DEF LiveText
    <2>6. CASE ~(n < HEADER) /\ new[1] \notin StreamTypes /\ ~(g < HEADER)
      <3>1. old[1] = new[1]
        <4>1. 1 \in 1..Len(old)
          BY <1>1, <1>2, <2>2, <2>6
        <4> QED
          BY <1>2, <4>1, ConcatProperties
      <3>2. /\ live[e].framed = "no" /\ live[e].pending = <<>>
            /\ live[e].text \in Seq(Nat) /\ Without(live[e].text, CR) = Plain(old)
        BY <1>5, <2>2, <2>6, <3>1 DEF LiveText, g
      <3> DEFINE t == live[e].text
                 u == normalizeTtyOutput(chunk)
      <3>3. later = [pending |-> <<>>, framed |-> "no", text |-> t \o u]
        BY <1>2, <2>1, <3>2, TextPublished
      <3>4. t \in Seq(Nat) /\ u \in Seq(Nat)
            /\ Without(t, CR) = Plain(old) /\ Without(u, CR) = Plain(chunk)
        BY <1>2, <3>2, NormalizedIsPlain
      <3> HIDE DEF t, u
      <3>5. t \o u \in Seq(Nat) /\ Without(t \o u, CR) = Without(t, CR) \o Without(u, CR)
        <4>1. t \o u \in Seq(Nat)
          BY <3>4, ConcatProperties
        <4>2. \A a, b \in Seq(Nat) : Without(a \o b, CR) = Without(a, CR) \o Without(b, CR)
          BY WithoutConcat
        <4>3. Without(t \o u, CR) = Without(t, CR) \o Without(u, CR)
          BY <3>4, <4>2
        <4> QED
          BY <4>1, <4>3
      <3>6. Plain(old) \o Plain(chunk) = Plain(new)
        BY <1>2, PlainConcat
      <3>7. /\ later.text \in Seq(Nat) /\ Without(later.text, CR) = Plain(new)
            /\ later.framed = "no" /\ later.pending = <<>>
        BY <3>3, <3>4, <3>5, <3>6
      <3> QED
        BY <1>4, <1>5, <2>6, <3>7 DEF LiveText
    <2> QED
      BY <2>3, <2>4, <2>5, <2>6
  <1>7. Outputs(e)'
    BY <1>4, <1>6 DEF Outputs
  <1> QED
    BY <1>3, <1>7, OutputKept DEF OutputsInv

\* Every other step leaves the output alone.
LEMMA OutputsAlone ==
    ASSUME SandboxInv, NEW e \in Execs, Step(e),
           \A n \in 1..Len(output[e].bytes) : ~Data(e, n)
    PROVE  \/ UNCHANGED <<phase, output, got, live>>
           \/ \E ph \in {"compile", "run"} : EnterPhase(e, ph)
  <1> USE DEF phaseVars
  <1>1. CASE Write(e) \/ WriteFails(e) \/ Create(e) \/ CreateFails(e) \/ StartFails(e)
             \/ ExecStarts(e) \/ StreamEnds(e) \/ StreamBreaks(e)
             \/ CommandEnds(e) \/ ExecFails(e)
    BY <1>1 DEF Write, WriteFails, Create, CreateFails, StartFails, ExecStarts,
       StreamEnds, StreamBreaks, CommandEnds, ExecFails
  <1>2. CASE TimerFires(e) \/ Killed(e) \/ KillFails(e) \/ RemoveContainer(e)
             \/ Unlink(e) \/ UnlinkFails(e)
    BY <1>2 DEF TimerFires, Killed, KillFails, RemoveContainer, Unlink, UnlinkFails
  <1>3. CASE Start(e)
    <2>1. phase[e] \in {"compile", "run"}
      BY DEF SandboxInv, Typed
    <2> QED
      BY <1>3, <2>1 DEF Start
  <1>4. CASE Inspect(e) \/ InspectFails(e)
    BY <1>4 DEF Inspect, InspectFails, PhaseReturns
  <1> QED
    BY <1>1, <1>2, <1>3, <1>4 DEF Step

LEMMA OutputsStep == SandboxInv /\ OutputsInv /\ [Next]_vars => OutputsInv'
  <1> SUFFICES ASSUME SandboxInv, OutputsInv, [Next]_vars PROVE OutputsInv'
    OBVIOUS
  <1>1. CASE UNCHANGED <<phase, output, got, live>>
    BY <1>1, OutputKept DEF OutputsInv, SameOutput
  <1>2. ASSUME NEW e \in Execs, Step(e) PROVE OutputsInv'
    <2>1. CASE \E n \in 1..Len(output[e].bytes) : Data(e, n)
      BY <2>1, DataOutputs
    <2>2. CASE \A n \in 1..Len(output[e].bytes) : ~Data(e, n)
      BY <1>1, <1>2, <2>2, OutputsAlone, EnterOutputs
    <2> QED
      BY <2>1, <2>2
  <1>3. CASE UNCHANGED vars
    BY <1>1, <1>3 DEF vars
  <1>4. CASE Next
    BY <1>2, <1>4 DEF Next, Step
  <1> QED
    BY <1>3, <1>4

LEMMA OutputsAlways == Spec => [](SandboxInv /\ OutputsInv)
  BY SandboxInit, SandboxStep, OutputsInit, OutputsStep, PTL DEF Spec

-----------------------------------------------------------------------------

\* The state of every execution keeps its type: no more of the output arrives
\* than there is, and what execute returns is one of the outcomes it may have
\* (executor.js:21-74, 79-187).
THEOREM ExecutionTypeCorrect == Spec => []TypeOK
  <1>1. SandboxInv => TypeOK
    BY TypedIsTypeOK
  <1> QED
    BY <1>1, SandboxAlways, PTL

\* The kill that the timer sends and nobody awaits never reaches a later phase:
\* once it was sent, whatever execute returns says timedOut (executor.js:37-43,
\* 59-69, 120).
THEOREM KillIsTimeout == Spec => []KillMeansTimeout
  <1>1. SandboxInv => KillMeansTimeout
    BY DEF SandboxInv, Execution, Clock, Value, KillMeansTimeout
  <1> QED
    BY <1>1, SandboxAlways, PTL

\* A failure that execute reports without timedOut is the command's own.  Unless
\* Docker cut the last phase's stream short, a result without timedOut is that of
\* a command that ended by itself, with all of its output, and with its exit code
\* unless inspect failed (executor.js:35-70, container-manager.js:119-129).
THEOREM ResultsAreHonest == Spec => []ResultHonest
  <1>1. SandboxInv => ResultHonest
    BY DEF SandboxInv, Execution, Value, Ended, ResultHonest
  <1> QED
    BY <1>1, SandboxAlways, PTL

\* Whichever calls fail, execute returns undefined only if another execution
\* with the same source file deleted it (executor.js:175-180).
THEOREM UndefinedIsShared == Spec => []UndefinedOnlyIfShared
  <1>1. SandboxInv => UndefinedOnlyIfShared
    BY DEF SandboxInv, Shared, UndefinedOnlyIfShared
  <1> QED
    BY <1>1, SandboxAlways, PTL

\* Whichever calls fail, an execution that is over has no timer; it has left a
\* container only where Docker refused to remove it or to tell its name, and a
\* source file only where the file system refused to delete it or to write it all
\* (executor.js:98, 168-182).
THEOREM CleanupIsComplete == Spec => []CleanedUp
  <1>1. SandboxInv => CleanedUp
    BY DEF SandboxInv, Execution, Clock, InPhase, Shared, Working, CleanedUp
  <1> QED
    BY <1>1, SandboxAlways, PTL

\* However the output of a terminal is cut into chunks, and wherever it is cut:
\* from the chunk on that decides that it is not framed, the live output is all
\* of what has arrived and would be kept, but for CRs; before it there is none
\* (container-manager.js:78-132).
THEOREM LiveMatchesRecord == Spec => []LiveIsRecord
  <1>1. SandboxInv /\ OutputsInv => LiveIsRecord
    <2> SUFFICES ASSUME SandboxInv, OutputsInv, NEW e \in Execs, phase[e] = "run",
                        Arrived(e) # <<>>, Arrived(e)[1] \notin StreamTypes
                 PROVE  IF got[e] < HEADER THEN live[e].text = <<>>
                        ELSE Without(live[e].text, CR)
                               = Without(normalizeTtyOutput(
                                           demultiplexLogs(Arrived(e)).stdout), CR)
      BY DEF LiveIsRecord, Arrived
    <2>1. LiveText(e)
      BY DEF OutputsInv, Outputs
    <2>2. Held(Arrived(e)).text = <<>>
      BY DEF Held
    <2>3. Arrived(e) \in Seq(Nat)
      <3>1. output[e].bytes \in Seq(Nat)
        BY OutputTypes DEF SandboxInv, Typed
      <3>2. got[e] \in Nat /\ got[e] <= Len(output[e].bytes)
        BY DEF SandboxInv, Typed, Execution
      <3>3. got[e] \in Int /\ 1 \in Int /\ 1 >= 1 /\ 1 <= got[e] + 1
        BY <3>2
      <3> QED
        BY <3>1, <3>2, <3>3, SubSeqIs DEF Arrived
    <2>4. demultiplexLogs(Arrived(e)).stdout = Without(Arrived(e), NUL)
      BY <2>3, TextLogs
    <2>5. Without(normalizeTtyOutput(Without(Arrived(e), NUL)), CR) = Plain(Arrived(e))
      BY <2>3, RecordIsPlain
    <2> QED
      BY <2>1, <2>2, <2>4, <2>5 DEF LiveText
  <1> QED
    BY <1>1, OutputsAlways, PTL

\* Whatever a compiler prints on its two streams, in whatever frames and chunks:
\* when it has ended by itself and its output was not cut short, what is kept of
\* each stream is what was written to it (container-manager.js:98-170, executor.js:47).
THEOREM LogsAreSplit == Spec => []LogsSplit
  <1>1. SandboxInv /\ OutputsInv => LogsSplit
    <2> SUFFICES ASSUME SandboxInv, OutputsInv, NEW e \in Execs, phase[e] = "compile",
                        at[e] = "inspect", code[e] \in {0, 1}, ~cut[e]
                 PROVE  /\ demultiplexLogs(Arrived(e)).stdout = output[e].stdout
                        /\ demultiplexLogs(Arrived(e)).stderr = output[e].stderr
      BY DEF LogsSplit, Arrived
    <2>1. output[e].bytes \in Seq(Nat)
      BY OutputTypes DEF SandboxInv, Typed
    <2>2. got[e] = Len(output[e].bytes)
      BY DEF SandboxInv, Execution, Ended
    <2>3. Arrived(e) = output[e].bytes
      BY <2>1, <2>2, SubSeqFull DEF Arrived
    <2>4. output[e] \in {Blank} \cup CompileOutputs
      BY DEF OutputsInv, Outputs
    <2>5. CASE output[e] = Blank
      <3>1. Arrived(e) = <<>> /\ output[e].stdout = <<>> /\ output[e].stderr = <<>>
        BY <2>3, <2>5 DEF Blank
      <3> QED
        BY <2>1, <2>3, <3>1, TextLogs, WithoutEmpty
    <2>6. CASE output[e] \in CompileOutputs
      <3>1. PICK frames \in Seq(FrameSet) : output[e] = Printed(frames)
        BY <2>6, OutputsAssumption DEF CompileOutputs, FrameSet
      <3> QED
        BY <2>3, <3>1, LogsRead
    <2> QED
      BY <2>4, <2>5, <2>6
  <1> QED
    BY <1>1, OutputsAlways, PTL

=============================================================================

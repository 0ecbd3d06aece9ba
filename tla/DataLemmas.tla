------------------------------ MODULE DataLemmas ------------------------------
(***************************************************************************)
(* What the proofs share about data.  Induction over the natural numbers,  *)
(* stated with sets, so that recursive functions and queues can be argued  *)
(* about: the least number of a nonempty set, from the fact that the       *)
(* strict-subset ordering of finite sets is well-founded, and the          *)
(* principle that a set which holds 0 and the successor of each of its     *)
(* members holds every natural number.  What operations on sequences       *)
(* leave in place.                                                         *)
(***************************************************************************)
EXTENDS Integers, SequencesExt, WellFoundedInduction, FiniteSetTheorems, SequenceTheorems, TLAPS

-----------------------------------------------------------------------------
(* Induction *)

\* Each nonempty set of natural numbers has a least one.
LEMMA LeastNumber ==
  ASSUME NEW T \in SUBSET Nat, T # {}
  PROVE  \E x \in T: \A y \in T: x <= y
<1> DEFINE U == {0 .. n: n \in T}
<1>1. U \subseteq FiniteSubsetsOf(Nat) /\ U # {}
  <2>1. ASSUME NEW n \in T PROVE 0 .. n \in FiniteSubsetsOf(Nat)
    <3>1. IsFiniteSet(0 .. n)
      BY FS_Interval
    <3> QED
      BY <3>1 DEF FiniteSubsetsOf
  <2> QED
    BY <2>1
<1>2. \E u \in U: \A v \in U: <<v, u>> \notin StrictSubsetOrdering(Nat)
  <2> HIDE DEF U
  <2> QED
    BY <1>1, WFMin, FS_StrictSubsetOrderingWellFounded
<1>3. PICK x \in T: \A v \in U: <<v, 0 .. x>> \notin StrictSubsetOrdering(Nat)
  BY <1>2
<1>4. ASSUME NEW y \in T, y < x PROVE FALSE
  <2>1. 0 .. y \in U /\ 0 .. y \in SUBSET Nat /\ 0 .. x \in SUBSET Nat
    OBVIOUS
  <2>2. 0 .. y \subseteq 0 .. x /\ 0 .. y # 0 .. x
    BY <1>4
  <2>3. <<0 .. y, 0 .. x>> \in StrictSubsetOrdering(Nat)
    BY <2>1, <2>2 DEF StrictSubsetOrdering
  <2> QED
    BY <1>3, <2>1, <2>3
<1> QED
  BY <1>4

\* Induction: a set that holds 0 and is closed under successor holds every natural number.
LEMMA InductionBySet ==
  ASSUME NEW P \in SUBSET Nat, 0 \in P, \A n \in P: n + 1 \in P
  PROVE  P = Nat
<1> SUFFICES ASSUME Nat \ P # {} PROVE FALSE
  OBVIOUS
<1>1. PICK x \in Nat \ P: \A y \in Nat \ P: x <= y
  BY LeastNumber
<1>2. x - 1 \in Nat /\ x - 1 \notin Nat \ P
  BY <1>1
<1> QED
  BY <1>2

-----------------------------------------------------------------------------
(* Lemmas about sequences *)

\* What is left of a queue when one element is taken out of it was there before, and every
\* other element is left.
LEMMA RemoveAtFacts ==
  ASSUME NEW S, NEW s \in Seq(S), NEW i \in 1 .. Len(s)
  PROVE  /\ RemoveAt(s, i) \in Seq(S)
         /\ \A j \in 1 .. Len(RemoveAt(s, i)): \E k \in 1 .. Len(s): k # i /\ RemoveAt(s, i)[j] = s[k]
         /\ \A k \in 1 .. Len(s): k # i => \E j \in 1 .. Len(RemoveAt(s, i)): RemoveAt(s, i)[j] = s[k]
<1> DEFINE a == SubSeq(s, 1, i - 1)
           b == SubSeq(s, i + 1, Len(s))
<1>1. a \in Seq(S) /\ Len(a) = i - 1 /\ \A j \in 1 .. Len(a): a[j] = s[j]
  OBVIOUS
<1>2. b \in Seq(S) /\ Len(b) = Len(s) - i /\ \A j \in 1 .. Len(b): b[j] = s[i + j]
  OBVIOUS
<1>3. RemoveAt(s, i) = a \o b
  BY DEF RemoveAt
<1> HIDE DEF a, b
<1>4. /\ a \o b \in Seq(S) /\ Len(a \o b) = Len(a) + Len(b)
      /\ \A j \in 1 .. Len(a) + Len(b):
           (a \o b)[j] = IF j <= Len(a) THEN a[j] ELSE b[j - Len(a)]
  BY <1>1, <1>2, ConcatProperties
<1>5. ASSUME NEW j \in 1 .. Len(a \o b) PROVE \E k \in 1 .. Len(s): k # i /\ (a \o b)[j] = s[k]
  <2>0. j \in 1 .. Len(a) + Len(b) /\ Len(a) \in Nat /\ Len(b) \in Nat
    BY <1>1, <1>2, <1>4
  <2>1. CASE j <= Len(a)
    <3>1. (a \o b)[j] = a[j] /\ j \in 1 .. Len(a)
      BY <1>4, <2>0, <2>1
    <3>2. (a \o b)[j] = s[j] /\ j \in 1 .. Len(s) /\ j # i
      BY <1>1, <3>1
    <3> QED
      BY <3>2
  <2>2. CASE j > Len(a)
    <3>1. (a \o b)[j] = b[j - Len(a)] /\ j - Len(a) \in 1 .. Len(b)
      BY <1>4, <2>0, <2>2
    <3>2. (a \o b)[j] = s[i + (j - Len(a))] /\ i + (j - Len(a)) \in 1 .. Len(s) /\ i + (j - Len(a)) # i
      BY <1>1, <1>2, <3>1
    <3> QED
      BY <3>2
  <2> QED
    BY <2>0, <2>1, <2>2
<1>6. ASSUME NEW k \in 1 .. Len(s), k # i PROVE \E j \in 1 .. Len(a \o b): (a \o b)[j] = s[k]
  <2>0. Len(a) = i - 1 /\ Len(b) = Len(s) - i /\ i \in Int /\ k \in Int /\ Len(s) \in Nat
    BY <1>1, <1>2
  <2>1. CASE k < i
    <3>1. k \in 1 .. Len(a) /\ k \in 1 .. Len(a) + Len(b)
      BY <2>0, <2>1
    <3> QED
      BY <1>1, <1>4, <3>1
  <2>2. CASE k > i
    <3> DEFINE j == k - 1
    <3>1. j \in 1 .. Len(a) + Len(b) /\ ~(j <= Len(a)) /\ j - Len(a) \in 1 .. Len(b) /\ i + (j - Len(a)) = k
      BY <2>0, <2>2
    <3>2. (a \o b)[j] = b[j - Len(a)]
      BY <1>4, <3>1
    <3>3. b[j - Len(a)] = s[i + (j - Len(a))]
      BY <1>2, <3>1
    <3> QED
      BY <1>4, <3>1, <3>2, <3>3
  <2> QED
    BY <1>6, <2>0, <2>1, <2>2
<1> QED
  BY <1>3, <1>4, <1>5, <1>6

\* What is put at the end of a queue, and what is taken from its front.
LEMMA Appended ==
  ASSUME NEW S, NEW s \in Seq(S), NEW e \in S
  PROVE  /\ Append(s, e) \in Seq(S) /\ Append(s, e) # <<>>
         /\ Len(s) \in Nat /\ Len(Append(s, e)) = Len(s) + 1
         /\ Len(s) + 1 \in 1 .. Len(Append(s, e)) /\ Append(s, e)[Len(s) + 1] = e
         /\ \A i \in 1 .. Len(s): i \in 1 .. Len(Append(s, e))
         /\ \A i \in 1 .. Len(s): Append(s, e)[i] = s[i]
         /\ \A i \in 1 .. Len(Append(s, e)): i \in 1 .. Len(s) \/ i = Len(s) + 1
<1> DEFINE a == Append(s, e)
<1>1. a \in Seq(S) /\ Len(a) = Len(s) + 1 /\ a[Len(s) + 1] = e /\ \A i \in 1 .. Len(s): a[i] = s[i]
  BY AppendProperties
<1>2. Len(s) \in Nat
  OBVIOUS
<1> HIDE DEF a
<1>3. a # <<>>
  BY <1>1, <1>2
<1> QED
  BY <1>1, <1>2, <1>3 DEF a

LEMMA Shortened ==
  ASSUME NEW S, NEW s \in Seq(S), s # <<>>
  PROVE  /\ Head(s) \in S /\ Head(s) = s[1] /\ Tail(s) \in Seq(S)
         /\ Len(s) \in Nat \ {0} /\ Len(Tail(s)) = Len(s) - 1
         /\ Tail(s) = <<>> <=> Len(s) = 1
         /\ \A i \in 1 .. Len(Tail(s)): i + 1 \in 1 .. Len(s) /\ Tail(s)[i] = s[i + 1]
         /\ \A i \in 2 .. Len(s): i - 1 \in 1 .. Len(Tail(s)) /\ Tail(s)[i - 1] = s[i]
<1> DEFINE t == Tail(s)
<1>1. Head(s) \in S /\ Head(s) = s[1] /\ t \in Seq(S) /\ Len(t) = Len(s) - 1 /\ \A i \in 1 .. Len(t): t[i] = s[i + 1]
  BY HeadTailProperties
<1>2. Len(s) \in Nat \ {0}
  OBVIOUS
<1> HIDE DEF t
<1>3. ASSUME NEW i \in 2 .. Len(s) PROVE i - 1 \in 1 .. Len(t) /\ t[i - 1] = s[i]
  <2>1. i - 1 \in 1 .. Len(t) /\ (i - 1) + 1 = i
    BY <1>1, <1>2
  <2> QED
    BY <1>1, <2>1
<1>4. \A i \in 1 .. Len(t): i + 1 \in 1 .. Len(s)
  BY <1>1, <1>2
<1>5. t = <<>> <=> Len(t) = 0
  BY <1>1, EmptySeq
<1> QED
  BY <1>1, <1>2, <1>3, <1>4, <1>5 DEF t

\* What a lost link leaves of a queue was there before.
LEMMA PrefixFacts ==
  ASSUME NEW S, NEW s \in Seq(S), NEW k \in 0 .. Len(s)
  PROVE  /\ SubSeq(s, 1, k) \in Seq(S) /\ Len(SubSeq(s, 1, k)) = k
         /\ \A j \in 1 .. k: SubSeq(s, 1, k)[j] = s[j]
  OBVIOUS

-----------------------------------------------------------------------------
(* Numbers in a row *)

\* The numbers after a up to b.
Span(a, b) == [k \in 1 .. b - a |-> a + k]

LEMMA SpanIs ==
  ASSUME NEW a \in Nat, NEW b \in Nat, a <= b
  PROVE  /\ Span(a, b) \in Seq(Nat) /\ Len(Span(a, b)) = b - a
         /\ \A k \in 1 .. b - a: Span(a, b)[k] = a + k
<1>1. b - a \in Nat /\ \A k \in 1 .. b - a: a + k \in Nat
  OBVIOUS
<1>2. [k \in 1 .. b - a |-> a + k] \in [1 .. b - a -> Nat]
  BY <1>1
<1> QED
  BY <1>1, <1>2 DEF Span

LEMMA SpanOnly ==
  ASSUME NEW a \in Nat, NEW b \in Nat, a <= b,
         NEW s \in Seq(Nat), Len(s) = b - a, \A k \in 1 .. b - a: s[k] = a + k
  PROVE  s = Span(a, b)
<1>1. PICK t \in Seq(Nat): t = Span(a, b) /\ Len(t) = b - a /\ \A k \in 1 .. b - a: t[k] = a + k
  BY SpanIs
<1>2. Len(s) = Len(t) /\ \A k \in 1 .. Len(s): s[k] = t[k]
  BY <1>1
<1>3. s = t
  BY <1>2, SeqEqual
<1> QED
  BY <1>1, <1>3

LEMMA SpanFacts ==
  ASSUME NEW a \in Nat, NEW b \in Nat, a <= b
  PROVE  /\ Append(Span(a, b), b + 1) = Span(a, b + 1)
         /\ a < b => Span(a, b) # <<>> /\ Span(a, b)[1] = a + 1 /\ Tail(Span(a, b)) = Span(a + 1, b)
         /\ Span(0, a) \o Span(a, b) = Span(0, b)
         /\ SubSeq(Span(0, b), a + 1, b) = Span(a, b)
         /\ SubSeq(Span(0, b), 1, a) = Span(0, a)
         /\ \A k: Contains(Span(a, b), k) <=> k \in a + 1 .. b
         /\ Span(a, a) = <<>>
         /\ Span(a, b) = <<>> => a = b
<1>0. /\ Span(a, b) \in Seq(Nat) /\ Len(Span(a, b)) = b - a /\ \A k \in 1 .. b - a: Span(a, b)[k] = a + k
      /\ Span(0, a) \in Seq(Nat) /\ Len(Span(0, a)) = a /\ \A k \in 1 .. a: Span(0, a)[k] = k
      /\ Span(0, b) \in Seq(Nat) /\ Len(Span(0, b)) = b /\ \A k \in 1 .. b: Span(0, b)[k] = k
      /\ Span(a, a) \in Seq(Nat) /\ Len(Span(a, a)) = 0
  <2>1. /\ 0 \in Nat /\ 0 <= a /\ 0 <= b /\ a <= a /\ a - 0 = a /\ b - 0 = b /\ a - a = 0
        /\ \A k \in 1 .. a: 0 + k = k
        /\ \A k \in 1 .. b: 0 + k = k
    OBVIOUS
  <2>2. Span(a, b) \in Seq(Nat) /\ Len(Span(a, b)) = b - a /\ \A k \in 1 .. b - a: Span(a, b)[k] = a + k
    BY SpanIs
  <2>3. Span(0, a) \in Seq(Nat) /\ Len(Span(0, a)) = a - 0 /\ \A k \in 1 .. a - 0: Span(0, a)[k] = 0 + k
    BY <2>1, SpanIs
  <2>4. Span(0, b) \in Seq(Nat) /\ Len(Span(0, b)) = b - 0 /\ \A k \in 1 .. b - 0: Span(0, b)[k] = 0 + k
    BY <2>1, SpanIs
  <2>5. Span(a, a) \in Seq(Nat) /\ Len(Span(a, a)) = a - a
    BY <2>1, SpanIs
  <2> QED
    BY <2>1, <2>2, <2>3, <2>4, <2>5
<1>1. Append(Span(a, b), b + 1) = Span(a, b + 1)
  <2>1. PICK s \in Seq(Nat), c \in Nat: s = Span(a, b) /\ Len(s) = b - a /\ c = b + 1
    BY <1>0
  <2>2. PICK t: t = Append(s, c)
    OBVIOUS
  <2>3. /\ t \in Seq(Nat) /\ Len(t) = Len(s) + 1 /\ t[Len(s) + 1] = c
        /\ \A k \in 1 .. Len(s): t[k] = s[k]
    BY <2>2, Appended
  <2>4. /\ a <= c /\ c - a = (b - a) + 1 /\ a + ((b - a) + 1) = c
        /\ \A k \in 1 .. (b - a) + 1: k \in 1 .. b - a \/ k = (b - a) + 1
    BY <2>1
  <2>5. Len(t) = c - a /\ \A k \in 1 .. c - a: t[k] = a + k
    BY <1>0, <2>1, <2>3, <2>4
  <2>6. t = Span(a, c)
    BY <2>3, <2>4, <2>5, SpanOnly
  <2> QED
    BY <2>1, <2>2, <2>6
<1>2. a < b => Span(a, b) # <<>> /\ Span(a, b)[1] = a + 1 /\ Tail(Span(a, b)) = Span(a + 1, b)
  <2> SUFFICES ASSUME a < b PROVE Span(a, b) # <<>> /\ Span(a, b)[1] = a + 1 /\ Tail(Span(a, b)) = Span(a + 1, b)
    OBVIOUS
  <2>1. a + 1 \in Nat /\ a + 1 <= b /\ b - (a + 1) = (b - a) - 1 /\ 1 \in 1 .. b - a /\ b - a # 0
    OBVIOUS
  <2>2. Span(a, b) # <<>>
    BY <1>0, <2>1, EmptySeq
  <2>3. PICK c \in Nat: c = a + 1 /\ c <= b /\ b - c = (b - a) - 1
    BY <2>1
  <2>4. PICK s \in Seq(Nat): s = Span(a, b) /\ Len(s) = b - a /\ s # <<>>
    BY <1>0, <2>2
  <2>5. PICK t: t = Tail(s)
    OBVIOUS
  <2>6. t \in Seq(Nat) /\ Len(t) = Len(s) - 1 /\ \A i \in 1 .. Len(t): i + 1 \in 1 .. Len(s) /\ t[i] = s[i + 1]
    BY <2>4, <2>5, Shortened
  <2>7. \A i \in 1 .. b - c: a + (i + 1) = c + i
    BY <2>3
  <2>8. Len(t) = b - c /\ \A i \in 1 .. b - c: t[i] = c + i
    <3>1. Len(t) = b - c
      BY <2>3, <2>4, <2>6
    <3>2. ASSUME NEW i \in 1 .. b - c PROVE t[i] = c + i
      <4>1. i + 1 \in 1 .. b - a /\ t[i] = s[i + 1]
        BY <2>4, <2>6, <3>1
      <4>2. s[i + 1] = a + (i + 1)
        BY <1>0, <2>4, <4>1
      <4> QED
        BY <2>7, <4>1, <4>2
    <3> QED
      BY <3>1, <3>2
  <2>9. t = Span(c, b)
    BY <2>3, <2>6, <2>8, SpanOnly
  <2> QED
    BY <1>0, <2>1, <2>2, <2>3, <2>4, <2>5, <2>9
<1>3. Span(0, a) \o Span(a, b) = Span(0, b)
  <2>1. a + (b - a) = b
    OBVIOUS
  <2>2. /\ Span(0, a) \o Span(a, b) \in Seq(Nat) /\ Len(Span(0, a) \o Span(a, b)) = b
        /\ \A i \in 1 .. b: (Span(0, a) \o Span(a, b))[i] = IF i <= a THEN Span(0, a)[i] ELSE Span(a, b)[i - a]
    <3>1. PICK s \in Seq(Nat), t \in Seq(Nat): s = Span(0, a) /\ Len(s) = a /\ t = Span(a, b) /\ Len(t) = b - a
      BY <1>0
    <3>2. /\ s \o t \in Seq(Nat) /\ Len(s \o t) = Len(s) + Len(t)
          /\ \A i \in 1 .. Len(s) + Len(t): (s \o t)[i] = IF i <= Len(s) THEN s[i] ELSE t[i - Len(s)]
      BY ConcatProperties
    <3>3. Len(s) + Len(t) = b
      BY <2>1, <3>1
    <3>4. /\ s \o t \in Seq(Nat) /\ Len(s \o t) = b
          /\ \A i \in 1 .. b: (s \o t)[i] = IF i <= a THEN s[i] ELSE t[i - a]
      BY <3>1, <3>2, <3>3
    <3> QED
      BY <3>1, <3>4
  <2>3. \A i \in 1 .. b: IF i <= a THEN i \in 1 .. a ELSE i - a \in 1 .. b - a /\ a + (i - a) = i
    OBVIOUS
  <2>4. PICK s: s = Span(0, a) \o Span(a, b)
    OBVIOUS
  <2>5. s \in Seq(Nat) /\ Len(s) = b - 0 /\ \A i \in 1 .. b - 0: s[i] = 0 + i
    <3>1. ASSUME NEW i \in 1 .. b PROVE s[i] = i
      <4>1. s[i] = IF i <= a THEN Span(0, a)[i] ELSE Span(a, b)[i - a]
        BY <2>2, <2>4
      <4>2. CASE i <= a
        <5>1. i \in 1 .. a
          BY <2>3, <4>2
        <5> QED
          BY <1>0, <4>1, <4>2, <5>1
      <4>3. CASE ~(i <= a)
        <5>1. i - a \in 1 .. b - a /\ a + (i - a) = i
          BY <2>3, <4>3
        <5> QED
          BY <1>0, <4>1, <4>3, <5>1
      <4> QED
        BY <4>2, <4>3
    <3>2. b - 0 = b /\ \A i \in 1 .. b: 0 + i = i
      OBVIOUS
    <3>3. s \in Seq(Nat) /\ Len(s) = b
      BY <2>2, <2>4
    <3> QED
      BY <3>1, <3>2, <3>3
  <2>6. 0 \in Nat /\ 0 <= b
    OBVIOUS
  <2>7. s = Span(0, b)
    BY <2>5, <2>6, SpanOnly
  <2> QED
    BY <2>4, <2>7
<1>4. SubSeq(Span(0, b), a + 1, b) = Span(a, b)
  <2>1. \A i \in a + 1 .. b: i \in 1 .. b
    OBVIOUS
  <2>2. /\ SubSeq(Span(0, b), a + 1, b) \in Seq(Nat)
        /\ Len(SubSeq(Span(0, b), a + 1, b)) = IF a + 1 <= b THEN b - (a + 1) + 1 ELSE 0
        /\ \A i \in 1 .. b - (a + 1) + 1: SubSeq(Span(0, b), a + 1, b)[i] = Span(0, b)[(a + 1) + i - 1]
    <3>1. \A i \in a + 1 .. b: Span(0, b)[i] \in Nat
      BY <1>0, <2>1
    <3> QED
      BY <3>1, SubSeqProperties
  <2>3. (IF a + 1 <= b THEN b - (a + 1) + 1 ELSE 0) = b - a /\ b - (a + 1) + 1 = b - a
    OBVIOUS
  <2>4. \A i \in 1 .. b - a: (a + 1) + i - 1 = a + i /\ a + i \in 1 .. b
    OBVIOUS
  <2>5. PICK s: s = SubSeq(Span(0, b), a + 1, b)
    OBVIOUS
  <2>6. s \in Seq(Nat) /\ Len(s) = b - a /\ \A i \in 1 .. b - a: s[i] = a + i
    BY <1>0, <2>2, <2>3, <2>4, <2>5
  <2>7. s = Span(a, b)
    BY <2>6, SpanOnly
  <2> QED
    BY <2>5, <2>7
<1>5. SubSeq(Span(0, b), 1, a) = Span(0, a)
  <2>1. a \in 0 .. b /\ \A i \in 1 .. a: i \in 1 .. b
    OBVIOUS
  <2>2. SubSeq(Span(0, b), 1, a) \in Seq(Nat) /\ Len(SubSeq(Span(0, b), 1, a)) = a
        /\ \A j \in 1 .. a: SubSeq(Span(0, b), 1, a)[j] = Span(0, b)[j]
    BY <1>0, <2>1, PrefixFacts
  <2>3. PICK s: s = SubSeq(Span(0, b), 1, a)
    OBVIOUS
  <2>4. s \in Seq(Nat) /\ Len(s) = a - 0 /\ \A i \in 1 .. a - 0: s[i] = 0 + i
    BY <1>0, <2>1, <2>2, <2>3
  <2>5. 0 \in Nat /\ 0 <= a
    OBVIOUS
  <2>6. s = Span(0, a)
    BY <2>4, <2>5, SpanOnly
  <2> QED
    BY <2>3, <2>6
<1>6. ASSUME NEW k PROVE Contains(Span(a, b), k) <=> k \in a + 1 .. b
  <2>1. ASSUME Contains(Span(a, b), k) PROVE k \in a + 1 .. b
    <3>1. PICK i \in 1 .. b - a: Span(a, b)[i] = k
      BY <1>0, <2>1 DEF Contains
    <3>2. k = a + i
      BY <1>0, <3>1
    <3> QED
      BY <3>2
  <2>2. ASSUME k \in a + 1 .. b PROVE Contains(Span(a, b), k)
    <3>1. k - a \in 1 .. b - a /\ a + (k - a) = k
      BY <2>2
    <3>2. Span(a, b)[k - a] = k
      BY <1>0, <3>1
    <3> QED
      BY <1>0, <3>1, <3>2 DEF Contains
  <2> QED
    BY <2>1, <2>2
<1>7. Span(a, a) = <<>>
  BY <1>0, EmptySeq
<1>8. Span(a, b) = <<>> => a = b
  <2>1. Len(<<>>) = 0
    BY EmptySeq
  <2>2. b - a = 0 => a = b
    OBVIOUS
  <2> QED
    BY <1>0, <2>1, <2>2
<1> QED
  BY <1>1, <1>2, <1>3, <1>4, <1>5, <1>6, <1>7, <1>8

-----------------------------------------------------------------------------
(* Queues that lead from one state to another *)

\* Taken one after the other the elements of q lead from a to b: each is the middle of a
\* triple of T, between the state before and the state after it.
Path(T, S, a, q, b) ==
  \E st \in [0 .. Len(q) -> S]:
    /\ st[0] = a /\ st[Len(q)] = b
    /\ \A i \in 1 .. Len(q): <<st[i - 1], q[i], st[i]>> \in T

LEMMA PathFacts ==
  ASSUME NEW T, NEW S, NEW E, NEW q \in Seq(E), NEW a \in S
  PROVE  /\ Path(T, S, a, <<>>, a) /\ \A b: Path(T, S, a, <<>>, b) => a = b
         /\ \A b: \A e \in E, c \in S: Path(T, S, a, q, b) /\ <<b, e, c>> \in T => Path(T, S, a, Append(q, e), c)
         /\ \A b: q # <<>> /\ Path(T, S, a, q, b) =>
              \E c \in S: <<a, q[1], c>> \in T /\ Path(T, S, c, Tail(q), b)
<1>1. Path(T, S, a, <<>>, a) /\ \A b: Path(T, S, a, <<>>, b) => a = b
  <2>1. Len(<<>>) = 0 /\ 1 .. 0 = {}
    OBVIOUS
  <2> DEFINE st == [i \in 0 .. 0 |-> a]
  <2>2. st \in [0 .. 0 -> S] /\ st[0] = a
    OBVIOUS
  <2> QED
    BY <2>1, <2>2 DEF Path
<1>2. ASSUME NEW b, NEW e \in E, NEW c \in S, Path(T, S, a, q, b), <<b, e, c>> \in T
      PROVE  Path(T, S, a, Append(q, e), c)
  <2> DEFINE n == Len(q)
             t == Append(q, e)
  <2>1. PICK st \in [0 .. n -> S]:
          st[0] = a /\ st[n] = b /\ \A i \in 1 .. n: <<st[i - 1], q[i], st[i]>> \in T
    BY <1>2 DEF Path
  <2>2. /\ n \in Nat /\ Len(t) = n + 1 /\ t[n + 1] = e
        /\ \A i \in 1 .. n: t[i] = q[i]
    BY Appended
  <2> HIDE DEF n, t
  <2> DEFINE next == [i \in 0 .. n + 1 |-> IF i = n + 1 THEN c ELSE st[i]]
  <2>3. next \in [0 .. n + 1 -> S] /\ next[0] = a /\ next[n + 1] = c
        /\ \A i \in 0 .. n: next[i] = st[i]
    BY <2>1, <2>2
  <2> HIDE DEF next
  <2>4. ASSUME NEW i \in 1 .. n + 1 PROVE <<next[i - 1], t[i], next[i]>> \in T
    <3>1. CASE i = n + 1
      <4>1. i - 1 = n /\ n \in 0 .. n
        BY <2>2, <3>1
      <4>2. next[i - 1] = b /\ next[i] = c /\ t[i] = e
        BY <2>1, <2>2, <2>3, <3>1, <4>1
      <4> QED
        BY <1>2, <4>2
    <3>2. CASE i # n + 1
      <4>1. i \in 1 .. n /\ i \in 0 .. n /\ i - 1 \in 0 .. n
        BY <2>2, <3>2
      <4> QED
        BY <2>1, <2>2, <2>3, <4>1
    <3> QED
      BY <3>1, <3>2
  <2>5. Path(T, S, a, t, c)
    BY <2>2, <2>3, <2>4 DEF Path
  <2> QED
    BY <2>5 DEF t
<1>3. ASSUME NEW b, q # <<>>, Path(T, S, a, q, b)
      PROVE  \E c \in S: <<a, q[1], c>> \in T /\ Path(T, S, c, Tail(q), b)
  <2> DEFINE n == Len(q)
             t == Tail(q)
  <2>1. PICK st \in [0 .. n -> S]:
          st[0] = a /\ st[n] = b /\ \A i \in 1 .. n: <<st[i - 1], q[i], st[i]>> \in T
    BY <1>3 DEF Path
  <2>2. /\ n \in Nat \ {0} /\ Len(t) = n - 1
        /\ \A i \in 1 .. Len(t): t[i] = q[i + 1]
    BY <1>3, Shortened
  <2> HIDE DEF n, t
  <2> DEFINE next == [i \in 0 .. n - 1 |-> st[i + 1]]
  <2>3. \A i \in 0 .. n - 1: i + 1 \in 0 .. n
    BY <2>2
  <2>4. next \in [0 .. n - 1 -> S] /\ \A i \in 0 .. n - 1: next[i] = st[i + 1]
    BY <2>1, <2>3
  <2> HIDE DEF next
  <2>5. 1 \in 1 .. n /\ 1 \in 0 .. n /\ 1 - 1 = 0 /\ 0 \in 0 .. n - 1 /\ 0 + 1 = 1
        /\ n - 1 \in 0 .. n - 1 /\ (n - 1) + 1 = n
    BY <2>2
  <2>6. next[0] = st[1] /\ next[n - 1] = b /\ st[1] \in S /\ <<a, q[1], st[1]>> \in T
    BY <2>1, <2>4, <2>5
  <2>7. ASSUME NEW i \in 1 .. n - 1 PROVE <<next[i - 1], t[i], next[i]>> \in T
    <3>1. i \in 0 .. n - 1 /\ i - 1 \in 0 .. n - 1 /\ (i - 1) + 1 = i /\ i + 1 \in 1 .. n /\ (i + 1) - 1 = i
          /\ i \in 1 .. Len(t)
      BY <2>2
    <3>2. next[i] = st[i + 1] /\ next[i - 1] = st[i] /\ t[i] = q[i + 1]
      BY <2>2, <2>4, <3>1
    <3>3. <<st[i], q[i + 1], st[i + 1]>> \in T
      BY <2>1, <3>1
    <3> QED
      BY <3>2, <3>3
  <2>8. Path(T, S, st[1], t, b)
    BY <2>2, <2>4, <2>6, <2>7 DEF Path
  <2> QED
    BY <2>6, <2>8 DEF t
<1> QED
  BY <1>1, <1>2, <1>3

-----------------------------------------------------------------------------
(* Members of a set among the elements of a sequence *)

Times(s, E) == Cardinality({i \in 1 .. Len(s): s[i] \in E})
Occurs(s, E) == \E i \in 1 .. Len(s): s[i] \in E
\* No element of D comes after one of E.
NoneAfter(s, E, D) == \A i, j \in 1 .. Len(s): i < j /\ s[i] \in E => s[j] \notin D

LEMMA TimesFacts ==
  ASSUME NEW S, NEW s \in Seq(S), NEW E
  PROVE  /\ IsFiniteSet({i \in 1 .. Len(s): s[i] \in E})
         /\ Times(s, E) \in Nat
         /\ Times(s, E) = 0 <=> ~Occurs(s, E)
<1> DEFINE A == {i \in 1 .. Len(s): s[i] \in E}
<1>1. IsFiniteSet(1 .. Len(s)) /\ A \subseteq 1 .. Len(s)
  BY FS_Interval, LenProperties
<1>2. IsFiniteSet(A)
  BY <1>1, FS_Subset
<1>3. Cardinality(A) \in Nat /\ (Cardinality(A) = 0 <=> A = {})
  BY <1>2, FS_CardinalityType, FS_EmptySet
<1>4. A = {} <=> ~Occurs(s, E)
  BY DEF Occurs
<1> QED
  BY <1>2, <1>3, <1>4 DEF Times

LEMMA AppendTimes ==
  ASSUME NEW S, NEW s \in Seq(S), NEW e \in S, NEW E
  PROVE  /\ Times(Append(s, e), E) = Times(s, E) + (IF e \in E THEN 1 ELSE 0)
         /\ Occurs(Append(s, e), E) <=> Occurs(s, E) \/ e \in E
<1> DEFINE t == Append(s, e)
           n == Len(s)
           A == {i \in 1 .. n: s[i] \in E}
           B == {i \in 1 .. Len(t): t[i] \in E}
<1>1. /\ n \in Nat /\ Len(t) = n + 1 /\ t[n + 1] = e
      /\ \A i \in 1 .. n: i \in 1 .. Len(t) /\ t[i] = s[i]
      /\ n + 1 \in 1 .. Len(t)
      /\ \A i \in 1 .. Len(t): i \in 1 .. n \/ i = n + 1
  BY Appended
<1> HIDE DEF t, n
<1>2. n + 1 \notin A
  BY <1>1
<1>3. B = IF e \in E THEN A \cup {n + 1} ELSE A
  BY <1>1
<1>4. IsFiniteSet(A) /\ Cardinality(A) \in Nat
  BY TimesFacts, FS_CardinalityType DEF n
<1>5. Cardinality(A \cup {n + 1}) = Cardinality(A) + 1
  BY <1>2, <1>4, FS_AddElement
<1>6. Cardinality(B) = Cardinality(A) + (IF e \in E THEN 1 ELSE 0)
  <2> HIDE DEF A, B
  <2> QED
    BY <1>3, <1>4, <1>5
<1>7. Occurs(t, E) <=> Occurs(s, E) \/ e \in E
  BY <1>1 DEF Occurs, n
<1> QED
  BY <1>6, <1>7 DEF Times, t, n

LEMMA TailTimes ==
  ASSUME NEW S, NEW s \in Seq(S), s # <<>>, NEW E
  PROVE  /\ Times(s, E) = Times(Tail(s), E) + (IF s[1] \in E THEN 1 ELSE 0)
         /\ Occurs(s, E) <=> Occurs(Tail(s), E) \/ s[1] \in E
<1> DEFINE t == Tail(s)
           n == Len(s)
           A == {i \in 1 .. Len(t): t[i] \in E}
           B == {i \in 1 .. n: s[i] \in E}
           C == {i + 1: i \in A}
           up == [i \in A |-> i + 1]
<1>1. /\ n \in Nat \ {0} /\ Len(t) = n - 1 /\ t \in Seq(S)
      /\ \A i \in 1 .. Len(t): i + 1 \in 1 .. n /\ t[i] = s[i + 1]
      /\ \A i \in 2 .. n: i - 1 \in 1 .. Len(t) /\ t[i - 1] = s[i]
  BY Shortened
<1> HIDE DEF t, n
<1>2. IsFiniteSet(A) /\ Cardinality(A) \in Nat
  BY <1>1, TimesFacts, FS_CardinalityType
<1>3. up \in Bijection(A, C)
  BY <1>1 DEF Bijection, Injection, Surjection, IsInjective
<1>4. IsFiniteSet(C) /\ Cardinality(C) = Cardinality(A)
  BY <1>2, <1>3, FS_Bijection DEF ExistsBijection
<1>5. 1 \notin C /\ Cardinality(C \cup {1}) = Cardinality(C) + 1
  <2>1. 1 \notin C
    BY <1>1
  <2> HIDE DEF C
  <2> QED
    BY <1>4, <2>1, FS_AddElement
<1>6. B = IF s[1] \in E THEN C \cup {1} ELSE C
  <2>1. ASSUME NEW i \in B, i # 1 PROVE i \in C
    <3>1. i \in 2 .. n
      BY <1>1, <2>1
    <3>2. i - 1 \in A /\ (i - 1) + 1 = i
      BY <1>1, <2>1, <3>1
    <3> QED
      BY <3>2
  <2>2. C \subseteq B
    BY <1>1
  <2>3. 1 \in B <=> s[1] \in E
    BY <1>1
  <2> QED
    BY <1>5, <2>1, <2>2, <2>3
<1>7. Cardinality(B) = Cardinality(A) + (IF s[1] \in E THEN 1 ELSE 0)
  <2> HIDE DEF A, B, C
  <2> QED
    BY <1>2, <1>4, <1>5, <1>6
<1>8. Occurs(s, E) <=> Occurs(t, E) \/ s[1] \in E
  <2>1. 1 \in 1 .. n /\ \A i \in 1 .. n: i = 1 \/ i \in 2 .. n
    BY <1>1
  <2> QED
    BY <1>1, <2>1 DEF Occurs, n
<1> QED
  BY <1>7, <1>8 DEF Times, t, n

LEMMA AppendNoneAfter ==
  ASSUME NEW S, NEW s \in Seq(S), NEW e \in S, NEW E, NEW D
  PROVE  NoneAfter(Append(s, e), E, D) <=> NoneAfter(s, E, D) /\ (Occurs(s, E) => e \notin D)
<1> DEFINE t == Append(s, e)
           n == Len(s)
<1>1. /\ n \in Nat /\ Len(t) = n + 1 /\ t[n + 1] = e
      /\ \A i \in 1 .. n: i \in 1 .. Len(t) /\ t[i] = s[i]
      /\ n + 1 \in 1 .. Len(t)
      /\ \A i \in 1 .. Len(t): i \in 1 .. n \/ i = n + 1
  BY Appended
<1> HIDE DEF t, n
<1>2. \A i \in 1 .. n: i < n + 1
  BY <1>1
<1>3. \A i, j \in 1 .. Len(t): i < j => i \in 1 .. n
  BY <1>1
<1>4. ASSUME NoneAfter(t, E, D) PROVE NoneAfter(s, E, D) /\ (Occurs(s, E) => e \notin D)
  BY <1>1, <1>2, <1>4 DEF NoneAfter, Occurs, n
<1>5. ASSUME NoneAfter(s, E, D), Occurs(s, E) => e \notin D PROVE NoneAfter(t, E, D)
  BY <1>1, <1>3, <1>5 DEF NoneAfter, Occurs, n
<1> QED
  BY <1>4, <1>5 DEF t

LEMMA TailNoneAfter ==
  ASSUME NEW S, NEW s \in Seq(S), s # <<>>, NEW E, NEW D, NoneAfter(s, E, D)
  PROVE  NoneAfter(Tail(s), E, D) /\ (s[1] \in E => ~Occurs(Tail(s), D))
<1> DEFINE t == Tail(s)
           n == Len(s)
<1>1. /\ n \in Nat \ {0} /\ Len(t) = n - 1
      /\ \A i \in 1 .. Len(t): i + 1 \in 1 .. n /\ t[i] = s[i + 1]
  BY Shortened
<1> HIDE DEF t, n
<1>2. \A i, j \in 1 .. Len(t): i < j => i + 1 < j + 1
  BY <1>1
<1>3. 1 \in 1 .. n /\ \A i \in 1 .. Len(t): 1 < i + 1
  BY <1>1
<1>4. NoneAfter(t, E, D)
  BY <1>1, <1>2 DEF NoneAfter, n
<1>5. s[1] \in E => ~Occurs(t, D)
  BY <1>1, <1>3 DEF NoneAfter, Occurs, n
<1> QED
  BY <1>4, <1>5 DEF t

LEMMA EmptyTimes ==
  ASSUME NEW E
  PROVE  Times(<<>>, E) = 0 /\ ~Occurs(<<>>, E) /\ \A D: NoneAfter(<<>>, E, D)
<1>1. ~Occurs(<<>>, E) /\ \A D: NoneAfter(<<>>, E, D)
  BY DEF Occurs, NoneAfter
<1>2. <<>> \in Seq({})
  OBVIOUS
<1> QED
  BY <1>1, <1>2, TimesFacts
=============================================================================

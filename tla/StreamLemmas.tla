---------------------------- MODULE StreamLemmas ----------------------------
(***************************************************************************)
(* Facts about FIFO streams kept as sequences: the elements that remain    *)
(* when a stream is read, written, cut, or loses an element.               *)
(***************************************************************************)
EXTENDS Integers, Sequences, SequencesExt, SequenceTheorems, WellFoundedInduction,
        TLAPS

\* A set of numbers that is not empty has a least element.  The relation is
\* the library's, which only Zenon can read.
LEMMA LeastElement ==
    ASSUME NEW S, S \subseteq Nat, S # {}
    PROVE  \E x \in S : \A y \in S : x <= y
<1>1. \A T : T \in SUBSET Nat /\ T # {} =>
        \E x \in T : \A y \in T : ~ (<<y, x>> \in OpToRel(<, Nat))
  BY WFMin, NatLessThanWellFounded, Zenon
<1>2. \A x, y \in Nat : <<y, x>> \in OpToRel(<, Nat) <=> y < x
  BY Zenon DEF OpToRel
<1>3. \A T : T \in SUBSET Nat /\ T # {} => \E x \in T : \A y \in T : ~ (y < x)
  BY <1>1, <1>2, Zenon
<1>4. PICK x \in S : \A y \in S : ~ (y < x)
  BY <1>3, Zenon
<1>5. \A y \in S : x <= y
  BY <1>4, SMT
<1> QED
  BY <1>4, <1>5

\* A set of places of a sequence that is not empty has a last one.
LEMMA GreatestElement ==
    ASSUME NEW n \in Nat, NEW S, S \subseteq 1..n, S # {}
    PROVE  \E x \in S : \A y \in S : y <= x
<1> DEFINE T == {n - i : i \in S}
<1>1. T \subseteq Nat /\ T # {}
  <2>1. \A i \in S : n - i \in Nat
    OBVIOUS
  <2> QED
    BY <2>1
<1>2. PICK x \in T : \A y \in T : x <= y
  <2> HIDE DEF T
  <2> QED
    BY <1>1, LeastElement
<1>3. PICK i \in S : x = n - i
  OBVIOUS
<1>4. \A j \in S : n - j \in T /\ x <= n - j
  BY <1>2
<1>5. \A j \in S : j <= i
  BY <1>3, <1>4
<1> QED
  BY <1>5

\* A sum that is taken step by step is defined by its steps.
LEMMA RunningSum ==
    ASSUME NEW k \in Nat, NEW first \in Nat, NEW add, \A i \in 0..(k - 1) : add[i] \in Nat
    PROVE  LET sum == CHOOSE f : f = [i \in 0..k |-> IF i = 0 THEN first ELSE f[i - 1] + add[i - 1]]
           IN  \A i \in 0..k : sum[i] \in Nat /\ sum[i] >= first
<1> DEFINE Step(f, n) == [i \in 0..n |-> IF i = 0 THEN first ELSE f[i - 1] + add[i - 1]]
           Good(n) == \E f : f = Step(f, n)
<1>1. Good(k)
  <2>1. SUFFICES ASSUME ~Good(k) PROVE FALSE
    OBVIOUS
  <2> DEFINE Bad == {n \in 0..k : ~Good(n)}
  <2>2. PICK n \in Bad : \A m \in Bad : n <= m
    <3>1. k \in Bad /\ Bad \subseteq Nat
      BY <2>1
    <3> HIDE DEF Bad
    <3>2. QED
      BY <3>1, LeastElement
  <2>3. CASE n = 0
    <3> DEFINE f == [i \in 0..0 |-> first]
    <3>1. f = Step(f, 0)
      OBVIOUS
    <3>2. QED
      BY <2>3, <3>1
  <2>4. CASE n # 0
    <3>1. n \in 1..k /\ n - 1 \in 0..k /\ n - 1 \notin Bad
      <4> HIDE DEF Good
      <4>1. QED
        BY <2>2, <2>4
    <3>2. PICK f : f = Step(f, n - 1)
      BY <3>1
    <3> DEFINE g == [i \in 0..n |-> IF i = n THEN f[n - 1] + add[n - 1] ELSE f[i]]
    <3>3. \A i \in 0..n : g[i] = IF i = 0 THEN first ELSE g[i - 1] + add[i - 1]
      <4> SUFFICES ASSUME NEW i \in 0..n
                   PROVE  g[i] = IF i = 0 THEN first ELSE g[i - 1] + add[i - 1]
        OBVIOUS
      <4>1. CASE i = n
        BY <2>4, <4>1, <3>1
      <4>2. CASE i # n
        <5>1. i \in 0..(n - 1) /\ g[i] = f[i]
          BY <3>1, <4>2
        <5>2. f[i] = IF i = 0 THEN first ELSE f[i - 1] + add[i - 1]
          BY <3>2, <5>1
        <5>3. i # 0 => i - 1 \in 0..n /\ i - 1 # n
          BY <3>1, <5>1
        <5>4. QED
          BY <5>1, <5>2, <5>3
      <4>3. QED
        BY <4>1, <4>2
    <3>4. g = Step(g, n)
      BY <3>3
    <3>5. Good(n)
      BY <3>4
    <3>6. QED
      BY <2>2, <3>5
  <2>5. QED
    BY <2>3, <2>4
<1> DEFINE sum == CHOOSE f : f = Step(f, k)
<1>2. sum = Step(sum, k)
  <2> HIDE DEF Step
  <2>1. QED
    BY <1>1
<1>3. \A i \in 0..k : sum[i] = IF i = 0 THEN first ELSE sum[i - 1] + add[i - 1]
  <2> HIDE DEF sum
  <2>1. QED
    BY <1>2
<1>4. \A i \in 0..k : sum[i] \in Nat /\ sum[i] >= first
  <2> HIDE DEF sum
  <2> DEFINE Low(i) == sum[i] \in Nat /\ sum[i] >= first
             Bad == {i \in 0..k : ~Low(i)}
  <2>1. SUFFICES ASSUME Bad # {} PROVE FALSE
    OBVIOUS
  <2>2. PICK n \in Bad : \A m \in Bad : n <= m
    <3>1. Bad \subseteq Nat
      OBVIOUS
    <3> HIDE DEF Bad
    <3>2. QED
      BY <2>1, <3>1, LeastElement
  <2>3. n = 0 \/ (n \in 1..k /\ n - 1 \in 0..(k - 1) /\ n - 1 \notin Bad)
    BY <2>2
  <2>4. Low(n)
    BY <1>3, <2>3
  <2>5. QED
    BY <2>2, <2>4
<1>5. QED
  BY <1>4

\* Streams of one and of two elements.
LEMMA Singleton ==
    ASSUME NEW S, NEW a \in S
    PROVE  /\ <<a>> \in Seq(S)
           /\ ToSet(<<a>>) = {a}
<1>1. <<a>> \in Seq(S)
  OBVIOUS
<1>2. DOMAIN <<a>> = {1} /\ <<a>>[1] = a
  OBVIOUS
<1> QED
  BY <1>1, <1>2 DEF ToSet

\* Two elements are a sequence.
LEMMA Pair ==
    ASSUME NEW S, NEW a \in S, NEW b \in S
    PROVE  /\ <<a, b>> \in Seq(S)
           /\ ToSet(<<a, b>>) = {a, b}
<1>1. <<a, b>> \in Seq(S)
  OBVIOUS
<1>2. DOMAIN <<a, b>> = {1, 2} /\ <<a, b>>[1] = a /\ <<a, b>>[2] = b
  OBVIOUS
<1> QED
  BY <1>1, <1>2 DEF ToSet

\* A stream that holds something is not empty.
LEMMA NotEmpty ==
    ASSUME NEW S, NEW s \in Seq(S)
    PROVE  s # <<>> <=> Len(s) >= 1
OBVIOUS

\* Reading takes the head; what is left holds nothing new.
LEMMA ReadStream ==
    ASSUME NEW S, NEW s \in Seq(S), s # <<>>
    PROVE  /\ Head(s) \in S
           /\ Head(s) \in ToSet(s)
           /\ Tail(s) \in Seq(S)
           /\ Len(Tail(s)) = Len(s) - 1
           /\ \A i \in 1..Len(Tail(s)) : Tail(s)[i] = s[i + 1]
           /\ ToSet(Tail(s)) \subseteq ToSet(s)
<1>1. Len(s) \in Nat \ {0} /\ DOMAIN s = 1..Len(s)
  OBVIOUS
<1>2. Head(s) = s[1] /\ 1 \in DOMAIN s
  BY <1>1
<1>3. /\ Tail(s) \in Seq(S)
      /\ Len(Tail(s)) = Len(s) - 1
      /\ \A i \in 1..Len(Tail(s)) : Tail(s)[i] = s[i + 1]
  OBVIOUS
<1>4. DOMAIN Tail(s) = 1..(Len(s) - 1)
  BY <1>3
<1>5. ToSet(Tail(s)) \subseteq ToSet(s)
  BY <1>1, <1>3, <1>4 DEF ToSet
<1> QED
  BY <1>2, <1>3, <1>5 DEF ToSet

\* Reading two elements.
LEMMA ReadTwo ==
    ASSUME NEW S, NEW s \in Seq(S), Len(s) >= 2
    PROVE  /\ s[2] \in S
           /\ s[2] \in ToSet(s)
           /\ Tail(Tail(s)) \in Seq(S)
           /\ Len(Tail(Tail(s))) = Len(s) - 2
           /\ \A i \in 1..Len(Tail(Tail(s))) : Tail(Tail(s))[i] = s[i + 2]
           /\ ToSet(Tail(Tail(s))) \subseteq ToSet(s)
<1>1. s # <<>> /\ Len(s) \in Nat
  OBVIOUS
<1>2. s[2] \in S /\ s[2] \in ToSet(s)
  <2>1. 2 \in DOMAIN s
    OBVIOUS
  <2> QED
    BY <2>1 DEF ToSet
<1> DEFINE t == Tail(s)
<1>3. /\ t \in Seq(S)
      /\ Len(t) = Len(s) - 1
      /\ \A i \in 1..Len(t) : t[i] = s[i + 1]
      /\ ToSet(t) \subseteq ToSet(s)
  BY <1>1, ReadStream
<1> HIDE DEF t
<1>4. t # <<>>
  <2>1. Len(t) >= 1
    BY <1>1, <1>3
  <2> QED
    BY <1>3, <2>1, NotEmpty
<1>5. /\ Tail(t) \in Seq(S)
      /\ Len(Tail(t)) = Len(t) - 1
      /\ \A i \in 1..Len(Tail(t)) : Tail(t)[i] = t[i + 1]
      /\ ToSet(Tail(t)) \subseteq ToSet(t)
  BY <1>3, <1>4, ReadStream
<1>6. Len(Tail(t)) = Len(s) - 2
  BY <1>1, <1>3, <1>5
<1>7. ASSUME NEW i \in 1..Len(Tail(t))
      PROVE  Tail(t)[i] = s[i + 2]
  <2>1. i + 1 \in 1..Len(t) /\ (i + 1) + 1 = i + 2
    BY <1>1, <1>3, <1>6
  <2> QED
    BY <1>3, <1>5, <2>1
<1> QED
  BY <1>2, <1>3, <1>5, <1>6, <1>7 DEF t

\* Writing adds the one element at the end.
LEMMA WriteStream ==
    ASSUME NEW S, NEW s \in Seq(S), NEW e \in S
    PROVE  /\ Append(s, e) \in Seq(S)
           /\ Len(Append(s, e)) = Len(s) + 1
           /\ \A i \in 1..Len(s) : Append(s, e)[i] = s[i]
           /\ Append(s, e)[Len(s) + 1] = e
           /\ ToSet(Append(s, e)) = ToSet(s) \union {e}
<1>1. /\ Append(s, e) \in Seq(S)
      /\ Len(Append(s, e)) = Len(s) + 1
      /\ \A i \in 1..Len(s) : Append(s, e)[i] = s[i]
      /\ Append(s, e)[Len(s) + 1] = e
  OBVIOUS
<1>2. DOMAIN Append(s, e) = 1..(Len(s) + 1) /\ DOMAIN s = 1..Len(s) /\ Len(s) \in Nat
  BY <1>1
<1>3. ToSet(Append(s, e)) \subseteq ToSet(s) \union {e}
  BY <1>1, <1>2 DEF ToSet
<1>4. ToSet(s) \union {e} \subseteq ToSet(Append(s, e))
  BY <1>1, <1>2 DEF ToSet
<1> QED
  BY <1>1, <1>3, <1>4

\* Writing a sequence adds its elements.
LEMMA WriteAll ==
    ASSUME NEW S, NEW s \in Seq(S), NEW t \in Seq(S)
    PROVE  /\ s \o t \in Seq(S)
           /\ Len(s \o t) = Len(s) + Len(t)
           /\ \A i \in 1..(Len(s) + Len(t)) :
                 (s \o t)[i] = IF i <= Len(s) THEN s[i] ELSE t[i - Len(s)]
           /\ ToSet(s \o t) \subseteq ToSet(s) \union ToSet(t)
<1>1. /\ s \o t \in Seq(S)
      /\ Len(s \o t) = Len(s) + Len(t)
      /\ \A i \in 1..(Len(s) + Len(t)) :
            (s \o t)[i] = IF i <= Len(s) THEN s[i] ELSE t[i - Len(s)]
  OBVIOUS
<1>2. /\ DOMAIN (s \o t) = 1..(Len(s) + Len(t))
      /\ DOMAIN s = 1..Len(s) /\ DOMAIN t = 1..Len(t)
      /\ Len(s) \in Nat /\ Len(t) \in Nat
  BY <1>1
<1>3. ASSUME NEW i \in DOMAIN (s \o t)
      PROVE  (s \o t)[i] \in ToSet(s) \union ToSet(t)
  <2>1. CASE i <= Len(s)
    BY <1>1, <1>2, <2>1 DEF ToSet
  <2>2. CASE i > Len(s)
    <3>1. i - Len(s) \in DOMAIN t /\ (s \o t)[i] = t[i - Len(s)]
      BY <1>1, <1>2, <2>2
    <3> QED
      BY <3>1 DEF ToSet
  <2> QED
    BY <1>2, <2>1, <2>2
<1>4. ToSet(s \o t) \subseteq ToSet(s) \union ToSet(t)
  BY <1>3 DEF ToSet
<1> QED
  BY <1>1, <1>4

\* A suffix holds nothing new.
LEMMA CutStream ==
    ASSUME NEW S, NEW s \in Seq(S), NEW k \in 0..Len(s)
    PROVE  /\ SubSeq(s, k + 1, Len(s)) \in Seq(S)
           /\ Len(SubSeq(s, k + 1, Len(s))) = Len(s) - k
           /\ \A i \in 1..(Len(s) - k) : SubSeq(s, k + 1, Len(s))[i] = s[i + k]
           /\ ToSet(SubSeq(s, k + 1, Len(s))) \subseteq ToSet(s)
<1> DEFINE t == SubSeq(s, k + 1, Len(s))
<1>0. Len(s) \in Nat /\ k \in Nat /\ k <= Len(s)
  OBVIOUS
<1>1. Len(s) \in Nat /\ DOMAIN s = 1..Len(s)
  OBVIOUS
<1>2. \A i \in (k + 1)..Len(s) : s[i] \in S
  OBVIOUS
<1>3. t \in Seq(S)
  BY <1>0, <1>1, <1>2, SubSeqProperties
<1>4. Len(t) = IF k + 1 <= Len(s) THEN Len(s) - (k + 1) + 1 ELSE 0
  BY <1>0, <1>1, <1>2, SubSeqProperties
<1>5. ASSUME NEW i \in 1..(Len(s) - (k + 1) + 1)
      PROVE  t[i] = s[(k + 1) + i - 1]
  BY <1>0, <1>1, <1>2, SubSeqProperties
<1> HIDE DEF t
<1>6. Len(t) = Len(s) - k
  <2>1. CASE k + 1 <= Len(s)
    <3>1. Len(t) = Len(s) - (k + 1) + 1
      BY <1>4, <2>1
    <3> QED
      BY <1>0, <3>1
  <2>2. CASE ~(k + 1 <= Len(s))
    <3>1. Len(t) = 0
      BY <1>4, <2>2
    <3>2. Len(s) - k = 0
      BY <1>0, <2>2
    <3> QED
      BY <3>1, <3>2
  <2> QED
    BY <2>1, <2>2
<1>7. DOMAIN t = 1..(Len(s) - k)
  BY <1>3, <1>6, LenProperties
<1>8. ASSUME NEW i \in 1..(Len(s) - k)
      PROVE  t[i] = s[i + k] /\ i + k \in DOMAIN s
  <2>1. i \in 1..(Len(s) - (k + 1) + 1) /\ (k + 1) + i - 1 = i + k
    BY <1>0, <1>1
  <2>2. t[i] = s[(k + 1) + i - 1]
    BY <1>5, <2>1
  <2> QED
    BY <1>0, <1>1, <2>1, <2>2
<1>9. ToSet(t) \subseteq ToSet(s)
  BY <1>7, <1>8 DEF ToSet
<1> QED
  BY <1>3, <1>6, <1>8, <1>9 DEF t

\* Losing an element moves the later ones up by one.
LEMMA LoseFromStream ==
    ASSUME NEW S, NEW s \in Seq(S), NEW k \in 1..Len(s)
    PROVE  /\ RemoveAt(s, k) \in Seq(S)
           /\ Len(RemoveAt(s, k)) = Len(s) - 1
           /\ \A i \in 1..(Len(s) - 1) :
                 RemoveAt(s, k)[i] = IF i < k THEN s[i] ELSE s[i + 1]
           /\ ToSet(RemoveAt(s, k)) \subseteq ToSet(s)
<1> DEFINE p == SubSeq(s, 1, k - 1)
           q == SubSeq(s, k + 1, Len(s))
           t == RemoveAt(s, k)
<1>1. Len(s) \in Nat /\ DOMAIN s = 1..Len(s) /\ k \in Nat /\ k >= 1
  OBVIOUS
<1>2. /\ p \in Seq(S)
      /\ Len(p) = k - 1
      /\ \A i \in 1..(k - 1) : p[i] = s[i]
  <2>1. \A i \in 1..(k - 1) : s[i] \in S
    BY <1>1
  <2>2. /\ p \in Seq(S)
        /\ Len(p) = IF 1 <= k - 1 THEN (k - 1) - 1 + 1 ELSE 0
        /\ \A i \in 1..((k - 1) - 1 + 1) : p[i] = s[1 + i - 1]
    BY <1>1, <2>1, SubSeqProperties
  <2> QED
    BY <1>1, <2>2
<1>4. /\ q \in Seq(S)
      /\ Len(q) = Len(s) - k
      /\ \A i \in 1..(Len(s) - k) : q[i] = s[i + k]
  <2>1. k \in 0..Len(s)
    BY <1>1
  <2> QED
    BY <2>1, CutStream
<1>5. t = p \o q
  BY DEF RemoveAt
<1> HIDE DEF p, q, t
<1>6. /\ t \in Seq(S)
      /\ Len(t) = Len(p) + Len(q)
      /\ \A i \in 1..(Len(p) + Len(q)) :
            t[i] = IF i <= Len(p) THEN p[i] ELSE q[i - Len(p)]
  BY <1>2, <1>4, <1>5, WriteAll
<1>7. ASSUME NEW i \in 1..(Len(s) - 1)
      PROVE  t[i] = IF i < k THEN s[i] ELSE s[i + 1]
  <2>1. t[i] = IF i <= k - 1 THEN p[i] ELSE q[i - (k - 1)]
    BY <1>1, <1>2, <1>4, <1>6
  <2>2. CASE i < k
    <3>1. i \in 1..(k - 1)
      BY <1>1, <2>2
    <3> QED
      BY <1>1, <1>2, <2>1, <2>2, <3>1
  <2>3. CASE ~(i < k)
    <3>1. i - (k - 1) \in 1..(Len(s) - k) /\ (i - (k - 1)) + k = i + 1
      BY <1>1, <2>3
    <3>2. q[i - (k - 1)] = s[i + 1]
      BY <1>4, <3>1
    <3> QED
      BY <1>1, <2>1, <2>3, <3>2
  <2> QED
    BY <2>2, <2>3
<1>8. ToSet(t) \subseteq ToSet(s)
  <2>1. DOMAIN t = 1..(Len(s) - 1)
    BY <1>1, <1>2, <1>4, <1>6
  <2>2. DOMAIN s = 1..Len(s)
    BY <1>1
  <2>3. \A i \in 1..(Len(s) - 1) : \E j \in 1..Len(s) : t[i] = s[j]
    BY <1>1, <1>7
  <2> QED
    BY <2>1, <2>2, <2>3, Zenon DEF ToSet
<1> QED
  BY <1>1, <1>2, <1>4, <1>6, <1>7, <1>8 DEF t

-----------------------------------------------------------------------------
(* Sequences in general *)

\* Something is a sequence, whatever its elements are.
IsSeq(s) == \E S : s \in Seq(S)

\* Three sequences have elements of one set.
LEMMA Three ==
    ASSUME NEW s, NEW t, NEW u, IsSeq(s), IsSeq(t), IsSeq(u)
    PROVE  \E S : s \in Seq(S) /\ t \in Seq(S) /\ u \in Seq(S)
<1>1. PICK A, B, C : s \in Seq(A) /\ t \in Seq(B) /\ u \in Seq(C)
  BY DEF IsSeq
<1>2. \A X, Y, q : X \subseteq Y /\ q \in Seq(X) => q \in Seq(Y)
  OBVIOUS
<1>3. /\ s \in Seq(A \union B \union C) /\ t \in Seq(A \union B \union C)
      /\ u \in Seq(A \union B \union C)
  BY <1>1, <1>2
<1>4. QED
  BY <1>3

\* The empty sequence changes nothing.
LEMMA EmptyIsUnit == IsSeq(<<>>) /\ \A s : IsSeq(s) => s \o <<>> = s /\ <<>> \o s = s
BY DEF IsSeq

\* Concatenation is associative.
LEMMA Assoc ==
    ASSUME NEW s, NEW t, NEW u, IsSeq(s), IsSeq(t), IsSeq(u)
    PROVE  (s \o t) \o u = s \o (t \o u) /\ IsSeq(s \o t)
<1>1. PICK S : s \in Seq(S) /\ t \in Seq(S) /\ u \in Seq(S)
  BY Three
<1>2. QED
  BY <1>1 DEF IsSeq

\* The same for sequences of numbers.
LEMMA NatAssoc ==
    ASSUME NEW s \in Seq(Nat), NEW t \in Seq(Nat), NEW u \in Seq(Nat)
    PROVE  (s \o t) \o u = s \o (t \o u)
BY ConcatAssociative, SMTT(30)

\* A part of a sequence of numbers.
LEMMA NatPart ==
    ASSUME NEW s \in Seq(Nat), NEW n \in 0..Len(s), NEW m \in Nat
    PROVE  SubSeq(s, m + 1, n) \in Seq(Nat)
<1>1. \A i \in (m + 1)..n : s[i] \in Nat
  OBVIOUS
<1>2. QED
  BY <1>1, SubSeqProperties

\* The head and the tail of a concatenation are those of its first part.
LEMMA HeadTail ==
    ASSUME NEW s, NEW t, IsSeq(s), IsSeq(t), s # <<>>
    PROVE  /\ Head(s \o t) = Head(s) /\ Tail(s \o t) = Tail(s) \o t
           /\ s \o t # <<>> /\ IsSeq(Tail(s))
<1>1. PICK S : s \in Seq(S) /\ t \in Seq(S)
  BY Three
<1>2. Len(s) >= 1 /\ Len(s) \in Nat /\ Len(t) \in Nat /\ Len(s \o t) = Len(s) + Len(t)
  BY <1>1
<1>3. Head(s \o t) = Head(s) /\ s \o t # <<>>
  BY <1>1, <1>2
<1>4. Tail(s) \in Seq(S)
  BY <1>1
<1>5. Tail(s \o t) = Tail(s) \o t
  <2>1. Len(Tail(s \o t)) = Len(Tail(s) \o t)
    BY <1>1, <1>2, <1>4
  <2>2. \A i \in 1..Len(Tail(s) \o t) : Tail(s \o t)[i] = (Tail(s) \o t)[i]
    BY <1>1, <1>2, <1>4
  <2>3. QED
    BY <1>1, <1>4, <2>1, <2>2, SeqEqual
<1>6. QED
  BY <1>3, <1>4, <1>5 DEF IsSeq

\* The elements of a concatenation.
LEMMA TwoConcat ==
    ASSUME NEW s \in Seq(Nat), NEW t \in Seq(Nat)
    PROVE  /\ s \o t \in Seq(Nat) /\ Len(s \o t) = Len(s) + Len(t) /\ Len(s) \in Nat /\ Len(t) \in Nat
           /\ \A i \in 1..Len(s) : (s \o t)[i] = s[i]
           /\ \A i \in 1..Len(t) : (s \o t)[Len(s) + i] = t[i]
<1>1. Len(s) \in Nat /\ Len(t) \in Nat
  OBVIOUS
<1>2. /\ s \o t \in Seq(Nat) /\ Len(s \o t) = Len(s) + Len(t)
      /\ \A i \in 1..(Len(s) + Len(t)) : (s \o t)[i] = IF i <= Len(s) THEN s[i] ELSE t[i - Len(s)]
  BY ConcatProperties
<1>3. \A p, q \in Nat : /\ \A i \in 1..p : i \in 1..(p + q) /\ i <= p
                        /\ \A i \in 1..q : p + i \in 1..(p + q) /\ ~(p + i <= p) /\ (p + i) - p = i
  OBVIOUS
<1>4. QED
  BY <1>1, <1>2, <1>3

\* A part of what was built before is not touched when more is built.
LEMMA PartKept ==
    ASSUME NEW s, IsSeq(s), NEW q \in 0..Len(s), NEW v,
           NEW a \in Nat \ {0}, NEW b \in 0..q
    PROVE  SubSeq(Append(SubSeq(s, 1, q), v), a, b) = SubSeq(s, a, b)
<1>1. PICK R : s \in Seq(R)
  BY DEF IsSeq
<1> DEFINE S == R \union {v}
           t == Append(SubSeq(s, 1, q), v)
<1>2. s \in Seq(S) /\ v \in S
  BY <1>1, SeqMonotonic
<1> HIDE DEF S
<1>3. /\ SubSeq(s, 1, q) \in Seq(S) /\ Len(SubSeq(s, 1, q)) = q
      /\ \A i \in 1..q : SubSeq(s, 1, q)[i] = s[i]
  BY <1>2
<1>4. t \in Seq(S) /\ \A i \in 1..q : t[i] = s[i]
  BY <1>2, <1>3, AppendProperties
<1> HIDE DEF t
<1>5. /\ SubSeq(t, a, b) \in Seq(S) /\ SubSeq(s, a, b) \in Seq(S)
      /\ Len(SubSeq(t, a, b)) = Len(SubSeq(s, a, b))
      /\ Len(SubSeq(s, a, b)) = IF a <= b THEN b - a + 1 ELSE 0
      /\ \A i \in 1..(b - a + 1) : SubSeq(t, a, b)[i] = t[a + i - 1]
      /\ \A i \in 1..(b - a + 1) : SubSeq(s, a, b)[i] = s[a + i - 1]
  <2>1. \A i \in a..b : t[i] \in S /\ s[i] \in S
    BY <1>2, <1>4
  <2>2. QED
    BY <2>1, SubSeqProperties
<1>6. \A i \in 1..(b - a + 1) : a + i - 1 \in 1..q
  OBVIOUS
<1>7. \A i \in 1..Len(SubSeq(s, a, b)) : SubSeq(t, a, b)[i] = SubSeq(s, a, b)[i]
  BY <1>4, <1>5, <1>6
<1>8. SubSeq(t, a, b) = SubSeq(s, a, b)
  BY <1>5, <1>7, SeqEqual
<1>9. QED
  BY <1>8 DEF t

\* The last part of a sequence that grows, grows with it.
LEMMA PartGrows ==
    ASSUME NEW s, IsSeq(s), NEW q \in 0..Len(s), NEW v, NEW p \in 0..q
    PROVE  /\ SubSeq(Append(SubSeq(s, 1, q), v), p + 1, q + 1)
                  = Append(SubSeq(s, p + 1, q), v)
           /\ IsSeq(Append(SubSeq(s, 1, q), v))
           /\ Len(Append(SubSeq(s, 1, q), v)) = q + 1
<1>1. PICK R : s \in Seq(R)
  BY DEF IsSeq
<1> DEFINE S == R \union {v}
           t == Append(SubSeq(s, 1, q), v)
<1>2. s \in Seq(S) /\ v \in S
  BY <1>1, SeqMonotonic
<1> HIDE DEF S
<1>3. SubSeq(s, 1, q) \in Seq(S) /\ Len(SubSeq(s, 1, q)) = q
  BY <1>2
<1>4. t \in Seq(S) /\ Len(t) = q + 1 /\ t[q + 1] = v
  BY <1>2, <1>3, AppendProperties
<1>5. SubSeq(t, p + 1, q) = SubSeq(s, p + 1, q)
  BY PartKept
<1>6. SubSeq(s, p + 1, q) \in Seq(S)
  <2>1. \A i \in (p + 1)..q : s[i] \in S
    BY <1>2
  <2>2. QED
    BY <2>1, SubSeqProperties
<1> HIDE DEF t
<1>7. SubSeq(t, p + 1, q + 1) = SubSeq(t, p + 1, q) \o <<t[q + 1]>>
  <2>1. p + 1 \in 1..Len(t) /\ q + 1 \in (p + 1)..Len(t) /\ (q + 1) - 1 = q
    BY <1>4
  <2>2. QED
    BY <1>4, <2>1, SubSeqRecursiveSecond
<1>8. Append(SubSeq(s, p + 1, q), v) = SubSeq(s, p + 1, q) \o <<v>>
  BY <1>2, <1>6, AppendIsConcat
<1>9. QED
  BY <1>4, <1>5, <1>7, <1>8 DEF t, IsSeq

\* Two elements are one and one.
LEMMA TwoCells ==
    ASSUME NEW a \in Nat, NEW b \in Nat, NEW s \in Seq(Nat)
    PROVE  <<a, b>> \o s = <<a>> \o (<<b>> \o s) /\ <<a, b>> = <<a>> \o <<b>>
<1>1. <<a>> \in Seq(Nat) /\ <<b>> \in Seq(Nat)
  OBVIOUS
<1>2. <<a, b>> = <<a>> \o <<b>>
  <2>1. /\ <<a>> \o <<b>> \in Seq(Nat) /\ Len(<<a>> \o <<b>>) = 2
        /\ \A i \in 1..2 : (<<a>> \o <<b>>)[i] = IF i <= 1 THEN <<a>>[i] ELSE <<b>>[i - 1]
    BY <1>1, ConcatProperties
  <2>2. (<<a>> \o <<b>>)[1] = a /\ (<<a>> \o <<b>>)[2] = b
    BY <2>1
  <2>3. <<a, b>> \in Seq(Nat) /\ Len(<<a, b>>) = 2 /\ <<a, b>>[1] = a /\ <<a, b>>[2] = b
    OBVIOUS
  <2>4. \A i \in 1..2 : (<<a>> \o <<b>>)[i] = <<a, b>>[i]
    BY <2>2, <2>3
  <2>5. QED
    BY <2>1, <2>3, <2>4, SeqEqual
<1>3. (<<a>> \o <<b>>) \o s = <<a>> \o (<<b>> \o s)
  BY <1>1, NatAssoc, Zenon
<1>4. QED
  BY <1>2, <1>3, Zenon

\* The cells of a value begin with those that are read of it.
LEMMA CellsRead ==
    ASSUME NEW s \in Seq(Nat), NEW o \in Nat, NEW e \in (o + 1)..Len(s)
    PROVE  /\ <<s[o + 1]>> \o SubSeq(s, o + 2, e) = SubSeq(s, o + 1, e)
           /\ e >= o + 2 =>
                 /\ <<s[o + 1], s[o + 2]>> \o SubSeq(s, o + 3, e) = SubSeq(s, o + 1, e)
                 /\ SubSeq(s, o + 1, o + 2) = <<s[o + 1], s[o + 2]>>
<1>1. <<s[o + 1]>> \o SubSeq(s, o + 2, e) = SubSeq(s, o + 1, e)
  <2>1. o + 1 \in 1..Len(s) /\ e \in (o + 1)..Len(s) /\ (o + 1) + 1 = o + 2
    OBVIOUS
  <2>2. QED
    BY <2>1, SubSeqRecursiveFirst
<1>2. ASSUME e >= o + 2
      PROVE  <<s[o + 1], s[o + 2]>> \o SubSeq(s, o + 3, e) = SubSeq(s, o + 1, e)
  <2>1. o + 2 \in 1..Len(s) /\ e \in (o + 2)..Len(s) /\ (o + 2) + 1 = o + 3
    BY <1>2
  <2>2. <<s[o + 2]>> \o SubSeq(s, o + 3, e) = SubSeq(s, o + 2, e)
    BY <2>1, SubSeqRecursiveFirst
  <2>3. SubSeq(s, o + 3, e) \in Seq(Nat)
    <3>1. \A i \in (o + 3)..e : s[i] \in Nat
      OBVIOUS
    <3>2. QED
      BY <3>1, SubSeqProperties
  <2>4. s[o + 1] \in Nat /\ s[o + 2] \in Nat
    BY <2>1
  <2>5. <<s[o + 1], s[o + 2]>> \o SubSeq(s, o + 3, e)
            = <<s[o + 1]>> \o (<<s[o + 2]>> \o SubSeq(s, o + 3, e))
    BY <2>3, <2>4, TwoCells
  <2>6. QED
    BY <1>1, <2>2, <2>5
<1>3. ASSUME e >= o + 2
      PROVE  SubSeq(s, o + 1, o + 2) = <<s[o + 1], s[o + 2]>>
  <2>1. o + 1 \in 1..Len(s) /\ o + 2 \in (o + 1)..Len(s) /\ (o + 1) + 1 = o + 2
        /\ o + 2 \in 1..Len(s) /\ o + 2 \in (o + 2)..Len(s) /\ o + 3 > o + 2
        /\ (o + 2) + 1 = o + 3
    BY <1>3
  <2>2. SubSeq(s, o + 1, o + 2) = <<s[o + 1]>> \o SubSeq(s, o + 2, o + 2)
    BY <2>1, SubSeqRecursiveFirst
  <2>3. SubSeq(s, o + 2, o + 2) = <<s[o + 2]>> \o SubSeq(s, o + 3, o + 2)
    BY <2>1, SubSeqRecursiveFirst
  <2>4. SubSeq(s, o + 3, o + 2) = <<>>
    BY <2>1, SubSeqEmpty
  <2>5. s[o + 1] \in Nat /\ s[o + 2] \in Nat
    BY <2>1
  <2>6. <<s[o + 2]>> \o <<>> = <<s[o + 2]>>
    OBVIOUS
  <2>7. <<s[o + 1], s[o + 2]>> = <<s[o + 1]>> \o <<s[o + 2]>>
    BY <2>5, TwoCells, EmptySeq
  <2>8. QED
    BY <2>2, <2>3, <2>4, <2>6, <2>7
<1>4. QED
  BY <1>1, <1>2, <1>3

=============================================================================

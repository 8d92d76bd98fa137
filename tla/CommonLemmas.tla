---------------------------- MODULE CommonLemmas ----------------------------
(***************************************************************************)
(* What the proofs about several components rest on: least and greatest    *)
(* elements, which stand in for inductions, the remainder and the quotient *)
(* of a division, concatenation and flattened sequences.                   *)
(***************************************************************************)
EXTENDS Integers, SequencesExt, TLAPS, FiniteSetTheorems, SequenceTheorems, WellFoundedInduction

\* Concatenation, for proofs that need no more of it than these facts.
Then(s, t) == s \o t

\* The same said of Then: nothing is left to be found out about \o.
LEMMA ThenAssociates == \A S : \A s, t, u \in Seq(S) : Then(Then(s, t), u) = Then(s, Then(t, u))
<1>1. \A S : \A s, t, u \in Seq(S) : (s \o t) \o u = s \o (t \o u)
  BY ConcatAssociative, Zenon
<1> QED
  BY <1>1, Zenon DEF Then

LEMMA ThenIs ==
  ASSUME NEW S
  PROVE  /\ \A s, t \in Seq(S) : Then(s, t) \in Seq(S)
         /\ \A s, t, u \in Seq(S) : Then(Then(s, t), u) = Then(s, Then(t, u))
         /\ \A s \in Seq(S) : Then(<<>>, s) = s
         /\ <<>> \in Seq(S)
<1>1. ASSUME NEW s \in Seq(S), NEW t \in Seq(S) PROVE Then(s, t) \in Seq(S)
  BY ConcatProperties DEF Then
<1>2. \A s, t, u \in Seq(S) : Then(Then(s, t), u) = Then(s, Then(t, u))
  BY ThenAssociates
<1>3. ASSUME NEW s \in Seq(S) PROVE Then(<<>>, s) = s
  BY ConcatEmptySeq DEF Then
<1> QED
  BY <1>1, <1>2, <1>3

\* A set of natural numbers that is not empty has a least element.
LEMMA Least ==
  ASSUME NEW T, T \subseteq Nat, T # {}
  PROVE  \E n \in T : \A m \in T : n <= m
<1> DEFINE R == {ss \in Nat \X Nat : ss[1] < ss[2]}
<1>1. OpToRel(<, Nat) = R
  BY Zenon DEF OpToRel
<1>2. IsWellFoundedOn(R, Nat)
  BY <1>1, NatLessThanWellFounded, Zenon
<1>3. PICK n \in T : \A m \in T : ~ (<<m, n>> \in R)
  <2> HIDE DEF R
  <2>1. QED
    BY <1>2, WFMin, Zenon
<1>4. ASSUME NEW m \in T PROVE n <= m
  <2>1. m \in Nat /\ n \in Nat /\ <<m, n>> \in Nat \X Nat
    OBVIOUS
  <2>2. ~ (<<m, n>>[1] < <<m, n>>[2])
    BY <1>3, <2>1
  <2>3. QED
    BY <2>1, <2>2
<1>5. QED
  BY <1>4

\* What holds of 0, and of a number's successor if of it, holds of all numbers.
LEMMA Induction ==
  ASSUME NEW S, 0 \in S, \A n \in Nat : n \in S => n + 1 \in S
  PROVE  \A n \in Nat : n \in S
<1> DEFINE T == Nat \ S
<1>1. SUFFICES ASSUME T # {} PROVE FALSE
  OBVIOUS
<1>2. PICK m \in T : \A k \in T : m <= k
  <2>1. T \subseteq Nat
    OBVIOUS
  <2> HIDE DEF T
  <2> QED
    BY <1>1, <2>1, Least
<1>3. m - 1 \in Nat /\ ~ (m <= m - 1) /\ m - 1 + 1 = m
  BY <1>2
<1>4. m - 1 \in S
  BY <1>2, <1>3
<1> QED
  BY <1>2, <1>3, <1>4

\* A function can be defined step by step.
LEMMA Recursion ==
  ASSUME NEW X, NEW base \in X, NEW N \in Nat, NEW step \in [1 .. N -> [X -> X]]
  PROVE  \E g \in [0 .. N -> X] : g[0] = base /\ \A i \in 1 .. N : g[i] = step[i][g[i - 1]]
<1> DEFINE Good(k) == \E g \in [0 .. k -> X] :
                        g[0] = base /\ \A i \in 1 .. k : g[i] = step[i][g[i - 1]]
           S == {k \in Nat : k <= N => Good(k)}
<1>1. Good(0)
  <2> DEFINE g == [i \in 0 .. 0 |-> base]
  <2>1. g \in [0 .. 0 -> X] /\ g[0] = base
    OBVIOUS
  <2>2. \A i \in 1 .. 0 : FALSE
    OBVIOUS
  <2> HIDE DEF g
  <2> QED
    BY <2>1, <2>2
<1>2. ASSUME NEW k \in Nat, k + 1 <= N, Good(k) PROVE Good(k + 1)
  <2>1. PICK g \in [0 .. k -> X] : g[0] = base /\ \A i \in 1 .. k : g[i] = step[i][g[i - 1]]
    BY <1>2
  <2> DEFINE h == [i \in 0 .. k + 1 |-> IF i = k + 1 THEN step[k + 1][g[k]] ELSE g[i]]
  <2>2. step[k + 1][g[k]] \in X
    <3>1. k + 1 \in 1 .. N /\ k \in 0 .. k
      BY <1>2
    <3> QED
      BY <2>1, <3>1
  <2>3. ASSUME NEW i \in 0 .. k + 1, i # k + 1 PROVE i \in 0 .. k /\ h[i] = g[i]
    BY <1>2, <2>3
  <2>4. h \in [0 .. k + 1 -> X]
    BY <2>1, <2>2, <2>3
  <2>5. h[0] = base
    <3>1. 0 \in 0 .. k + 1 /\ 0 # k + 1
      BY <1>2
    <3> QED
      BY <2>1, <2>3, <3>1
  <2>6. ASSUME NEW i \in 1 .. k + 1 PROVE h[i] = step[i][h[i - 1]]
    <3>1. /\ i - 1 \in 0 .. k + 1 /\ i - 1 # k + 1 /\ i \in 0 .. k + 1
          /\ i # k + 1 => i \in 1 .. k
          /\ i = k + 1 => i - 1 = k
      BY <1>2
    <3>2. h[i - 1] = g[i - 1]
      BY <2>3, <3>1
    <3>3. CASE i = k + 1
      BY <3>1, <3>2, <3>3
    <3>4. CASE i # k + 1
      BY <2>1, <2>3, <3>1, <3>2, <3>4
    <3> QED
      BY <3>3, <3>4
  <2> HIDE DEF h
  <2> QED
    BY <2>4, <2>5, <2>6
<1> HIDE DEF Good
<1>3. 0 \in S
  BY <1>1
<1>4. ASSUME NEW n \in Nat, n \in S PROVE n + 1 \in S
  BY <1>2, <1>4
<1> HIDE DEF S
<1>5. N \in S
  BY <1>3, <1>4, Induction
<1> QED
  BY <1>5 DEF S, Good

\* A finite set of integers that is not empty has a greatest element.
LEMMA Greatest ==
  ASSUME NEW S, S \subseteq Int, IsFiniteSet(S), S # {}
  PROVE  \E x \in S : \A y \in S : y <= x
<1> DEFINE above(x) == {y \in S : x < y}
           counts == {Cardinality(above(x)) : x \in S}
<1>1. \A x \in S : IsFiniteSet(above(x)) /\ Cardinality(above(x)) \in Nat
  BY FS_Subset, FS_CardinalityType
<1>2. counts \subseteq Nat /\ counts # {}
  BY <1>1
<1>3. PICK n \in counts : \A m \in counts : n <= m
  <2> HIDE DEF counts
  <2>1. QED
    BY <1>2, Least
<1>4. PICK x \in S : n = Cardinality(above(x))
  OBVIOUS
<1>5. ASSUME NEW y \in S, x < y PROVE FALSE
  <2>1. \A z \in Int : x \in Int /\ y \in Int /\ (y < z => x < z) /\ ~ (y < y)
    BY <1>5
  <2>2. above(y) \in SUBSET above(x) /\ y \in above(x) /\ y \notin above(y)
    BY <1>5, <2>1, Zenon
  <2>3. Cardinality(above(y)) < Cardinality(above(x))
    <3> DEFINE low == above(y)
               high == above(x)
    <3>1. IsFiniteSet(low) /\ IsFiniteSet(high) /\ Cardinality(low) \in Nat /\ Cardinality(high) \in Nat
      BY <1>1
    <3> HIDE DEF low, high
    <3>2. low \in SUBSET high /\ low # high
      BY <2>2 DEF low, high
    <3>3. Cardinality(low) <= Cardinality(high) /\ Cardinality(low) # Cardinality(high)
      BY <3>1, <3>2, FS_Subset
    <3>4. Cardinality(low) < Cardinality(high)
      BY <3>1, <3>3
    <3>5. QED
      BY <3>4 DEF low, high
  <2>4. Cardinality(above(x)) <= Cardinality(above(y))
    BY <1>3, <1>4
  <2>5. Cardinality(above(y)) \in Nat /\ Cardinality(above(x)) \in Nat
    BY <1>1
  <2> HIDE DEF above
  <2>6. QED
    BY <2>3, <2>4, <2>5
<1>6. QED
  <2>1. ASSUME NEW y \in S PROVE y <= x
    <3>1. y \in Int /\ x \in Int /\ ~ (x < y)
      BY <1>5
    <3>2. QED
      BY <3>1
  <2>2. QED
    BY <2>1

-----------------------------------------------------------------------------
(* Remainders and quotients                                                *)

\* The remainder is the only number below the divisor that differs from n by a
\* multiple of it.
LEMMA RemainderUnique ==
  ASSUME NEW T \in Nat \ {0}, NEW q \in Int, NEW r \in 0 .. T - 1
  PROVE  (T * q + r) % T = r
<1> DEFINE n == T * q + r
           p == n \div T
           s == n % T
<1>1. n = T * p + s /\ s \in 0 .. T - 1 /\ p \in Int /\ n \in Int
  OBVIOUS
<1> HIDE DEF p, s
<1>2. T * (q - p) = s - r
  BY <1>1
<1>3. CASE q = p
  BY <1>1, <1>3
<1>4. CASE q >= p + 1
  <2>1. T * (q - p) >= T
    BY <1>1, <1>4
  <2>2. QED
    BY <1>1, <1>2, <2>1
<1>5. CASE q <= p - 1
  <2>1. T * (q - p) <= - T
    BY <1>1, <1>5
  <2>2. QED
    BY <1>1, <1>2, <2>1
<1>6. QED
  BY <1>1, <1>3, <1>4, <1>5 DEF s

\* Adding to a number moves its remainder by as much until the divisor is
\* reached, where it starts again.
LEMMA RemainderOfSum ==
  ASSUME NEW T \in Nat \ {0}, NEW n \in Nat, NEW i \in Nat
  PROVE  /\ n % T \in 0 .. T - 1
         /\ (n % T) + i < T => (n + i) % T = (n % T) + i
         /\ (n % T) + i = T => (n + i) % T = 0
<1> DEFINE q == n \div T
           r == n % T
<1>1. n = T * q + r /\ r \in 0 .. T - 1 /\ q \in Int
  OBVIOUS
<1> HIDE DEF q, r
<1>2. ASSUME r + i < T PROVE (n + i) % T = r + i
  <2>1. n + i = T * q + (r + i) /\ r + i \in 0 .. T - 1
    BY <1>1, <1>2
  <2>2. QED
    BY <1>1, <2>1, RemainderUnique
<1>3. ASSUME r + i = T PROVE (n + i) % T = 0
  <2>1. n + i = T * (q + 1) + 0 /\ q + 1 \in Int /\ 0 \in 0 .. T - 1
    BY <1>1, <1>3
  <2>2. QED
    BY <2>1, RemainderUnique
<1>4. QED
  BY <1>1, <1>2, <1>3 DEF r

\* A quotient reaches m where its dividend reaches m times the divisor.
LEMMA QuotientAtLeast ==
  ASSUME NEW T \in Nat \ {0}, NEW x \in Nat, NEW m \in Int
  PROVE  /\ x \div T >= m <=> x >= T * m
         /\ x \div T \in Nat /\ x % T \in 0 .. T - 1
         /\ x = T * (x \div T) + (x % T)
<1> DEFINE q == x \div T
           r == x % T
<1>1. x = T * q + r /\ r \in 0 .. T - 1 /\ q \in Int
  OBVIOUS
<1> HIDE DEF q, r
<1>2. ASSUME q >= m PROVE x >= T * m
  <2>1. T * q >= T * m
    BY <1>1, <1>2
  <2>2. QED
    BY <1>1, <2>1
<1>3. ASSUME q <= m - 1 PROVE x < T * m
  <2>1. T * q <= T * m - T
    BY <1>1, <1>3
  <2>2. QED
    BY <1>1, <2>1
<1>4. q >= 0
  <2>1. ASSUME q <= -1 PROVE FALSE
    <3>1. T * q <= - T
      BY <1>1, <2>1
    <3>2. QED
      BY <1>1, <3>1
  <2>2. QED
    BY <1>1, <2>1
<1>5. q >= m <=> x >= T * m
  BY <1>1, <1>2, <1>3
<1>6. q \in Nat /\ r \in 0 .. T - 1 /\ x = T * q + r
  BY <1>1, <1>4
<1>7. QED
  BY <1>5, <1>6, Zenon DEF q, r

\* A number is its quotient times the divisor and a remainder.
LEMMA Division ==
  ASSUME NEW T \in Nat \ {0}, NEW x \in Nat
  PROVE  /\ x \div T \in Nat /\ x >= T * (x \div T)
         /\ \E r \in 0 .. T - 1 : x = T * (x \div T) + r
<1> DEFINE q == x \div T
           r == x % T
<1>1. /\ q \in Nat /\ r \in 0 .. T - 1 /\ x = T * q + r
  BY QuotientAtLeast, 0 \in Int, Zenon
<1> HIDE DEF q, r
<1>2. x >= T * q
  BY <1>1
<1>3. QED
  BY <1>1, <1>2 DEF q

\* A number between two multiples of the divisor has the quotient of the lower.
LEMMA QuotientIs ==
  ASSUME NEW T \in Nat \ {0}, NEW m \in Nat, NEW r \in 0 .. T - 1
  PROVE  (T * m + r) \div T = m
<1>1. PICK x \in Nat : x = T * m + r
  OBVIOUS
<1>2. x >= T * m /\ ~ (x >= T * (m + 1)) /\ m + 1 \in Int /\ m \in Int
  BY <1>1
<1>3. x \div T >= m /\ ~ (x \div T >= m + 1) /\ x \div T \in Nat
  BY <1>2, QuotientAtLeast
<1>4. QED
  BY <1>1, <1>3

-----------------------------------------------------------------------------
(* Sequences of sequences                                                  *)

\* A sequence is a prefix of another that begins with its elements.
LEMMA PrefixByElements ==
  ASSUME NEW S, NEW s \in Seq(S), NEW t \in Seq(S),
         Len(s) <= Len(t), \A i \in 1 .. Len(s) : t[i] = s[i]
  PROVE  IsPrefix(s, t)
<1>1. PICK n \in Nat, k \in Nat : n = Len(s) /\ k = Len(t) /\ n <= k
  BY LenProperties
<1>2. \A i \in 1 .. n : s[i] \in S
  BY <1>1, ElementOfSeq
<1>3. \A i \in 1 .. n : t[i] \in S /\ t[i] = s[i]
  BY <1>1, <1>2
<1>4. /\ SubSeq(t, 1, n) \in Seq(S) /\ Len(SubSeq(t, 1, n)) = n
      /\ \A i \in 1 .. n : SubSeq(t, 1, n)[i] = t[i]
  <2>1. 1 \in Int /\ n \in Int /\ n - 1 + 1 = n
    OBVIOUS
  <2>2. /\ SubSeq(t, 1, n) \in Seq(S)
        /\ Len(SubSeq(t, 1, n)) = IF 1 <= n THEN n - 1 + 1 ELSE 0
        /\ \A i \in 1 .. n - 1 + 1 : SubSeq(t, 1, n)[i] = t[1 + i - 1]
    BY <1>3, <2>1, SubSeqProperties
  <2>3. \A i \in 1 .. n : 1 + i - 1 = i
    OBVIOUS
  <2> QED
    BY <2>1, <2>2, <2>3
<1>5. SubSeq(t, 1, n) = s
  BY <1>1, <1>3, <1>4, SeqEqual
<1>6. SubSeq(s, 1, n) = s
  BY <1>1, SubSeqFull
<1> QED
  BY <1>1, <1>5, <1>6 DEF IsPrefix

\* What FlattenSeq puts together, sequence by sequence.
Partial(seqs, g) ==
  /\ DOMAIN g = 0 .. Len(seqs) /\ g[0] = <<>>
  /\ \A i \in 1 .. Len(seqs) : g[i] = g[i - 1] \o seqs[i]

\* The step of the definition of FlattenSeq.
IsFlatten(seqs, f) ==
  f = [i \in 1 .. Len(seqs) |-> IF i = 1 THEN seqs[i] ELSE f[i - 1] \o seqs[i]]

LEMMA Flattening ==
  ASSUME NEW S, NEW seqs \in Seq(Seq(S)), NEW g, Partial(seqs, g)
  PROVE  FlattenSeq(seqs) = g[Len(seqs)]
<1> DEFINE n == Len(seqs)
<1>1. n \in Nat /\ \A i \in 1 .. n : seqs[i] \in Seq(S)
  BY LenProperties, ElementOfSeq
<1>2. g[0] = <<>> /\ \A i \in 1 .. n : g[i] = g[i - 1] \o seqs[i]
  BY DEF Partial
<1>3. CASE n = 0
  <2>1. FlattenSeq(seqs) = seqs /\ seqs = <<>>
    BY <1>3, EmptySeq DEF FlattenSeq
  <2> QED
    BY <1>2, <1>3, <2>1
<1>4. CASE n # 0
  <2>1. 1 \in 1 .. n /\ n \in 1 .. n
    BY <1>1, <1>4
  <2>2. g[1] = seqs[1]
    <3>1. g[1] = g[1 - 1] \o seqs[1] /\ seqs[1] \in Seq(S)
      BY <1>1, <1>2, <2>1
    <3>2. <<>> \o seqs[1] = seqs[1]
      BY <3>1, ConcatEmptySeq
    <3>3. 1 - 1 = 0
      OBVIOUS
    <3> QED
      BY <1>2, <3>1, <3>2, <3>3
  <2> DEFINE f == CHOOSE f : IsFlatten(seqs, f)
             h == [i \in 1 .. n |-> g[i]]
  <2>3. FlattenSeq(seqs) = f[n]
    BY <1>4 DEF FlattenSeq, IsFlatten
  <2>4. IsFlatten(seqs, h)
    <3>1. ASSUME NEW i \in 1 .. n
          PROVE  h[i] = IF i = 1 THEN seqs[i] ELSE h[i - 1] \o seqs[i]
      <4>1. CASE i = 1
        BY <2>2, <4>1
      <4>2. CASE i # 1
        <5>1. g[i] = g[i - 1] \o seqs[i]
          BY <1>2
        <5>2. i - 1 \in 1 .. n
          <6> HIDE DEF n
          <6> QED
            BY <1>1, <4>2
        <5> QED
          BY <4>2, <5>1, <5>2
      <4> QED
        BY <4>1, <4>2
    <3> QED
      BY <3>1 DEF IsFlatten
  <2>5. IsFlatten(seqs, f)
    BY <2>4
  <2> HIDE DEF f, h
  <2>6. \A i \in 1 .. n : f[i] = IF i = 1 THEN seqs[i] ELSE f[i - 1] \o seqs[i]
    BY <2>5 DEF IsFlatten
  <2> DEFINE T == {i \in 1 .. n : f[i] # g[i]}
  <2>7. ASSUME T # {} PROVE FALSE
    <3>1. T \subseteq Nat
      BY <1>1
    <3>2. \E k \in T : \A j \in T : k <= j
      <4> HIDE DEF T
      <4> QED
        BY <2>7, <3>1, Least
    <3>3. PICK m \in T : \A k \in T : m <= k
      BY <3>2
    <3>4. m \in 1 .. n /\ f[m] # g[m] /\ g[m] = g[m - 1] \o seqs[m]
      BY <1>2
    <3>5. CASE m = 1
      <4>1. f[1] = seqs[1]
        BY <2>1, <2>6
      <4> QED
        BY <2>2, <3>4, <3>5, <4>1
    <3>6. CASE m # 1
      <4>1. m - 1 \in 1 .. n /\ ~ (m <= m - 1)
        BY <1>1, <3>4, <3>6
      <4>2. f[m - 1] = g[m - 1]
        BY <3>3, <4>1
      <4> QED
        BY <2>6, <3>4, <3>6, <4>2
    <3> QED
      BY <3>5, <3>6
  <2> QED
    BY <2>1, <2>3, <2>7
<1> QED
  BY <1>3, <1>4

\* There are such partial results.
LEMMA PartialsExist ==
  ASSUME NEW S, NEW seqs \in Seq(Seq(S))
  PROVE  \E g \in [0 .. Len(seqs) -> Seq(S)] : Partial(seqs, g)
<1> DEFINE n == Len(seqs)
           Good(k) == \E g \in [0 .. k -> Seq(S)] :
                        g[0] = <<>> /\ \A i \in 1 .. k : g[i] = g[i - 1] \o seqs[i]
           T == {k \in 0 .. n : ~ Good(k)}
<1>1. n \in Nat /\ \A i \in 1 .. n : seqs[i] \in Seq(S)
  BY LenProperties, ElementOfSeq
<1>2. Good(0)
  <2> DEFINE g == [i \in 0 .. 0 |-> <<>>]
  <2>1. g \in [0 .. 0 -> Seq(S)] /\ g[0] = <<>>
    OBVIOUS
  <2>2. \A i \in 1 .. 0 : FALSE
    OBVIOUS
  <2> HIDE DEF g
  <2>3. \A i \in 1 .. 0 : g[i] = g[i - 1] \o seqs[i]
    BY <2>2
  <2> QED
    BY <2>1, <2>3
<1>3. ASSUME NEW k \in 0 .. n, k # n, Good(k) PROVE Good(k + 1)
  <2>1. PICK g \in [0 .. k -> Seq(S)] : g[0] = <<>> /\ \A i \in 1 .. k : g[i] = g[i - 1] \o seqs[i]
    BY <1>3
  <2>2. k \in Nat /\ k + 1 \in 1 .. n /\ k \in 0 .. k
    BY <1>1, <1>3
  <2> DEFINE h == [i \in 0 .. k + 1 |-> IF i = k + 1 THEN g[k] \o seqs[k + 1] ELSE g[i]]
  <2>3. g[k] \o seqs[k + 1] \in Seq(S)
    BY <1>1, <2>1, <2>2, ConcatProperties
  <2>4. ASSUME NEW i \in 0 .. k + 1, i # k + 1 PROVE i \in 0 .. k /\ h[i] = g[i]
    BY <2>2, <2>4
  <2>5. h \in [0 .. k + 1 -> Seq(S)]
    BY <2>1, <2>3, <2>4
  <2>6. h[0] = <<>>
    <3>1. 0 \in 0 .. k + 1 /\ 0 # k + 1
      BY <2>2
    <3> QED
      BY <2>1, <2>4, <3>1
  <2>7. ASSUME NEW i \in 1 .. k + 1 PROVE h[i] = h[i - 1] \o seqs[i]
    <3>1. /\ i - 1 \in 0 .. k + 1 /\ i - 1 # k + 1 /\ i \in 0 .. k + 1 /\ k + 1 - 1 = k
          /\ i # k + 1 => i \in 1 .. k
      BY <2>2
    <3>2. h[i - 1] = g[i - 1]
      BY <2>4, <3>1
    <3>3. CASE i = k + 1
      <4>1. h[i] = g[k] \o seqs[k + 1]
        BY <3>1, <3>3
      <4>2. h[i - 1] = g[k]
        BY <3>1, <3>2, <3>3
      <4> QED
        BY <3>3, <4>1, <4>2, Zenon
    <3>4. CASE i # k + 1
      <4>1. h[i] = g[i]
        BY <2>4, <3>1, <3>4
      <4> QED
        BY <2>1, <3>1, <3>2, <3>4, <4>1
    <3> QED
      BY <3>3, <3>4
  <2> HIDE DEF h
  <2> QED
    BY <2>5, <2>6, <2>7
<1> HIDE DEF Good
<1>4. T = {}
  <2> SUFFICES ASSUME T # {} PROVE FALSE
    OBVIOUS
  <2>1. PICK m \in T : \A k \in T : m <= k
    <3>1. T \subseteq Nat
      BY <1>1
    <3> HIDE DEF T
    <3> QED
      BY <3>1, Least
  <2>2. m # 0
    BY <1>2
  <2>3. m - 1 \in 0 .. n /\ m - 1 # n /\ ~ (m <= m - 1) /\ m - 1 + 1 = m
    BY <1>1, <2>2
  <2>4. Good(m - 1)
    BY <2>1, <2>3
  <2>5. Good(m)
    BY <1>3, <2>3, <2>4
  <2> QED
    BY <2>5
<1>5. Good(n)
  BY <1>1, <1>4
<1>6. PICK g \in [0 .. n -> Seq(S)] : g[0] = <<>> /\ \A i \in 1 .. n : g[i] = g[i - 1] \o seqs[i]
  BY <1>5 DEF Good
<1> QED
  BY <1>6 DEF Partial

\* One sequence more at the end.
LEMMA FlattenAppended ==
  ASSUME NEW S, NEW seqs \in Seq(Seq(S)), NEW x \in Seq(S)
  PROVE  /\ FlattenSeq(seqs) \in Seq(S)
         /\ FlattenSeq(Append(seqs, x)) = FlattenSeq(seqs) \o x
<1> DEFINE n == Len(seqs)   more == Append(seqs, x)
<1>1. PICK g \in [0 .. n -> Seq(S)] : Partial(seqs, g)
  BY PartialsExist
<1>2. PICK h \in [0 .. Len(more) -> Seq(S)] : Partial(more, h)
  BY PartialsExist, AppendProperties
<1>3. /\ n \in Nat /\ more \in Seq(Seq(S)) /\ Len(more) = n + 1 /\ more[n + 1] = x
      /\ \A i \in 1 .. n : more[i] = seqs[i]
  BY LenProperties, AppendProperties
<1>4. FlattenSeq(seqs) = g[n] /\ FlattenSeq(more) = h[n + 1]
  BY <1>1, <1>2, <1>3, Flattening
<1> HIDE DEF n, more
<1> DEFINE T == {i \in 0 .. n : h[i] # g[i]}
<1>5. T = {}
  <2> SUFFICES ASSUME T # {} PROVE FALSE
    OBVIOUS
  <2>1. PICK m \in T : \A k \in T : m <= k
    <3>1. T \subseteq Nat
      BY <1>3
    <3> HIDE DEF T
    <3> QED
      BY <3>1, Least
  <2>2. m # 0
    BY <1>1, <1>2 DEF Partial
  <2>3. /\ m \in 1 .. n /\ m \in 1 .. n + 1 /\ m - 1 \in 0 .. n /\ ~ (m <= m - 1)
    BY <1>3, <2>2
  <2>4. h[m - 1] = g[m - 1]
    BY <2>1, <2>3
  <2>5. h[m] = h[m - 1] \o seqs[m] /\ g[m] = g[m - 1] \o seqs[m]
    BY <1>1, <1>2, <1>3, <2>3 DEF Partial, n
  <2> QED
    BY <2>4, <2>5
<1>6. h[n] = g[n] /\ g[n] \in Seq(S)
  <2>1. n \in 0 .. n
    BY <1>3
  <2>2. h[n] = g[n]
    BY <1>5, <2>1
  <2> HIDE DEF T
  <2> QED
    BY <1>1, <2>1, <2>2 DEF n
<1>7. h[n + 1] = h[n] \o x
  <2>1. n + 1 \in 1 .. n + 1 /\ n + 1 - 1 = n
    BY <1>3
  <2>2. \A i \in 1 .. n + 1 : h[i] = h[i - 1] \o more[i]
    BY <1>2, <1>3 DEF Partial
  <2>3. PICK i \in 1 .. n + 1 : i = n + 1 /\ i - 1 = n
    BY <1>3, <2>1
  <2>4. h[i] = h[i - 1] \o more[i]
    BY <2>2
  <2>5. h[i] = h[n] \o more[i]
    BY <2>3, <2>4, Zenon
  <2>6. more[i] = x
    BY <1>3, <2>3
  <2> QED
    BY <2>3, <2>5, <2>6, Zenon
<1> QED
  BY <1>4, <1>6, <1>7 DEF more, n

\* The first sequence, and the others.
LEMMA FlattenTaken ==
  ASSUME NEW S, NEW seqs \in Seq(Seq(S)), seqs # <<>>
  PROVE  FlattenSeq(seqs) = Head(seqs) \o FlattenSeq(Tail(seqs))
<1> DEFINE n == Len(seqs)   rest == Tail(seqs)   first == Head(seqs)
<1>1. PICK g \in [0 .. n -> Seq(S)] : Partial(seqs, g)
  BY PartialsExist
<1>2. /\ n \in Nat \ {0} /\ rest \in Seq(Seq(S)) /\ Len(rest) = n - 1 /\ first = seqs[1]
      /\ first \in Seq(S) /\ \A i \in 1 .. n - 1 : rest[i] = seqs[i + 1] /\ rest[i] \in Seq(S)
  BY LenProperties, HeadTailProperties, ElementOfSeq, EmptySeq
<1>3. PICK h \in [0 .. Len(rest) -> Seq(S)] : Partial(rest, h)
  BY <1>2, PartialsExist
<1>4. FlattenSeq(seqs) = g[n] /\ FlattenSeq(rest) = h[n - 1]
  BY <1>1, <1>2, <1>3, Flattening
<1> HIDE DEF n, rest, first
<1> DEFINE T == {i \in 0 .. n - 1 : g[i + 1] # first \o h[i]}
<1>5. T = {}
  <2> SUFFICES ASSUME T # {} PROVE FALSE
    OBVIOUS
  <2>1. PICK m \in T : \A k \in T : m <= k
    <3>1. T \subseteq Nat
      BY <1>2
    <3> HIDE DEF T
    <3> QED
      BY <3>1, Least
  <2>2. m \in 0 .. n - 1 /\ g[m + 1] # first \o h[m]
    OBVIOUS
  <2>3. m + 1 \in 1 .. n /\ m + 1 - 1 = m
    BY <1>2, <2>2
  <2>4. g[m + 1] = g[m] \o seqs[m + 1]
    <3>1. \A i \in 1 .. n : g[i] = g[i - 1] \o seqs[i]
      BY <1>1 DEF Partial, n
    <3> HIDE DEF T
    <3>2. PICK i \in 1 .. n : i = m + 1 /\ i - 1 = m
      BY <1>2, <2>2, <2>3
    <3>3. g[i] = g[i - 1] \o seqs[i]
      BY <3>1
    <3>4. g[i] = g[m] \o seqs[i]
      BY <3>2, <3>3, Zenon
    <3> QED
      BY <3>2, <3>4, Zenon
  <2>5. CASE m = 0
    <3>1. g[m] = <<>> /\ h[m] = <<>>
      BY <1>1, <1>3, <2>5 DEF Partial
    <3>2. g[m + 1] = first /\ first \o h[m] = first
      BY <1>2, <2>4, <2>5, <3>1, ConcatEmptySeq
    <3> QED
      BY <2>2, <3>2
  <2>6. CASE m # 0
    <3>1. /\ m - 1 \in 0 .. n - 1 /\ ~ (m <= m - 1) /\ m \in 1 .. n - 1 /\ m - 1 + 1 = m
      BY <1>2, <2>2, <2>6
    <3>2. g[m] = first \o h[m - 1]
      BY <2>1, <3>1
    <3>3. h[m] = h[m - 1] \o seqs[m + 1]
      BY <1>2, <1>3, <3>1 DEF Partial
    <3>4. seqs[m + 1] \in Seq(S) /\ h[m - 1] \in Seq(S)
      BY <1>2, <1>3, <3>1
    <3>5. (first \o h[m - 1]) \o seqs[m + 1] = first \o (h[m - 1] \o seqs[m + 1])
      <4>1. first \in Seq(S)
        BY <1>2
      <4> DEFINE b == h[m - 1]   c == seqs[m + 1]
      <4>2. b \in Seq(S) /\ c \in Seq(S)
        BY <3>4
      <4> HIDE DEF T, b, c
      <4>3. (first \o b) \o c = first \o (b \o c)
        <5>1. Then(Then(first, b), c) = Then(first, Then(b, c))
          BY <4>1, <4>2, ThenIs
        <5> QED
          BY <5>1, Zenon DEF Then
      <4> QED
        BY <4>3 DEF b, c
    <3> QED
      BY <2>2, <2>4, <3>2, <3>3, <3>5
  <2> QED
    BY <2>5, <2>6
<1>6. g[n] = first \o h[n - 1]
  <2>1. n - 1 \in 0 .. n - 1 /\ n - 1 + 1 = n
    BY <1>2
  <2> QED
    BY <1>5, <2>1
<1> QED
  BY <1>4, <1>6 DEF first, rest
=============================================================================

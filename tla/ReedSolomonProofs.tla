-------------------------- MODULE ReedSolomonProofs --------------------------
(***************************************************************************)
(* Proofs about the codec and its cache of inverted matrices, for every    *)
(* shape, every field, every payload and every sequence of decodes: the    *)
(* tables make a field, the elimination finds the inverse of every matrix  *)
(* that has one, any data rows of the coding matrix have one, so any data  *)
(* shards give back the group.                                             *)
(***************************************************************************)
EXTENDS ReedSolomon, CommonLemmas

-----------------------------------------------------------------------------
(* The field                                                               *)

\* The tables are those of a field in which every element is its own negative.
FieldLaws ==
  /\ 0 \in Field /\ 1 \in Field
  /\ \A a, b \in Field : galAdd(a, b) \in Field /\ galMultiply(a, b) \in Field
  /\ \A a, b \in Field : galAdd(a, b) = galAdd(b, a) /\ galMultiply(a, b) = galMultiply(b, a)
  /\ \A a, b, c \in Field : galAdd(galAdd(a, b), c) = galAdd(a, galAdd(b, c))
  /\ \A a, b, c \in Field : galMultiply(galMultiply(a, b), c) = galMultiply(a, galMultiply(b, c))
  /\ \A a, b, c \in Field :
       galMultiply(a, galAdd(b, c)) = galAdd(galMultiply(a, b), galMultiply(a, c))
  /\ \A a \in Field : galAdd(a, 0) = a /\ galAdd(0, a) = a /\ galAdd(a, a) = 0
  /\ \A a \in Field : galMultiply(a, 0) = 0 /\ galMultiply(0, a) = 0
  /\ \A a \in Field : galMultiply(1, a) = a /\ galMultiply(a, 1) = a

\* The powers of 2 are the elements but 0, each once, and logTable is their inverse.
LEMMA Logarithms ==
  /\ Field = 0 .. Order /\ Order \in Nat \ {0}
  /\ \A n \in 0 .. Order - 1 : expTable[n] \in Field \ {0} /\ logTable[expTable[n]] = n
  /\ \A a \in Field \ {0} : logTable[a] \in 0 .. Order - 1 /\ expTable[logTable[a]] = a
<1>1. Order \in Nat \ {0} /\ Field = 0 .. Order
  <2>1. Order \in Nat \ {0}
    <3>1. 2 ^ Width \in Nat /\ Poly \in 1 .. 2 ^ Width - 1
      BY CodecAssumption DEF FieldAssumption, Order
    <3> QED
      BY <3>1 DEF Order
  <2>2. Order = 2 ^ Width - 1
    BY DEF Order
  <2>3. Field = 0 .. 2 ^ Width - 1
    BY DEF Field
  <2> QED
    BY <2>1, <2>2, <2>3, Zenon
<1> DEFINE log(a) == CHOOSE n \in 0 .. Order - 1 : expTable[n] = a
           places == [a \in 1 .. Order |-> log(a)]
<1>2. ASSUME NEW a \in Field \ {0}
      PROVE  log(a) \in 0 .. Order - 1 /\ expTable[log(a)] = a /\ logTable[a] = log(a)
  <2>1. \E n \in 0 .. Order - 1 : expTable[n] = a
    BY CodecAssumption DEF FieldAssumption
  <2>2. logTable[a] = log(a)
    BY <1>2 DEF logTable
  <2> QED
    BY <2>1, <2>2, Zenon
<1>3. Field \ {0} = 1 .. Order
  BY <1>1
<1>4. places \in Injection(1 .. Order, 0 .. Order - 1)
  <2> HIDE DEF log
  <2>1. places \in [1 .. Order -> 0 .. Order - 1]
    BY <1>2, <1>3
  <2>2. ASSUME NEW a \in 1 .. Order, NEW b \in 1 .. Order, places[a] = places[b] PROVE a = b
    BY <1>2, <1>3, <2>2
  <2> HIDE DEF places
  <2> QED
    BY <2>1, <2>2 DEF Injection, IsInjective
<1>5. places \in Surjection(1 .. Order, 0 .. Order - 1)
  <2>1. /\ IsFiniteSet(1 .. Order) /\ Cardinality(1 .. Order) = Order
        /\ IsFiniteSet(0 .. Order - 1) /\ Cardinality(0 .. Order - 1) = Order
    BY <1>1, FS_Interval
  <2> HIDE DEF places
  <2> QED
    BY <1>4, <2>1, FS_Injection
<1>6. ASSUME NEW n \in 0 .. Order - 1
      PROVE  expTable[n] \in Field \ {0} /\ logTable[expTable[n]] = n
  <2>1. PICK a \in 1 .. Order : places[a] = n
    <3> HIDE DEF places
    <3> QED
      BY <1>5 DEF Surjection
  <2>2. log(a) = n /\ a \in Field \ {0}
    BY <1>3, <2>1
  <2> HIDE DEF log
  <2> QED
    BY <1>2, <2>2
<1> HIDE DEF log
<1> QED
  BY <1>1, <1>2, <1>6

\* The first power of 2 is 1.
LEMMA FirstPower == expTable[0] = 1
<1> DEFINE twice(a) == 2 * a
           next(a) == IF twice(a) <= Order THEN twice(a) ELSE galAdd(twice(a) - 2 ^ Width, Poly)
           N == Order - 1
           step == [i \in 1 .. N |-> [a \in Field |-> next(a)]]
           IsExp(f) == f = [n \in 0 .. Order - 1 |-> IF n = 0 THEN 1 ELSE next(f[n - 1])]
<1>1. /\ Order \in Nat \ {0} /\ Field = 0 .. Order /\ N \in Nat /\ 2 ^ Width = Order + 1
      /\ 1 \in Field
  <2>1. Order = 2 ^ Width - 1 /\ 2 ^ Width \in Int
    BY CodecAssumption DEF FieldAssumption, Order
  <2> QED
    BY Logarithms, <2>1
<1>2. ASSUME NEW a \in Field PROVE next(a) \in Field
  <2>1. CASE twice(a) <= Order
    BY <1>1, <2>1
  <2>2. CASE ~ (twice(a) <= Order)
    <3>1. twice(a) - 2 ^ Width \in Field /\ Poly \in Field
      BY <1>1, <2>2, CodecAssumption DEF FieldAssumption
    <3>2. galAdd(twice(a) - 2 ^ Width, Poly) \in Field
      BY <3>1, CodecAssumption DEF FieldAssumption
    <3> QED
      BY <2>2, <3>2
  <2> QED
    BY <2>1, <2>2
<1>3. PICK g \in [0 .. N -> Field] : g[0] = 1 /\ \A i \in 1 .. N : g[i] = step[i][g[i - 1]]
  <2>1. step \in [1 .. N -> [Field -> Field]]
    BY <1>2
  <2>2. N \in Nat /\ 1 \in Field
    BY <1>1
  <2> HIDE DEF step, N, next
  <2> QED
    BY <2>1, <2>2, Recursion
<1>4. IsExp(g)
  <2>1. ASSUME NEW n \in 0 .. Order - 1
        PROVE  g[n] = IF n = 0 THEN 1 ELSE next(g[n - 1])
    <3>1. CASE n = 0
      BY <1>3, <3>1
    <3>2. CASE n # 0
      <4>1. n \in 1 .. N /\ n - 1 \in 0 .. N
        BY <1>1, <3>2
      <4>2. g[n] = step[n][g[n - 1]] /\ g[n - 1] \in Field
        BY <1>3, <4>1
      <4>3. step[n][g[n - 1]] = next(g[n - 1])
        BY <4>1, <4>2
      <4> QED
        BY <3>2, <4>2, <4>3, Zenon
    <3> QED
      BY <3>1, <3>2
  <2> HIDE DEF next
  <2> QED
    BY <1>3, <2>1
<1>5. expTable = CHOOSE f : IsExp(f)
  BY Zenon DEF expTable
<1>6. IsExp(expTable)
  <2> HIDE DEF IsExp
  <2> QED
    BY <1>4, <1>5, Zenon
<1> HIDE DEF next
<1> QED
  BY <1>1, <1>6

\* Multiplication adds logarithms.
LEMMA Products ==
  /\ \A a \in Field : galMultiply(a, 0) = 0 /\ galMultiply(0, a) = 0
  /\ \A a, b \in Field \ {0} :
       /\ galMultiply(a, b) = expTable[(logTable[a] + logTable[b]) % Order]
       /\ galMultiply(a, b) \in Field \ {0}
       /\ logTable[galMultiply(a, b)] = (logTable[a] + logTable[b]) % Order
<1>1. \A a, b \in Field :
        galMultiply(a, b) = IF a = 0 \/ b = 0 THEN 0
                            ELSE expTable[(logTable[a] + logTable[b]) % Order]
  BY DEF galMultiply, mulTable
<1>2. 0 \in Field
  BY Logarithms
<1>3. ASSUME NEW a \in Field \ {0}, NEW b \in Field \ {0}
      PROVE  (logTable[a] + logTable[b]) % Order \in 0 .. Order - 1
  <2>1. logTable[a] + logTable[b] \in Nat /\ Order \in Nat \ {0}
    BY Logarithms
  <2> QED
    BY <2>1, RemainderOfSum
<1>4. \A a \in Field : galMultiply(a, 0) = 0 /\ galMultiply(0, a) = 0
  BY <1>1, <1>2
<1>5. ASSUME NEW a \in Field \ {0}, NEW b \in Field \ {0}
      PROVE  galMultiply(a, b) = expTable[(logTable[a] + logTable[b]) % Order]
  BY <1>1
<1>6. ASSUME NEW a \in Field \ {0}, NEW b \in Field \ {0}
      PROVE  /\ galMultiply(a, b) \in Field \ {0}
             /\ logTable[galMultiply(a, b)] = (logTable[a] + logTable[b]) % Order
  <2>1. PICK k \in 0 .. Order - 1 : k = (logTable[a] + logTable[b]) % Order
    BY <1>3
  <2>2. galMultiply(a, b) = expTable[k]
    BY <1>5, <2>1
  <2>3. expTable[k] \in Field \ {0} /\ logTable[expTable[k]] = k
    BY Logarithms
  <2> QED
    BY <2>1, <2>2, <2>3
<1> QED
  BY <1>4, <1>5, <1>6

\* A sum of remainders has the remainder of the sum.
LEMMA RemainderTwice ==
  ASSUME NEW T \in Nat \ {0}, NEW m \in Nat, NEW n \in Nat
  PROVE  ((m % T) + n) % T = (m + n) % T
<1> DEFINE q == m \div T
           r == ((m % T) + n) % T
           p == ((m % T) + n) \div T
<1>1. m = T * q + (m % T) /\ q \in Nat /\ m % T \in 0 .. T - 1
  <2>1. PICK s \in 0 .. T - 1 : m = T * (m \div T) + s
    BY Division
  <2>2. m \div T \in Nat
    BY Division
  <2>3. m % T = s
    BY <2>1, <2>2, RemainderUnique
  <2> QED
    BY <2>1, <2>2, <2>3
<1>2. (m % T) + n \in Nat
  BY <1>1
<1>3. (m % T) + n = T * p + r /\ p \in Nat /\ r \in 0 .. T - 1
  <2>1. PICK s \in 0 .. T - 1 : (m % T) + n = T * p + s
    BY <1>2, Division
  <2>2. p \in Nat
    BY <1>2, Division
  <2>3. r = s
    BY <2>1, <2>2, RemainderUnique
  <2> QED
    BY <2>1, <2>2, <2>3
<1>4. m + n = T * (q + p) + r /\ q + p \in Nat
  <2> HIDE DEF p, q, r
  <2>1. T * (q + p) = T * q + T * p
    BY <1>1, <1>3
  <2> QED
    BY <1>1, <1>3, <2>1
<1>5. (m + n) % T = r
  <2> HIDE DEF p, q, r
  <2>1. PICK s \in Int : s = q + p
    BY <1>4
  <2>2. m + n = T * s + r
    BY <1>4, <2>1
  <2>3. (T * s + r) % T = r
    BY <1>3, RemainderUnique
  <2> QED
    BY <2>2, <2>3
<1> QED
  BY <1>5

\* The tables are those of a field.
LEMMA TheField == FieldLaws
<1> DEFINE times(a, b) == galMultiply(a, b)
           log(a) == logTable[a]
<1>1. 0 \in Field /\ 1 \in Field
  BY Logarithms
<1>2. ASSUME NEW a \in Field, NEW b \in Field
      PROVE  times(a, b) \in Field /\ times(a, b) = times(b, a)
  <2>1. CASE a = 0 \/ b = 0
    BY <1>1, <2>1, Products
  <2>2. CASE a # 0 /\ b # 0
    <3>1. log(a) + log(b) = log(b) + log(a)
      BY <2>2, Logarithms
    <3> QED
      BY <2>2, <3>1, Products
  <2> QED
    BY <2>1, <2>2
<1>3. ASSUME NEW a \in Field, NEW b \in Field, NEW c \in Field
      PROVE  times(times(a, b), c) = times(a, times(b, c))
  <2>1. CASE a = 0 \/ b = 0 \/ c = 0
    BY <1>1, <1>2, <2>1, Products
  <2>2. CASE a # 0 /\ b # 0 /\ c # 0
    <3>1. log(a) \in Nat /\ log(b) \in Nat /\ log(c) \in Nat /\ Order \in Nat \ {0}
      BY <2>2, Logarithms
    <3>2. times(times(a, b), c) = expTable[(((log(a) + log(b)) % Order) + log(c)) % Order]
      BY <2>2, Products
    <3>3. times(a, times(b, c)) = expTable[(log(a) + ((log(b) + log(c)) % Order)) % Order]
      BY <2>2, Products
    <3> DEFINE x == log(a)
               y == log(b)
               z == log(c)
    <3>4. (((x + y) % Order) + z) % Order = (x + ((y + z) % Order)) % Order
      <4> HIDE DEF x, y, z
      <4>1. x \in Nat /\ y \in Nat /\ z \in Nat /\ x + y \in Nat /\ y + z \in Nat
        BY <3>1 DEF x, y, z
      <4>2. (((x + y) % Order) + z) % Order = (x + y + z) % Order
        BY <3>1, <4>1, RemainderTwice
      <4>3. (((y + z) % Order) + x) % Order = (y + z + x) % Order
        BY <3>1, <4>1, RemainderTwice
      <4>4. (y + z) % Order \in Nat
        BY <3>1, <4>1, RemainderOfSum
      <4>5. ((y + z) % Order) + x = x + ((y + z) % Order) /\ y + z + x = x + y + z
        BY <4>1, <4>4
      <4> QED
        BY <4>2, <4>3, <4>5
    <3> QED
      BY <3>2, <3>3, <3>4
  <2> QED
    BY <2>1, <2>2
<1>4. ASSUME NEW a \in Field PROVE times(1, a) = a /\ times(a, 1) = a
  <2>1. CASE a = 0
    BY <1>1, <2>1, Products
  <2>2. CASE a # 0
    <3>1. log(1) = 0
      <4>1. 0 \in 0 .. Order - 1
        BY Logarithms
      <4> QED
        BY <4>1, Logarithms, FirstPower
    <3>2. log(a) \in 0 .. Order - 1 /\ expTable[log(a)] = a /\ Order \in Nat \ {0}
      BY <2>2, Logarithms
    <3>3. (log(1) + log(a)) % Order = log(a)
      <4>1. log(1) + log(a) = log(a) /\ log(a) \in Nat
        BY <3>1, <3>2
      <4>2. log(a) = Order * 0 + log(a)
        BY <3>2
      <4> QED
        BY <3>2, <4>1, <4>2, RemainderUnique
    <3>4. times(1, a) = a
      BY <1>1, <2>2, <3>2, <3>3, Products
    <3> QED
      BY <1>1, <1>2, <3>4
  <2> QED
    BY <2>1, <2>2
<1>5. /\ \A a, b \in Field : galAdd(a, b) \in Field /\ galAdd(a, b) = galAdd(b, a)
      /\ \A a \in Field : galAdd(a, 0) = a /\ galAdd(a, a) = 0
      /\ \A a, b, c \in Field : galAdd(galAdd(a, b), c) = galAdd(a, galAdd(b, c))
      /\ \A a, b, c \in Field :
           galMultiply(a, galAdd(b, c)) = galAdd(galMultiply(a, b), galMultiply(a, c))
  BY CodecAssumption DEF FieldAssumption
<1>6. \A a \in Field : galMultiply(a, 0) = 0 /\ galMultiply(0, a) = 0
  BY Products
<1> QED
  BY <1>1, <1>2, <1>3, <1>4, <1>5, <1>6 DEF FieldLaws

\* Division by what is not 0.
LEMMA Inverses ==
  ASSUME NEW b \in Field \ {0}
  PROVE  galDivide(1, b) \in Field \ {0} /\ galMultiply(galDivide(1, b), b) = 1
<1> DEFINE l == 0 - logTable[b]
           k == IF l < 0 THEN l + Order ELSE l
<1>1. /\ logTable[b] \in 0 .. Order - 1 /\ Order \in Nat \ {0} /\ logTable[1] = 0
      /\ expTable[0] = 1
  <2>1. 0 \in 0 .. Order - 1
    BY Logarithms
  <2> QED
    BY <2>1, Logarithms, FirstPower
<1>2. galDivide(1, b) = expTable[k]
  BY <1>1 DEF galDivide
<1>3. k \in 0 .. Order - 1 /\ (k + logTable[b] = 0 \/ k + logTable[b] = Order)
  BY <1>1
<1> HIDE DEF k
<1>4. expTable[k] \in Field \ {0} /\ logTable[expTable[k]] = k
  BY <1>3, Logarithms
<1>5. (k + logTable[b]) % Order = 0
  <2>1. CASE k + logTable[b] = 0
    <3>1. 0 = Order * 0 + 0 /\ 0 \in 0 .. Order - 1
      BY <1>1
    <3> QED
      BY <1>1, <2>1, <3>1, RemainderUnique
  <2>2. CASE k + logTable[b] = Order
    <3>1. Order = Order * 1 + 0 /\ 0 \in 0 .. Order - 1
      BY <1>1
    <3> QED
      BY <1>1, <2>2, <3>1, RemainderUnique
  <2> QED
    BY <1>3, <2>1, <2>2
<1> QED
  BY <1>1, <1>2, <1>4, <1>5, Products

\* Powers are products.
LEMMA Powers ==
  ASSUME NEW a \in Field, NEW n \in Nat
  PROVE  /\ galExp(a, 0) = 1
         /\ galExp(a, n) \in Field
         /\ galExp(a, n + 1) = galMultiply(a, galExp(a, n))
<1>1. 0 \in Field /\ 1 \in Field /\ n + 1 # 0
  BY Logarithms
<1>2. CASE a = 0
  BY <1>1, <1>2, Products DEF galExp
<1>3. CASE a # 0
  <2>1. logTable[a] \in Nat /\ Order \in Nat \ {0}
    BY <1>3, Logarithms
  <2> DEFINE l == logTable[a]
             power(i) == expTable[(l * i) % Order]
  <2>2. l * n \in Nat /\ l * (n + 1) = l * n + l /\ l * (n + 1) \in Nat /\ l * 0 = 0
    <3> HIDE DEF l
    <3>1. l \in Nat
      BY <2>1 DEF l
    <3> QED
      BY <3>1
  <2>3. (l * n) % Order \in 0 .. Order - 1 /\ 0 % Order = 0
    <3>1. 0 = Order * 0 + 0 /\ 0 \in 0 .. Order - 1
      BY <2>1
    <3>2. 0 % Order = 0
      BY <2>1, <3>1, RemainderUnique
    <3>3. (l * n) % Order \in 0 .. Order - 1
      BY <2>1, <2>2, RemainderOfSum
    <3> QED
      BY <3>2, <3>3
  <2>4. power(n) \in Field \ {0} /\ logTable[power(n)] = (l * n) % Order
    BY <2>3, Logarithms
  <2>5. power(n + 1) = galMultiply(a, power(n))
    <3>1. (((l * n) % Order) + l) % Order = (l * n + l) % Order
      BY <2>1, <2>2, RemainderTwice
    <3>2. ((l * n) % Order) + l = l + ((l * n) % Order)
      BY <2>1, <2>3
    <3>3. galMultiply(a, power(n)) = expTable[(l + ((l * n) % Order)) % Order]
      BY <1>3, <2>4, Products
    <3> QED
      BY <2>2, <3>1, <3>2, <3>3
  <2>6. \A i \in Nat : galExp(a, i) = IF i = 0 THEN 1 ELSE power(i)
    BY <1>3 DEF galExp
  <2>7. power(0) = 1
    BY <2>2, <2>3, FirstPower
  <2> HIDE DEF power
  <2> QED
    BY <1>1, <2>4, <2>5, <2>6, <2>7
<1> QED
  BY <1>2, <1>3

-----------------------------------------------------------------------------
(* Sums                                                                    *)

a ++ b == galAdd(a, b)
a ** b == galMultiply(a, b)

\* The laws of the field, in this notation.
LEMMA Laws ==
  /\ 0 \in Field /\ 1 \in Field
  /\ \A a, b \in Field : a ++ b \in Field /\ a ** b \in Field
  /\ \A a, b \in Field : a ++ b = b ++ a /\ a ** b = b ** a
  /\ \A a, b, c \in Field : (a ++ b) ++ c = a ++ (b ++ c)
  /\ \A a, b, c \in Field : (a ** b) ** c = a ** (b ** c)
  /\ \A a, b, c \in Field : a ** (b ++ c) = (a ** b) ++ (a ** c)
  /\ \A a \in Field : a ++ 0 = a /\ 0 ++ a = a /\ a ++ a = 0
  /\ \A a \in Field : a ** 0 = 0 /\ 0 ** a = 0
  /\ \A a \in Field : 1 ** a = a /\ a ** 1 = a
BY TheField, Zenon DEF FieldLaws, ++, **

\* Sums and products of elements are elements.
LEMMA Closed ==
  /\ 0 \in Field /\ 1 \in Field
  /\ \A a, b \in Field : a ++ b \in Field /\ a ** b \in Field
BY Laws

\* Sums may be bracketed anew.
LEMMA Associates == \A a, b, c \in Field : (a ++ b) ++ c = a ++ (b ++ c)
BY Laws

\* Products may be bracketed anew.
LEMMA MultiplyAssociates == \A a, b, c \in Field : (a ** b) ** c = a ** (b ** c)
BY Laws

\* A factor of a sum is one of each term.
LEMMA Distributes == \A a, b, c \in Field : a ** (b ++ c) = (a ** b) ++ (a ** c)
BY Laws

\* Two pairs are added crosswise.
LEMMA Crosswise ==
  ASSUME NEW a \in Field, NEW b \in Field, NEW c \in Field, NEW d \in Field
  PROVE  (a ++ b) ++ (c ++ d) = (a ++ c) ++ (b ++ d)
<1>1. (a ++ b) ++ (c ++ d) = a ++ (b ++ (c ++ d))
  BY Laws
<1>2. b ++ (c ++ d) = c ++ (b ++ d)
  <2>1. b ++ (c ++ d) = (b ++ c) ++ d
    BY Laws
  <2>2. c ++ (b ++ d) = (c ++ b) ++ d
    BY Laws
  <2>3. b ++ c = c ++ b
    BY Laws
  <2> QED
    BY <2>1, <2>2, <2>3
<1>3. a ++ (c ++ (b ++ d)) = (a ++ c) ++ (b ++ d)
  BY Laws
<1> QED
  BY <1>1, <1>2, <1>3

\* A sum is 0 if both parts are the same, and only then.
LEMMA NoSigns ==
  ASSUME NEW a \in Field, NEW b \in Field
  PROVE  a ++ b = 0 <=> a = b
<1>1. ASSUME a ++ b = 0 PROVE a = b
  <2>1. (a ++ b) ++ b = a ++ (b ++ b)
    BY Laws
  <2>2. b ++ b = 0 /\ a ++ 0 = a /\ 0 ++ b = b
    BY Laws
  <2> QED
    BY <1>1, <2>1, <2>2
<1>2. a ++ a = 0
  BY Laws
<1> QED
  BY <1>1, <1>2

\* A product is 0 only if a factor is.
LEMMA NoDivisors ==
  ASSUME NEW a \in Field, NEW b \in Field, a ** b = 0, a # 0
  PROVE  b = 0
<1> DEFINE i == galDivide(1, a)
<1>1. i \in Field /\ i ** a = 1
  BY Inverses DEF **
<1> HIDE DEF i
<1>2. (i ** a) ** b = i ** (a ** b)
  BY <1>1, Laws
<1>3. 1 ** b = b /\ i ** 0 = 0
  BY <1>1, Laws
<1> QED
  BY <1>1, <1>2, <1>3

\* t[1] ++ ... ++ t[n]
SumTo(n, t) == LET s[k \in 0 .. n] == IF k = 0 THEN 0 ELSE s[k - 1] ++ t[k] IN s[n]

Vectors(n) == [1 .. n -> Field]

\* The step of the definition of SumTo.
IsSum(n, t, s) == s = [k \in 0 .. n |-> IF k = 0 THEN 0 ELSE s[k - 1] ++ t[k]]

\* A function that adds term by term ends with the sum.
LEMMA SumValue ==
  ASSUME NEW n \in Nat, NEW t, NEW g, g[0] = 0, \A k \in 1 .. n : g[k] = g[k - 1] ++ t[k]
  PROVE  SumTo(n, t) = g[n]
<1> DEFINE f == CHOOSE s : IsSum(n, t, s)
           h == [k \in 0 .. n |-> g[k]]
<1>1. SumTo(n, t) = f[n]
  BY DEF SumTo, IsSum
<1>2. IsSum(n, t, h)
  <2>1. ASSUME NEW k \in 0 .. n PROVE h[k] = IF k = 0 THEN 0 ELSE h[k - 1] ++ t[k]
    <3>1. CASE k = 0
      BY <3>1
    <3>2. CASE k # 0
      <4>1. k \in 1 .. n /\ k - 1 \in 0 .. n
        BY <3>2
      <4> QED
        BY <3>2, <4>1
    <3> QED
      BY <3>1, <3>2
  <2> QED
    BY <2>1 DEF IsSum
<1>3. IsSum(n, t, f)
  <2> HIDE DEF h
  <2> QED
    BY <1>2, Zenon
<1> HIDE DEF f, h
<1>4. \A k \in 0 .. n : f[k] = IF k = 0 THEN 0 ELSE f[k - 1] ++ t[k]
  BY <1>3 DEF IsSum
<1> DEFINE S == {k \in Nat : k <= n => f[k] = g[k]}
<1>5. 0 \in S
  <2>1. 0 \in 0 .. n
    OBVIOUS
  <2> QED
    BY <1>4, <2>1
<1>6. ASSUME NEW k \in Nat, k \in S PROVE k + 1 \in S
  <2> SUFFICES ASSUME k + 1 <= n PROVE f[k + 1] = g[k + 1]
    OBVIOUS
  <2>1. k + 1 \in 0 .. n /\ k + 1 \in 1 .. n /\ k + 1 # 0 /\ (k + 1) - 1 = k /\ k <= n
    OBVIOUS
  <2>2. f[k] = g[k]
    BY <1>6, <2>1
  <2>3. f[k + 1] = f[k] ++ t[k + 1]
    BY <1>4, <2>1
  <2>4. g[k + 1] = g[k] ++ t[k + 1]
    BY <2>1
  <2> QED
    BY <2>2, <2>3, <2>4
<1> HIDE DEF S
<1>7. n \in S
  BY <1>5, <1>6, Induction
<1> QED
  BY <1>1, <1>7 DEF S

\* A sum is made term by term.
LEMMA SumStep ==
  ASSUME NEW n \in Nat, NEW t \in Vectors(n)
  PROVE  /\ SumTo(0, t) = 0
         /\ \A k \in 0 .. n : SumTo(k, t) \in Field
         /\ \A k \in 0 .. n - 1 : SumTo(k + 1, t) = SumTo(k, t) ++ t[k + 1]
<1> DEFINE step == [i \in 1 .. n |-> [a \in Field |-> a ++ t[i]]]
<1>1. PICK g \in [0 .. n -> Field] : g[0] = 0 /\ \A i \in 1 .. n : g[i] = step[i][g[i - 1]]
  <2>1. step \in [1 .. n -> [Field -> Field]]
    BY Closed DEF Vectors
  <2>2. 0 \in Field
    BY Closed
  <2> HIDE DEF step
  <2> QED
    BY <2>1, <2>2, Recursion
<1>2. \A i \in 1 .. n : g[i] = g[i - 1] ++ t[i]
  <2> TAKE i \in 1 .. n
  <2>1. i - 1 \in 0 .. n
    OBVIOUS
  <2>2. g[i - 1] \in Field
    BY <1>1, <2>1
  <2> QED
    BY <1>1, <2>2
<1> HIDE DEF step
<1>3. ASSUME NEW k \in 0 .. n PROVE SumTo(k, t) = g[k]
  <2>1. k \in Nat /\ \A i \in 1 .. k : i \in 1 .. n
    OBVIOUS
  <2>2. \A i \in 1 .. k : g[i] = g[i - 1] ++ t[i]
    BY <1>2, <2>1
  <2>3. k \in Nat /\ g[0] = 0
    BY <1>1, <2>1
  <2> QED
    BY <2>2, <2>3, SumValue, Zenon
<1>4. SumTo(0, t) = 0
  BY <1>1, <1>3
<1>5. \A k \in 0 .. n : SumTo(k, t) \in Field
  BY <1>1, <1>3
<1>6. ASSUME NEW k \in 0 .. n - 1 PROVE SumTo(k + 1, t) = SumTo(k, t) ++ t[k + 1]
  <2>1. k \in 0 .. n /\ k + 1 \in 0 .. n /\ k + 1 \in 1 .. n /\ (k + 1) - 1 = k
    OBVIOUS
  <2>2. SumTo(k, t) = g[k] /\ SumTo(k + 1, t) = g[k + 1]
    BY <1>3, <2>1
  <2> QED
    BY <1>2, <2>1, <2>2
<1> QED
  BY <1>4, <1>5, <1>6

\* Sums are added term by term.
LEMMA SumOfSums ==
  ASSUME NEW n \in Nat, NEW t \in Vectors(n), NEW u \in Vectors(n), NEW v \in Vectors(n),
         \A k \in 1 .. n : v[k] = t[k] ++ u[k]
  PROVE  SumTo(n, v) = SumTo(n, t) ++ SumTo(n, u)
<1> DEFINE S == {k \in Nat : k <= n => SumTo(k, v) = SumTo(k, t) ++ SumTo(k, u)}
<1>1. 0 \in S
  <2>1. SumTo(0, t) = 0 /\ SumTo(0, u) = 0 /\ SumTo(0, v) = 0
    BY SumStep
  <2>2. 0 ++ 0 = 0
    BY Laws
  <2> QED
    BY <2>1, <2>2
<1>2. ASSUME NEW k \in Nat, k \in S PROVE k + 1 \in S
  <2> SUFFICES ASSUME k + 1 <= n PROVE SumTo(k + 1, v) = SumTo(k + 1, t) ++ SumTo(k + 1, u)
    OBVIOUS
  <2>1. k \in 0 .. n /\ k \in 0 .. n - 1 /\ k + 1 \in 1 .. n
    OBVIOUS
  <2> DEFINE a == SumTo(k, t)
             b == SumTo(k, u)
  <2>2. a \in Field /\ b \in Field /\ t[k + 1] \in Field /\ u[k + 1] \in Field
    BY <2>1, SumStep DEF Vectors
  <2>3. SumTo(k, v) = a ++ b
    BY <1>2, <2>1
  <2>4. /\ SumTo(k + 1, t) = a ++ t[k + 1]
        /\ SumTo(k + 1, u) = b ++ u[k + 1]
        /\ SumTo(k + 1, v) = (a ++ b) ++ (t[k + 1] ++ u[k + 1])
    BY <2>1, <2>3, SumStep
  <2> HIDE DEF a, b
  <2>5. (a ++ b) ++ (t[k + 1] ++ u[k + 1]) = (a ++ t[k + 1]) ++ (b ++ u[k + 1])
    BY <2>2, Crosswise
  <2> QED
    BY <2>4, <2>5
<1> HIDE DEF S
<1>3. n \in S
  BY <1>1, <1>2, Induction
<1> QED
  BY <1>3 DEF S

\* A common factor.
LEMMA SumOfMultiples ==
  ASSUME NEW n \in Nat, NEW t \in Vectors(n), NEW u \in Vectors(n), NEW c \in Field,
         \A k \in 1 .. n : u[k] = c ** t[k]
  PROVE  SumTo(n, u) = c ** SumTo(n, t)
<1> DEFINE S == {k \in Nat : k <= n => SumTo(k, u) = c ** SumTo(k, t)}
<1>1. 0 \in S
  <2>1. SumTo(0, t) = 0 /\ SumTo(0, u) = 0
    BY SumStep
  <2>2. c ** 0 = 0
    BY Laws
  <2> QED
    BY <2>1, <2>2
<1>2. ASSUME NEW k \in Nat, k \in S PROVE k + 1 \in S
  <2> SUFFICES ASSUME k + 1 <= n PROVE SumTo(k + 1, u) = c ** SumTo(k + 1, t)
    OBVIOUS
  <2>1. k \in 0 .. n /\ k \in 0 .. n - 1 /\ k + 1 \in 1 .. n
    OBVIOUS
  <2> DEFINE a == SumTo(k, t)
  <2>2. a \in Field /\ t[k + 1] \in Field
    BY <2>1, SumStep DEF Vectors
  <2>3. SumTo(k, u) = c ** a
    BY <1>2, <2>1
  <2>4. SumTo(k + 1, t) = a ++ t[k + 1] /\ SumTo(k + 1, u) = (c ** a) ++ (c ** t[k + 1])
    BY <2>1, <2>3, SumStep
  <2> HIDE DEF a
  <2>5. c ** (a ++ t[k + 1]) = (c ** a) ++ (c ** t[k + 1])
    BY <2>2, Distributes
  <2> QED
    BY <2>4, <2>5
<1> HIDE DEF S
<1>3. n \in S
  BY <1>1, <1>2, Induction
<1> QED
  BY <1>3 DEF S

\* A sum with one term at most that is not 0.
LEMMA SumOfOne ==
  ASSUME NEW n \in Nat, NEW t \in Vectors(n), NEW i \in 1 .. n,
         \A k \in 1 .. n : k # i => t[k] = 0
  PROVE  SumTo(n, t) = t[i]
<1> DEFINE S == {k \in Nat : k <= n => SumTo(k, t) = IF i <= k THEN t[i] ELSE 0}
<1>1. 0 \in S
  BY SumStep
<1>2. ASSUME NEW k \in Nat, k \in S PROVE k + 1 \in S
  <2> SUFFICES ASSUME k + 1 <= n PROVE SumTo(k + 1, t) = IF i <= k + 1 THEN t[i] ELSE 0
    OBVIOUS
  <2>1. k \in 0 .. n - 1 /\ k + 1 \in 1 .. n
    OBVIOUS
  <2>2. SumTo(k, t) = (IF i <= k THEN t[i] ELSE 0) /\ SumTo(k + 1, t) = SumTo(k, t) ++ t[k + 1]
    BY <1>2, <2>1, SumStep
  <2>3. t[i] \in Field /\ 0 \in Field
    BY Closed DEF Vectors
  <2>4. t[i] ++ 0 = t[i] /\ 0 ++ t[i] = t[i] /\ 0 ++ 0 = 0
    BY <2>3, Laws
  <2>5. CASE i <= k
    <3>1. t[k + 1] = 0
      BY <2>1, <2>5
    <3> QED
      BY <2>2, <2>4, <2>5, <3>1
  <2>6. CASE i = k + 1
    BY <2>2, <2>4, <2>6
  <2>7. CASE i > k + 1
    <3>1. t[k + 1] = 0
      BY <2>1, <2>7
    <3> QED
      BY <2>2, <2>4, <2>7, <3>1
  <2> QED
    BY <2>5, <2>6, <2>7
<1> HIDE DEF S
<1>3. n \in S
  BY <1>1, <1>2, Induction
<1> QED
  BY <1>3 DEF S

\* A sum of two parts.
LEMMA SumOfParts ==
  ASSUME NEW n \in Nat, NEW m \in Nat, NEW t \in Vectors(n), NEW u \in Vectors(m),
         NEW v \in Vectors(n + m),
         \A k \in 1 .. n : v[k] = t[k],
         \A k \in 1 .. m : v[n + k] = u[k]
  PROVE  SumTo(n + m, v) = SumTo(n, t) ++ SumTo(m, u)
<1> DEFINE S == {k \in Nat : k <= n => SumTo(k, v) = SumTo(k, t)}
           T == {k \in Nat : k <= m => SumTo(n + k, v) = SumTo(n, t) ++ SumTo(k, u)}
<1>1. 0 \in S
  BY SumStep
<1>2. ASSUME NEW k \in Nat, k \in S PROVE k + 1 \in S
  <2> SUFFICES ASSUME k + 1 <= n PROVE SumTo(k + 1, v) = SumTo(k + 1, t)
    OBVIOUS
  <2>1. k \in 0 .. n - 1 /\ k \in 0 .. (n + m) - 1 /\ k + 1 \in 1 .. n
    OBVIOUS
  <2>2. SumTo(k, v) = SumTo(k, t) /\ v[k + 1] = t[k + 1]
    BY <1>2, <2>1
  <2> QED
    BY <2>1, <2>2, SumStep
<1>3. SumTo(n, v) = SumTo(n, t)
  <2> HIDE DEF S
  <2>1. n \in S
    BY <1>1, <1>2, Induction
  <2> QED
    BY <2>1 DEF S
<1>4. SumTo(n, t) \in Field
  BY SumStep
<1>5. 0 \in T
  <2>1. SumTo(0, u) = 0 /\ n + 0 = n
    BY SumStep
  <2>2. SumTo(n, t) ++ 0 = SumTo(n, t)
    BY <1>4, Laws
  <2> QED
    BY <1>3, <2>1, <2>2
<1>6. ASSUME NEW k \in Nat, k \in T PROVE k + 1 \in T
  <2> SUFFICES ASSUME k + 1 <= m PROVE SumTo(n + (k + 1), v) = SumTo(n, t) ++ SumTo(k + 1, u)
    OBVIOUS
  <2>1. /\ k \in 0 .. m - 1 /\ k \in 0 .. m /\ n + k \in 0 .. (n + m) - 1 /\ k + 1 \in 1 .. m
        /\ n + (k + 1) = (n + k) + 1
    OBVIOUS
  <2>2. SumTo(n + k, v) = SumTo(n, t) ++ SumTo(k, u) /\ v[n + (k + 1)] = u[k + 1]
    BY <1>6, <2>1
  <2>3. SumTo((n + k) + 1, v) = SumTo(n + k, v) ++ v[(n + k) + 1]
    BY <2>1, SumStep
  <2>4. SumTo(k + 1, u) = SumTo(k, u) ++ u[k + 1] /\ SumTo(k, u) \in Field /\ u[k + 1] \in Field
    BY <2>1, SumStep DEF Vectors
  <2>5. (SumTo(n, t) ++ SumTo(k, u)) ++ u[k + 1] = SumTo(n, t) ++ (SumTo(k, u) ++ u[k + 1])
    BY <1>4, <2>4, Associates
  <2> QED
    BY <2>1, <2>2, <2>3, <2>4, <2>5
<1> HIDE DEF T
<1>7. m \in T
  BY <1>5, <1>6, Induction
<1> QED
  BY <1>7 DEF T

-----------------------------------------------------------------------------
(* Vectors and rows                                                        *)

\* The product of the row u and the column x.
Dot(n, u, x) == SumTo(n, [k \in 1 .. n |-> u[k] ** x[k]])

Zero(n) == [k \in 1 .. n |-> 0]
Unit(n, i) == [k \in 1 .. n |-> IF i = k THEN 1 ELSE 0]
Join(n, x, y) == [k \in 1 .. 2 * n |-> IF k <= n THEN x[k] ELSE y[k - n]]

\* The product of a row and a column is an element, and does not depend on the order.
LEMMA DotType ==
  ASSUME NEW n \in Nat, NEW u \in Vectors(n), NEW x \in Vectors(n)
  PROVE  /\ [k \in 1 .. n |-> u[k] ** x[k]] \in Vectors(n)
         /\ Dot(n, u, x) \in Field
         /\ Dot(n, u, x) = Dot(n, x, u)
<1> DEFINE t == [k \in 1 .. n |-> u[k] ** x[k]]
<1>1. t \in Vectors(n)
  BY Closed DEF Vectors
<1>2. \A k \in 1 .. n : u[k] ** x[k] = x[k] ** u[k]
  BY Laws DEF Vectors
<1>3. t = [k \in 1 .. n |-> x[k] ** u[k]]
  BY <1>2
<1>4. SumTo(n, t) \in Field
  <2> HIDE DEF t
  <2> QED
    BY <1>1, SumStep
<1> QED
  BY <1>1, <1>3, <1>4 DEF Dot

\* The zero vector, the unit vectors and two vectors in a row are vectors.
LEMMA SpecialVectors ==
  ASSUME NEW n \in Nat
  PROVE  /\ Zero(n) \in Vectors(n)
         /\ \A i \in 1 .. n : Unit(n, i) \in Vectors(n)
         /\ \A x, y \in Vectors(n) : Join(n, x, y) \in Vectors(n + n) /\ 2 * n = n + n
BY Closed DEF Zero, Unit, Join, Vectors

\* A multiple of a row.
LEMMA DotScaled ==
  ASSUME NEW n \in Nat, NEW u \in Vectors(n), NEW x \in Vectors(n), NEW c \in Field
  PROVE  /\ galMulSlice(c, u) \in Vectors(n)
         /\ Dot(n, galMulSlice(c, u), x) = c ** Dot(n, u, x)
<1> DEFINE w == galMulSlice(c, u)
           t == [k \in 1 .. n |-> u[k] ** x[k]]
           v == [k \in 1 .. n |-> w[k] ** x[k]]
<1>1. w = [k \in 1 .. n |-> c ** u[k]]
  BY DEF galMulSlice, **, Vectors
<1>2. w \in Vectors(n)
  BY <1>1, Closed DEF Vectors
<1>3. t \in Vectors(n) /\ v \in Vectors(n)
  BY <1>2, DotType
<1>4. ASSUME NEW k \in 1 .. n PROVE v[k] = c ** t[k]
  <2>1. u[k] \in Field /\ x[k] \in Field
    BY DEF Vectors
  <2>2. (c ** u[k]) ** x[k] = c ** (u[k] ** x[k])
    BY <2>1, MultiplyAssociates
  <2> QED
    BY <1>1, <2>2
<1>5. SumTo(n, v) = c ** SumTo(n, t)
  <2> HIDE DEF t, v
  <2> QED
    BY <1>3, <1>4, SumOfMultiples
<1> QED
  BY <1>2, <1>5 DEF Dot

\* A sum of rows.
LEMMA DotOfSum ==
  ASSUME NEW n \in Nat, NEW u \in Vectors(n), NEW v \in Vectors(n), NEW w \in Vectors(n),
         NEW x \in Vectors(n), \A k \in 1 .. n : w[k] = u[k] ++ v[k]
  PROVE  Dot(n, w, x) = Dot(n, u, x) ++ Dot(n, v, x)
<1> DEFINE a == [k \in 1 .. n |-> u[k] ** x[k]]
           b == [k \in 1 .. n |-> v[k] ** x[k]]
           c == [k \in 1 .. n |-> w[k] ** x[k]]
<1>1. a \in Vectors(n) /\ b \in Vectors(n) /\ c \in Vectors(n)
  BY DotType
<1>2. ASSUME NEW k \in 1 .. n PROVE c[k] = a[k] ++ b[k]
  <2>1. u[k] \in Field /\ v[k] \in Field /\ x[k] \in Field /\ w[k] = u[k] ++ v[k]
    BY DEF Vectors
  <2>2. x[k] ** (u[k] ++ v[k]) = (x[k] ** u[k]) ++ (x[k] ** v[k])
    BY <2>1, Distributes
  <2>3. /\ x[k] ** (u[k] ++ v[k]) = (u[k] ++ v[k]) ** x[k]
        /\ x[k] ** u[k] = u[k] ** x[k] /\ x[k] ** v[k] = v[k] ** x[k]
    BY <2>1, Laws
  <2> QED
    BY <2>1, <2>2, <2>3
<1>3. SumTo(n, c) = SumTo(n, a) ++ SumTo(n, b)
  <2> HIDE DEF a, b, c
  <2> QED
    BY <1>1, <1>2, SumOfSums
<1> QED
  BY <1>3 DEF Dot

\* A row plus a multiple of another.
LEMMA DotAdded ==
  ASSUME NEW n \in Nat, NEW u \in Vectors(n), NEW v \in Vectors(n), NEW x \in Vectors(n),
         NEW c \in Field
  PROVE  /\ galMulSliceXor(c, v, u) \in Vectors(n)
         /\ Dot(n, galMulSliceXor(c, v, u), x) = Dot(n, u, x) ++ (c ** Dot(n, v, x))
<1> DEFINE w == galMulSliceXor(c, v, u)
           s == galMulSlice(c, v)
<1>1. w = [k \in 1 .. n |-> u[k] ++ (c ** v[k])] /\ s = [k \in 1 .. n |-> c ** v[k]]
  BY DEF galMulSliceXor, galMulSlice, **, ++, Vectors
<1>2. s \in Vectors(n) /\ Dot(n, s, x) = c ** Dot(n, v, x)
  BY DotScaled
<1>3. \A k \in 1 .. n : w[k] = u[k] ++ s[k]
  BY <1>1
<1>4. w \in Vectors(n)
  BY <1>1, <1>2, <1>3, Closed DEF Vectors
<1> HIDE DEF w, s
<1>5. Dot(n, w, x) = Dot(n, u, x) ++ Dot(n, s, x)
  BY <1>2, <1>3, <1>4, DotOfSum
<1> QED
  BY <1>2, <1>4, <1>5 DEF w

\* The row that picks an element, and the column of zeroes.
LEMMA DotSpecial ==
  ASSUME NEW n \in Nat, NEW x \in Vectors(n)
  PROVE  /\ Dot(n, x, Zero(n)) = 0
         /\ \A i \in 1 .. n : Dot(n, Unit(n, i), x) = x[i] /\ Dot(n, x, Unit(n, i)) = x[i]
<1>1. Dot(n, x, Zero(n)) = 0
  <2>1. Zero(n) \in Vectors(n)
    BY SpecialVectors
  <2> DEFINE z == [k \in 1 .. n |-> x[k] ** Zero(n)[k]]
  <2>2. z \in Vectors(n)
    BY <2>1, DotType
  <2>3. \A k \in 1 .. n : z[k] = 0
    BY Laws DEF Zero, Vectors
  <2>4. \A k \in 1 .. n : z[k] = 0 ** z[k]
    BY <2>3, Laws
  <2>5. SumTo(n, z) = 0 ** SumTo(n, z) /\ SumTo(n, z) \in Field
    <3> HIDE DEF z
    <3>1. 0 \in Field
      BY Closed
    <3> QED
      BY <2>2, <2>4, <3>1, SumOfMultiples, SumStep
  <2>6. SumTo(n, z) = 0
    <3> HIDE DEF z
    <3> QED
      BY <2>5, Laws
  <2> QED
    BY <2>6 DEF Dot
<1>2. ASSUME NEW i \in 1 .. n
      PROVE  Dot(n, Unit(n, i), x) = x[i] /\ Dot(n, x, Unit(n, i)) = x[i]
  <2>1. Unit(n, i) \in Vectors(n)
    BY SpecialVectors
  <2> DEFINE t == [k \in 1 .. n |-> Unit(n, i)[k] ** x[k]]
  <2>2. t \in Vectors(n)
    BY <2>1, DotType
  <2>3. \A k \in 1 .. n : t[k] = IF i = k THEN x[i] ELSE 0
    <3>1. \A k \in 1 .. n : t[k] = (IF i = k THEN 1 ELSE 0) ** x[k] /\ x[k] \in Field
      BY DEF Unit, Vectors
    <3>2. \A k \in 1 .. n : 1 ** x[k] = x[k] /\ 0 ** x[k] = 0
      BY Laws DEF Vectors
    <3> HIDE DEF t
    <3> QED
      BY <3>1, <3>2
  <2>4. SumTo(n, t) = t[i]
    <3> HIDE DEF t
    <3> QED
      BY <2>2, <2>3, SumOfOne
  <2>5. SumTo(n, t) = x[i]
    <3> HIDE DEF t
    <3> QED
      BY <2>3, <2>4
  <2> QED
    BY <2>1, <2>5, DotType DEF Dot
<1> QED
  BY <1>1, <1>2

\* The product of joined rows and columns.
LEMMA DotJoin ==
  ASSUME NEW n \in Nat, NEW a \in Vectors(n), NEW b \in Vectors(n),
         NEW x \in Vectors(n), NEW y \in Vectors(n)
  PROVE  Dot(2 * n, Join(n, a, b), Join(n, x, y)) = Dot(n, a, x) ++ Dot(n, b, y)
<1> DEFINE t == [k \in 1 .. n |-> a[k] ** x[k]]
           u == [k \in 1 .. n |-> b[k] ** y[k]]
           p == Join(n, a, b)
           q == Join(n, x, y)
           v == [k \in 1 .. n + n |-> p[k] ** q[k]]
<1>1. p \in Vectors(n + n) /\ q \in Vectors(n + n) /\ 2 * n = n + n /\ n + n \in Nat
  BY SpecialVectors
<1>2. t \in Vectors(n) /\ u \in Vectors(n)
  BY DotType
<1>3. v \in Vectors(n + n)
  <2> HIDE DEF p, q
  <2> QED
    BY <1>1, DotType
<1>4. ASSUME NEW k \in 1 .. n PROVE v[k] = t[k]
  <2>1. k \in 1 .. n + n /\ k \in 1 .. 2 * n
    OBVIOUS
  <2>2. p[k] = a[k] /\ q[k] = x[k]
    BY <2>1 DEF Join
  <2> HIDE DEF p, q
  <2> QED
    BY <2>1, <2>2
<1>5. ASSUME NEW k \in 1 .. n PROVE v[n + k] = u[k]
  <2>1. n + k \in 1 .. n + n /\ n + k \in 1 .. 2 * n /\ ~ (n + k <= n) /\ (n + k) - n = k
    OBVIOUS
  <2>2. p[n + k] = b[k] /\ q[n + k] = y[k]
    BY <2>1 DEF Join
  <2> HIDE DEF p, q
  <2> QED
    BY <2>1, <2>2
<1>6. SumTo(n + n, v) = SumTo(n, t) ++ SumTo(n, u)
  <2> HIDE DEF t, u, v
  <2> QED
    BY <1>2, <1>3, <1>4, <1>5, SumOfParts
<1>7. Dot(2 * n, p, q) = SumTo(n + n, v)
  BY <1>1 DEF Dot
<1> QED
  BY <1>6, <1>7 DEF Dot

\* A column that is changed in one place.
LEMMA DotChanged ==
  ASSUME NEW n \in Nat, NEW u \in Vectors(n), NEW x \in Vectors(n), NEW i \in 1 .. n,
         NEW d \in Field
  PROVE  /\ [x EXCEPT ![i] = x[i] ++ d] \in Vectors(n)
         /\ Dot(n, u, [x EXCEPT ![i] = x[i] ++ d]) = Dot(n, u, x) ++ (u[i] ** d)
<1> DEFINE w == [x EXCEPT ![i] = x[i] ++ d]
           s == galMulSlice(d, Unit(n, i))
<1>1. Unit(n, i) \in Vectors(n) /\ x[i] \in Field /\ u[i] \in Field
  BY SpecialVectors DEF Vectors
<1>2. w \in Vectors(n)
  BY <1>1, Closed DEF Vectors
<1>3. s \in Vectors(n) /\ Dot(n, s, u) = d ** Dot(n, Unit(n, i), u)
  BY <1>1, DotScaled
<1>4. \A k \in 1 .. n : s[k] = d ** (IF i = k THEN 1 ELSE 0)
  BY DEF galMulSlice, **, Unit
<1>5. \A k \in 1 .. n : w[k] = x[k] ++ s[k]
  <2>1. d ** 1 = d /\ d ** 0 = 0 /\ \A k \in 1 .. n : x[k] ++ 0 = x[k]
    BY Laws DEF Vectors
  <2>2. \A k \in 1 .. n : w[k] = IF i = k THEN x[i] ++ d ELSE x[k]
    BY DEF Vectors
  <2> HIDE DEF s, w
  <2> QED
    BY <1>4, <2>1, <2>2
<1> HIDE DEF s, w
<1>6. Dot(n, w, u) = Dot(n, x, u) ++ Dot(n, s, u)
  BY <1>2, <1>3, <1>5, DotOfSum
<1>7. Dot(n, Unit(n, i), u) = u[i] /\ d ** u[i] = u[i] ** d
  BY <1>1, DotSpecial, Laws
<1>8. Dot(n, w, u) = Dot(n, u, w) /\ Dot(n, x, u) = Dot(n, u, x)
  BY <1>2, DotType
<1> QED
  BY <1>2, <1>3, <1>6, <1>7, <1>8 DEF w

-----------------------------------------------------------------------------
(* Matrices                                                                *)

Matrices(n, w) == [1 .. n -> Vectors(w)]

\* A function from the first numbers is a sequence.
LEMMA Rows ==
  ASSUME NEW S, NEW n \in Nat, NEW x \in [1 .. n -> S]
  PROVE  x \in Seq(S) /\ Len(x) = n /\ DOMAIN x = 1 .. n
<1>1. x \in Seq(S)
  OBVIOUS
<1> QED
  BY <1>1, LenProperties

\* The rows of a matrix, and their elements.
LEMMA MatrixRows ==
  ASSUME NEW n \in Nat, NEW w \in Nat, NEW m \in Matrices(n, w)
  PROVE  /\ Len(m) = n /\ DOMAIN m = 1 .. n
         /\ \A i \in 1 .. n : m[i] \in Vectors(w) /\ Len(m[i]) = w
         /\ \A i \in 1 .. n, j \in 1 .. w : m[i][j] \in Field
<1>1. Len(m) = n /\ DOMAIN m = 1 .. n
  BY Rows DEF Matrices
<1>2. ASSUME NEW i \in 1 .. n
      PROVE  m[i] \in Vectors(w) /\ Len(m[i]) = w /\ \A j \in 1 .. w : m[i][j] \in Field
  <2>1. m[i] \in [1 .. w -> Field]
    BY DEF Matrices, Vectors
  <2> QED
    BY <2>1, Rows DEF Vectors
<1> QED
  BY <1>1, <1>2

\* The step of the definition of Combine.
IsCombine(n, c, m, s) ==
  s = [k \in 1 .. n |-> IF k = 1 THEN galMulSlice(c[1], m[1]) ELSE galMulSliceXor(c[k], m[k], s[k - 1])]

\* The product of a row and a matrix, applied to a column, is the row applied to what
\* the matrix makes of the column.
LEMMA CombineDot ==
  ASSUME NEW n \in Nat \ {0}, NEW w \in Nat, NEW c \in Vectors(n), NEW m \in Matrices(n, w)
  PROVE  /\ Combine(c, m) \in Vectors(w)
         /\ \A x \in Vectors(w) :
              Dot(w, Combine(c, m), x) = Dot(n, c, [l \in 1 .. n |-> Dot(w, m[l], x)])
<1> DEFINE f == CHOOSE s : IsCombine(n, c, m, s)
           step == [i \in 1 .. n |-> [v \in Vectors(w) |-> galMulSliceXor(c[i], m[i], v)]]
<1>1. Len(c) = n /\ \A k \in 1 .. n : c[k] \in Field /\ m[k] \in Vectors(w)
  BY Rows, MatrixRows DEF Vectors
<1>2. Combine(c, m) = f[n]
  BY <1>1 DEF Combine, IsCombine
<1>3. \A k \in 1 .. n : \A v \in Vectors(w) : galMulSliceXor(c[k], m[k], v) \in Vectors(w)
  BY <1>1, DotAdded
<1>4. PICK g \in [0 .. n -> Vectors(w)] :
        g[0] = Zero(w) /\ \A i \in 1 .. n : g[i] = step[i][g[i - 1]]
  <2>1. step \in [1 .. n -> [Vectors(w) -> Vectors(w)]]
    BY <1>3
  <2>2. Zero(w) \in Vectors(w) /\ n \in Nat
    BY SpecialVectors
  <2> HIDE DEF step, f
  <2>3. PICK N \in Nat : N = n
    OBVIOUS
  <2>4. step \in [1 .. N -> [Vectors(w) -> Vectors(w)]]
    BY <2>1, <2>3
  <2>5. \E g \in [0 .. N -> Vectors(w)] :
          g[0] = Zero(w) /\ \A i \in 1 .. N : g[i] = step[i][g[i - 1]]
    BY <2>2, <2>4, Recursion
  <2> QED
    BY <2>3, <2>5
<1>5. \A i \in 1 .. n : g[i] = galMulSliceXor(c[i], m[i], g[i - 1])
  <2> TAKE i \in 1 .. n
  <2>1. i - 1 \in 0 .. n
    OBVIOUS
  <2>2. g[i - 1] \in Vectors(w)
    BY <1>4, <2>1
  <2> QED
    BY <1>4, <2>2
<1> HIDE DEF step
<1>6. galMulSliceXor(c[1], m[1], Zero(w)) = galMulSlice(c[1], m[1])
  <2>1. 1 \in 1 .. n
    OBVIOUS
  <2>2. c[1] \in Field /\ m[1] \in [1 .. w -> Field]
    BY <1>1, <2>1 DEF Vectors
  <2>3. \A k \in 1 .. w : 0 ++ (c[1] ** m[1][k]) = c[1] ** m[1][k]
    BY <2>2, Closed, Laws
  <2> QED
    BY <2>2, <2>3 DEF galMulSliceXor, galMulSlice, Zero, ++, **
<1> DEFINE h == [k \in 1 .. n |-> g[k]]
<1>7. IsCombine(n, c, m, h)
  <2>1. ASSUME NEW k \in 1 .. n
        PROVE  h[k] = IF k = 1 THEN galMulSlice(c[1], m[1]) ELSE galMulSliceXor(c[k], m[k], h[k - 1])
    <3>1. CASE k = 1
      <4>1. g[1] = galMulSliceXor(c[1], m[1], g[1 - 1]) /\ 1 - 1 = 0
        BY <1>5, <3>1
      <4> QED
        BY <1>4, <1>6, <3>1, <4>1
    <3>2. CASE k # 1
      <4>1. k - 1 \in 1 .. n
        BY <3>2
      <4> QED
        BY <1>5, <3>2, <4>1
    <3> QED
      BY <3>1, <3>2
  <2> QED
    BY <2>1 DEF IsCombine
<1>8. IsCombine(n, c, m, f)
  <2> HIDE DEF h
  <2> QED
    BY <1>7, Zenon
<1> HIDE DEF f, h
<1>9. /\ f[1] = galMulSlice(c[1], m[1])
      /\ \A k \in 1 .. n : k # 1 => f[k] = galMulSliceXor(c[k], m[k], f[k - 1])
  <2>1. 1 \in 1 .. n
    OBVIOUS
  <2> QED
    BY <1>8, <2>1 DEF IsCombine
<1>10. ASSUME NEW x \in Vectors(w)
       PROVE  /\ f[n] \in Vectors(w)
              /\ Dot(w, f[n], x) = Dot(n, c, [l \in 1 .. n |-> Dot(w, m[l], x)])
  <2> DEFINE d == [l \in 1 .. n |-> c[l] ** Dot(w, m[l], x)]
             S == {k \in Nat : k \in 1 .. n => f[k] \in Vectors(w) /\ Dot(w, f[k], x) = SumTo(k, d)}
  <2>1. d \in Vectors(n)
    <3>1. \A l \in 1 .. n : Dot(w, m[l], x) \in Field
      BY <1>1, DotType
    <3> QED
      BY <1>1, <3>1, Closed DEF Vectors
  <2>2. /\ SumTo(0, d) = 0
        /\ \A k \in 0 .. n - 1 : SumTo(k + 1, d) = SumTo(k, d) ++ d[k + 1]
    <3> HIDE DEF d
    <3> QED
      BY <2>1, SumStep
  <2>3. 0 \in S
    OBVIOUS
  <2>4. ASSUME NEW k \in Nat, k \in S PROVE k + 1 \in S
    <3> SUFFICES ASSUME k + 1 \in 1 .. n
                 PROVE  f[k + 1] \in Vectors(w) /\ Dot(w, f[k + 1], x) = SumTo(k + 1, d)
      OBVIOUS
    <3>1. k \in 0 .. n - 1 /\ (k + 1) - 1 = k
      OBVIOUS
    <3>2. d[k + 1] = c[k + 1] ** Dot(w, m[k + 1], x)
      OBVIOUS
    <3>3. CASE k = 0
      <4>1. f[1] \in Vectors(w) /\ Dot(w, f[1], x) = c[1] ** Dot(w, m[1], x)
        BY <1>1, <1>9, <3>3, DotScaled
      <4>2. d[1] \in Field
        <5> HIDE DEF d
        <5> QED
          BY <2>1, <3>3 DEF Vectors
      <4>3. SumTo(1, d) = d[1]
        <5>1. SumTo(0 + 1, d) = SumTo(0, d) ++ d[0 + 1] /\ 0 + 1 = 1
          BY <2>2, <3>1, <3>3
        <5>2. 0 ++ d[1] = d[1]
          BY <4>2, Laws
        <5> QED
          BY <2>2, <5>1, <5>2
      <4> HIDE DEF d
      <4> QED
        BY <3>2, <3>3, <4>1, <4>3
    <3>4. CASE k # 0
      <4>1. k \in 1 .. n /\ k + 1 # 1
        BY <3>4
      <4>2. f[k] \in Vectors(w) /\ Dot(w, f[k], x) = SumTo(k, d)
        BY <2>4, <4>1
      <4>3. f[k + 1] = galMulSliceXor(c[k + 1], m[k + 1], f[k])
        BY <1>9, <3>1, <4>1
      <4>4. c[k + 1] \in Field /\ m[k + 1] \in Vectors(w)
        BY <1>1
      <4> HIDE DEF d, S
      <4>5. PICK u \in Vectors(w), v \in Vectors(w), a \in Field :
              u = f[k] /\ v = m[k + 1] /\ a = c[k + 1]
        BY <4>2, <4>4
      <4>6. /\ galMulSliceXor(a, v, u) \in Vectors(w)
            /\ Dot(w, galMulSliceXor(a, v, u), x) = Dot(w, u, x) ++ (a ** Dot(w, v, x))
        BY DotAdded
      <4>7. /\ f[k + 1] \in Vectors(w)
            /\ Dot(w, f[k + 1], x) = Dot(w, f[k], x) ++ (c[k + 1] ** Dot(w, m[k + 1], x))
        BY <4>3, <4>5, <4>6
      <4> QED
        BY <2>2, <3>1, <3>2, <4>2, <4>7
    <3> QED
      BY <3>3, <3>4
  <2>5. n \in S
    <3> HIDE DEF S
    <3>1. n \in Nat
      OBVIOUS
    <3> QED
      BY <2>3, <2>4, <3>1, Induction
  <2>6. n \in 1 .. n
    OBVIOUS
  <2>7. Dot(n, c, [l \in 1 .. n |-> Dot(w, m[l], x)]) = SumTo(n, d)
    BY DEF Dot
  <2> HIDE DEF d
  <2> QED
    BY <2>5, <2>6, <2>7
<1>11. \E x : x \in Vectors(w)
  BY SpecialVectors
<1> QED
  BY <1>2, <1>10, <1>11

\* Element by element.
LEMMA CombineAt ==
  ASSUME NEW n \in Nat \ {0}, NEW w \in Nat, NEW c \in Vectors(n), NEW m \in Matrices(n, w),
         NEW j \in 1 .. w
  PROVE  Combine(c, m)[j] = Dot(n, c, [l \in 1 .. n |-> m[l][j]])
<1>1. Unit(w, j) \in Vectors(w)
  BY SpecialVectors
<1>2. Combine(c, m) \in Vectors(w)
  BY CombineDot
<1>3. Combine(c, m)[j] = Dot(n, c, [l \in 1 .. n |-> Dot(w, m[l], Unit(w, j))])
  BY <1>1, <1>2, CombineDot, DotSpecial
<1>4. \A l \in 1 .. n : Dot(w, m[l], Unit(w, j)) = m[l][j]
  BY MatrixRows, DotSpecial
<1> QED
  BY <1>3, <1>4

-----------------------------------------------------------------------------
(* Gaussian elimination                                                    *)

\* x solves the equations whose coefficients are the rows of m.
Solves(n, w, m, x) == \A i \in 1 .. n : Dot(w, m[i], x) = 0

\* The columns up to r are those of a triangle with ones on the diagonal.
Triangular(n, m, r) == \A j \in 1 .. r : m[j][j] = 1 /\ \A i \in j + 1 .. n : m[i][j] = 0

\* The columns up to d are 0 above the diagonal.
Cleared(m, d) == \A j \in 1 .. d : \A i \in 1 .. j - 1 : m[i][j] = 0

\* p is m with the rows r and s in each other's place.
Swapped(n, w, m, p, r, s) ==
  /\ p \in Matrices(n, w)
  /\ \A i \in 1 .. n : p[i] = IF i = s THEN m[r] ELSE IF i = r THEN m[s] ELSE m[i]

\* The row of the pivot changes places with one below or with none.
LEMMA PivotSwaps ==
  ASSUME NEW n \in Nat, NEW w \in Nat, NEW m \in Matrices(n, w), NEW r \in 1 .. n
  PROVE  /\ \E s \in r .. n : Swapped(n, w, m, Pivot(m, r), r, s)
         /\ Pivot(m, r)[r][r] = 0 => \A i \in r .. n : m[i][r] = 0
<1>1. Len(m) = n /\ DOMAIN m = 1 .. n /\ m \in [1 .. n -> Vectors(w)]
  BY MatrixRows DEF Matrices
<1> DEFINE below == {i \in r + 1 .. n : m[i][r] # 0}
<1>2. CASE m[r][r] # 0 \/ below = {}
  <2>1. Pivot(m, r) = m
    BY <1>1, <1>2 DEF Pivot
  <2>2. r \in r .. n
    OBVIOUS
  <2>3. Swapped(n, w, m, m, r, r)
    BY DEF Swapped
  <2>4. m[r][r] = 0 => \A i \in r .. n : m[i][r] = 0
    <3> SUFFICES ASSUME m[r][r] = 0, NEW i \in r .. n PROVE m[i][r] = 0
      OBVIOUS
    <3>1. i = r \/ i \in r + 1 .. n
      OBVIOUS
    <3> QED
      BY <1>2, <3>1
  <2> QED
    BY <2>1, <2>2, <2>3, <2>4
<1>3. CASE m[r][r] = 0 /\ below # {}
  <2> DEFINE s == CHOOSE i \in below : \A j \in below : i <= j
  <2>1. below \subseteq Nat
    OBVIOUS
  <2>2. \E i \in below : \A j \in below : i <= j
    <3> HIDE DEF below
    <3> QED
      BY <1>3, <2>1, Least
  <2>3. s \in below
    <3> HIDE DEF below
    <3> QED
      BY <2>2
  <2>4. s \in r + 1 .. n /\ m[s][r] # 0
    <3> HIDE DEF s
    <3> QED
      BY <2>3
  <2>5. Pivot(m, r) = SwapRows(m, r, s)
    BY <1>1, <1>3 DEF Pivot
  <2> HIDE DEF s
  <2>6. SwapRows(m, r, s) = [m EXCEPT ![r] = m[s], ![s] = m[r]]
    BY DEF SwapRows
  <2>7. s \in r .. n /\ s \in 1 .. n /\ s # r
    BY <2>4
  <2>8. SwapRows(m, r, s) \in Matrices(n, w)
    BY <1>1, <2>6, <2>7 DEF Matrices
  <2>9. \A i \in 1 .. n : SwapRows(m, r, s)[i] = IF i = s THEN m[r] ELSE IF i = r THEN m[s] ELSE m[i]
    BY <1>1, <2>6, <2>7
  <2>10. SwapRows(m, r, s)[r] = m[s]
    BY <2>7, <2>9
  <2>11. Swapped(n, w, m, SwapRows(m, r, s), r, s)
    BY <2>8, <2>9 DEF Swapped
  <2> QED
    BY <2>4, <2>5, <2>7, <2>10, <2>11
<1> QED
  BY <1>2, <1>3

\* A change of places changes no solution.
LEMMA PivotKeeps ==
  ASSUME NEW n \in Nat, NEW w \in Nat, NEW m \in Matrices(n, w), NEW r \in 1 .. n
  PROVE  /\ Pivot(m, r) \in Matrices(n, w)
         /\ Triangular(n, m, r - 1) => Triangular(n, Pivot(m, r), r - 1)
         /\ \A x \in Vectors(w) : Solves(n, w, Pivot(m, r), x) <=> Solves(n, w, m, x)
<1> DEFINE p == Pivot(m, r)
<1>0. PICK s \in r .. n : Swapped(n, w, m, p, r, s)
  BY PivotSwaps
<1>1. /\ p \in Matrices(n, w)
      /\ \A i \in 1 .. n : p[i] = IF i = s THEN m[r] ELSE IF i = r THEN m[s] ELSE m[i]
  BY <1>0 DEF Swapped
<1> HIDE DEF p
<1>2. s \in 1 .. n
  OBVIOUS
<1>3. ASSUME Triangular(n, m, r - 1) PROVE Triangular(n, p, r - 1)
  <2> SUFFICES ASSUME NEW j \in 1 .. r - 1
               PROVE  p[j][j] = 1 /\ \A i \in j + 1 .. n : p[i][j] = 0
    BY DEF Triangular
  <2>1. m[j][j] = 1 /\ \A i \in j + 1 .. n : m[i][j] = 0
    BY <1>3 DEF Triangular
  <2>2. p[j] = m[j]
    <3>1. j \in 1 .. n /\ j # s /\ j # r
      OBVIOUS
    <3> QED
      BY <1>1, <3>1
  <2>3. ASSUME NEW i \in j + 1 .. n PROVE p[i][j] = 0
    <3>1. i \in 1 .. n /\ s \in j + 1 .. n /\ r \in j + 1 .. n
      OBVIOUS
    <3>2. m[i][j] = 0 /\ m[s][j] = 0 /\ m[r][j] = 0
      BY <2>1, <3>1
    <3> QED
      BY <1>1, <3>1, <3>2
  <2> QED
    BY <2>1, <2>2, <2>3
<1>4. ASSUME NEW x \in Vectors(w) PROVE Solves(n, w, p, x) <=> Solves(n, w, m, x)
  <2>1. ASSUME Solves(n, w, m, x) PROVE Solves(n, w, p, x)
    <3>1. \A i \in 1 .. n : Dot(w, m[i], x) = 0
      BY <2>1 DEF Solves
    <3> SUFFICES ASSUME NEW i \in 1 .. n PROVE Dot(w, p[i], x) = 0
      BY DEF Solves
    <3>2. p[i] \in {m[r], m[s], m[i]}
      BY <1>1
    <3> QED
      BY <1>2, <3>1, <3>2
  <2>2. ASSUME Solves(n, w, p, x) PROVE Solves(n, w, m, x)
    <3>1. \A i \in 1 .. n : Dot(w, p[i], x) = 0
      BY <2>2 DEF Solves
    <3> SUFFICES ASSUME NEW i \in 1 .. n PROVE Dot(w, m[i], x) = 0
      BY DEF Solves
    <3>2. m[i] \in {p[r], p[s], p[i]}
      <4>1. p[s] = m[r]
        BY <1>1, <1>2
      <4>2. p[r] = m[s]
        BY <1>1, <1>2
      <4>3. i # s /\ i # r => p[i] = m[i]
        BY <1>1
      <4> QED
        BY <4>1, <4>2, <4>3
    <3> QED
      BY <1>2, <3>1, <3>2
  <2> QED
    BY <2>1, <2>2
<1> QED
  BY <1>1, <1>3, <1>4 DEF p

\* A round of the first loop.
LEMMA LowerRound ==
  ASSUME NEW n \in Nat, NEW w \in Nat, n <= w, NEW m \in Matrices(n, w), NEW r \in 1 .. n,
         Pivot(m, r)[r][r] # 0
  PROVE  /\ Lower(m, r) \in Matrices(n, w) /\ Lower(m, r) # Empty
         /\ Triangular(n, m, r - 1) => Triangular(n, Lower(m, r), r)
         /\ \A x \in Vectors(w) : Solves(n, w, Lower(m, r), x) <=> Solves(n, w, m, x)
<1> DEFINE p == Pivot(m, r)
           c == galDivide(1, p[r][r])
           row == galMulSlice(c, p[r])
           q == Lower(m, r)
<1>1. m # Empty
  <2>1. DOMAIN m = 1 .. n /\ 1 \in 1 .. n
    BY MatrixRows
  <2> QED
    BY <2>1 DEF Empty
<1>2. /\ p \in Matrices(n, w)
      /\ Triangular(n, m, r - 1) => Triangular(n, p, r - 1)
      /\ \A x \in Vectors(w) : Solves(n, w, p, x) <=> Solves(n, w, m, x)
  BY PivotKeeps
<1>3. /\ Len(p) = n /\ \A i \in 1 .. n : p[i] \in Vectors(w)
      /\ \A i \in 1 .. n, j \in 1 .. w : p[i][j] \in Field
  <2> HIDE DEF p
  <2> QED
    BY <1>2, MatrixRows
<1>4. q = [i \in 1 .. n |->
             IF i < r THEN p[i] ELSE IF i = r THEN row ELSE galMulSliceXor(p[i][r], row, p[i])]
  BY <1>1, <1>3 DEF Lower
<1>5. r \in 1 .. w /\ \A j \in 1 .. r : j \in 1 .. w
  OBVIOUS
<1>6. p[r][r] \in Field \ {0} /\ p[r] \in Vectors(w)
  BY <1>3, <1>5
<1> HIDE DEF p
<1>7. c \in Field \ {0} /\ c ** p[r][r] = 1
  BY <1>6, Inverses DEF **
<1> HIDE DEF c
<1>8. /\ row \in Vectors(w) /\ \A x \in Vectors(w) : Dot(w, row, x) = c ** Dot(w, p[r], x)
      /\ \A j \in 1 .. w : row[j] = c ** p[r][j]
  <2>1. row \in Vectors(w) /\ \A x \in Vectors(w) : Dot(w, row, x) = c ** Dot(w, p[r], x)
    BY <1>6, <1>7, DotScaled
  <2>2. \A j \in 1 .. w : row[j] = c ** p[r][j]
    BY <1>6 DEF galMulSlice, **, Vectors
  <2> QED
    BY <2>1, <2>2
<1> HIDE DEF row
<1>9. ASSUME NEW i \in r + 1 .. n
      PROVE  /\ q[i] = galMulSliceXor(p[i][r], row, p[i]) /\ q[i] \in Vectors(w)
             /\ \A x \in Vectors(w) : Dot(w, q[i], x) = Dot(w, p[i], x) ++ (p[i][r] ** Dot(w, row, x))
             /\ \A j \in 1 .. w : q[i][j] = p[i][j] ++ (p[i][r] ** row[j])
  <2>1. i \in 1 .. n /\ ~ (i < r) /\ i # r
    OBVIOUS
  <2>2. q[i] = galMulSliceXor(p[i][r], row, p[i])
    BY <1>4, <2>1
  <2>3. p[i] \in Vectors(w) /\ p[i][r] \in Field
    BY <1>3, <1>5, <2>1
  <2>4. /\ galMulSliceXor(p[i][r], row, p[i]) \in Vectors(w)
        /\ \A x \in Vectors(w) :
             Dot(w, galMulSliceXor(p[i][r], row, p[i]), x) = Dot(w, p[i], x) ++ (p[i][r] ** Dot(w, row, x))
    <3>1. PICK u \in Vectors(w), a \in Field : u = p[i] /\ a = p[i][r]
      BY <2>3
    <3>2. \A x \in Vectors(w) :
            /\ galMulSliceXor(a, row, u) \in Vectors(w)
            /\ Dot(w, galMulSliceXor(a, row, u), x) = Dot(w, u, x) ++ (a ** Dot(w, row, x))
      BY <1>8, DotAdded
    <3> QED
      BY <1>8, <3>1, <3>2
  <2>5. \A j \in 1 .. w : galMulSliceXor(p[i][r], row, p[i])[j] = p[i][j] ++ (p[i][r] ** row[j])
    BY <1>8 DEF galMulSliceXor, ++, **, Vectors
  <2> QED
    BY <2>2, <2>4, <2>5
<1>10. q[r] = row /\ \A i \in 1 .. r - 1 : q[i] = p[i] /\ i \in 1 .. n
  BY <1>4
<1>11. q \in Matrices(n, w) /\ q # Empty
  <2>1. ASSUME NEW i \in 1 .. n PROVE q[i] \in Vectors(w)
    <3>1. i \in r + 1 .. n \/ i = r \/ i \in 1 .. r - 1
      OBVIOUS
    <3> HIDE DEF q
    <3> QED
      BY <1>3, <1>8, <1>9, <1>10, <3>1
  <2>2. DOMAIN q = 1 .. n /\ 1 \in 1 .. n /\ q = [i \in 1 .. n |-> q[i]]
    BY <1>4
  <2>3. q # Empty
    BY <2>2 DEF Empty
  <2> HIDE DEF q
  <2>4. q \in Matrices(n, w)
    BY <2>1, <2>2 DEF Matrices
  <2> QED
    BY <2>3, <2>4
<1> HIDE DEF q
<1>12. ASSUME Triangular(n, m, r - 1) PROVE Triangular(n, q, r)
  <2>0. Triangular(n, p, r - 1)
    BY <1>2, <1>12
  <2> SUFFICES ASSUME NEW j \in 1 .. r PROVE q[j][j] = 1 /\ \A i \in j + 1 .. n : q[i][j] = 0
    BY DEF Triangular
  <2>1. CASE j = r
    <3>1. q[r][r] = 1
      BY <1>5, <1>7, <1>8, <1>10
    <3>2. ASSUME NEW i \in r + 1 .. n PROVE q[i][r] = 0
      <4>1. q[i][r] = p[i][r] ++ (p[i][r] ** row[r])
        BY <1>5, <1>9
      <4>2. row[r] = 1 /\ i \in 1 .. n
        BY <3>1, <1>10
      <4>3. p[i][r] \in Field
        BY <1>3, <1>5, <4>2
      <4>4. p[i][r] ** 1 = p[i][r] /\ p[i][r] ++ p[i][r] = 0
        BY <4>3, Laws
      <4> QED
        BY <4>1, <4>2, <4>4
    <3> QED
      BY <2>1, <3>1, <3>2
  <2>2. CASE j # r
    <3>1. j \in 1 .. r - 1 /\ r \in j + 1 .. n /\ j \in 1 .. w
      BY <2>2
    <3>2. p[j][j] = 1 /\ \A i \in j + 1 .. n : p[i][j] = 0
      BY <2>0, <3>1 DEF Triangular
    <3>3. q[j][j] = 1
      BY <1>10, <3>1, <3>2
    <3>4. row[j] = 0
      <4>1. c ** 0 = 0
        BY <1>7, Laws
      <4> QED
        BY <1>8, <3>1, <3>2, <4>1
    <3>5. ASSUME NEW i \in j + 1 .. n PROVE q[i][j] = 0
      <4>1. p[i][j] = 0
        BY <3>2
      <4>2. CASE i < r
        BY <1>10, <4>1, <4>2
      <4>3. CASE i = r
        BY <1>10, <3>4, <4>3
      <4>4. CASE i > r
        <5>1. i \in r + 1 .. n /\ i \in 1 .. n
          BY <4>4
        <5>2. q[i][j] = 0 ++ (p[i][r] ** 0)
          BY <1>9, <3>1, <3>4, <4>1, <5>1
        <5>3. p[i][r] \in Field
          BY <1>3, <1>5, <5>1
        <5>4. p[i][r] ** 0 = 0 /\ 0 ++ 0 = 0
          BY <5>3, Laws
        <5> QED
          BY <5>2, <5>4
      <4> QED
        BY <4>2, <4>3, <4>4
    <3> QED
      BY <3>3, <3>5
  <2> QED
    BY <2>1, <2>2
<1>13. ASSUME NEW x \in Vectors(w) PROVE Solves(n, w, q, x) <=> Solves(n, w, p, x)
  <2>1. \A i \in 1 .. n : Dot(w, p[i], x) \in Field
    BY <1>3, DotType
  <2>2. Dot(w, row, x) = 0 <=> Dot(w, p[r], x) = 0
    <3>1. c ** 0 = 0
      BY <1>7, Laws
    <3>2. Dot(w, row, x) = c ** Dot(w, p[r], x)
      BY <1>8
    <3>3. Dot(w, p[r], x) \in Field
      BY <2>1
    <3>4. c ** Dot(w, p[r], x) = 0 => Dot(w, p[r], x) = 0
      BY <1>7, <3>3, NoDivisors
    <3> QED
      BY <3>1, <3>2, <3>4
  <2>3. ASSUME NEW i \in r + 1 .. n, Dot(w, row, x) = 0
        PROVE  Dot(w, q[i], x) = Dot(w, p[i], x)
    <3>1. Dot(w, q[i], x) = Dot(w, p[i], x) ++ (p[i][r] ** 0)
      BY <1>9, <2>3
    <3>2. p[i][r] \in Field /\ Dot(w, p[i], x) \in Field
      BY <1>3, <1>5, <2>1
    <3>3. p[i][r] ** 0 = 0 /\ Dot(w, p[i], x) ++ 0 = Dot(w, p[i], x)
      BY <3>2, Laws
    <3> QED
      BY <3>1, <3>3
  <2>4. Dot(w, q[r], x) = 0 <=> Dot(w, p[r], x) = 0
    BY <1>10, <2>2
  <2>5. ASSUME Dot(w, p[r], x) = 0, NEW i \in 1 .. n
        PROVE  Dot(w, q[i], x) = 0 <=> Dot(w, p[i], x) = 0
    <3>1. i \in r + 1 .. n \/ i = r \/ i \in 1 .. r - 1
      OBVIOUS
    <3>2. Dot(w, row, x) = 0
      BY <2>2, <2>5
    <3> QED
      BY <1>10, <2>3, <2>4, <3>1, <3>2
  <2>6. r \in 1 .. n
    OBVIOUS
  <2> QED
    BY <2>4, <2>5, <2>6 DEF Solves
<1> QED
  BY <1>2, <1>11, <1>12, <1>13 DEF q

\* A round of the second loop.
LEMMA UpperRound ==
  ASSUME NEW n \in Nat, NEW w \in Nat, n <= w, NEW m \in Matrices(n, w), NEW d \in 1 .. n
  PROVE  /\ Upper(m, d) \in Matrices(n, w)
         /\ Triangular(n, m, n) /\ Cleared(m, d - 1)
              => Triangular(n, Upper(m, d), n) /\ Cleared(Upper(m, d), d)
         /\ \A x \in Vectors(w) : Solves(n, w, Upper(m, d), x) <=> Solves(n, w, m, x)
<1> DEFINE q == Upper(m, d)
<1>1. /\ Len(m) = n /\ \A i \in 1 .. n : m[i] \in Vectors(w)
      /\ \A i \in 1 .. n, j \in 1 .. w : m[i][j] \in Field
  BY MatrixRows
<1>2. q = [i \in 1 .. n |-> IF i < d THEN galMulSliceXor(m[i][d], m[d], m[i]) ELSE m[i]]
  BY <1>1 DEF Upper
<1>3. d \in 1 .. w /\ \A j \in 1 .. n : j \in 1 .. w
  OBVIOUS
<1>4. ASSUME NEW i \in 1 .. d - 1
      PROVE  /\ i \in 1 .. n /\ q[i] \in Vectors(w)
             /\ \A x \in Vectors(w) : Dot(w, q[i], x) = Dot(w, m[i], x) ++ (m[i][d] ** Dot(w, m[d], x))
             /\ \A j \in 1 .. w : q[i][j] = m[i][j] ++ (m[i][d] ** m[d][j])
  <2>1. i \in 1 .. n /\ i < d
    OBVIOUS
  <2>2. q[i] = galMulSliceXor(m[i][d], m[d], m[i])
    BY <1>2, <2>1
  <2>3. m[i] \in Vectors(w) /\ m[i][d] \in Field /\ m[d] \in Vectors(w)
    BY <1>1, <1>3, <2>1
  <2>4. /\ galMulSliceXor(m[i][d], m[d], m[i]) \in Vectors(w)
        /\ \A x \in Vectors(w) :
             Dot(w, galMulSliceXor(m[i][d], m[d], m[i]), x) = Dot(w, m[i], x) ++ (m[i][d] ** Dot(w, m[d], x))
    <3>1. PICK u \in Vectors(w), v \in Vectors(w), a \in Field : u = m[i] /\ v = m[d] /\ a = m[i][d]
      BY <2>3
    <3>2. \A x \in Vectors(w) :
            /\ galMulSliceXor(a, v, u) \in Vectors(w)
            /\ Dot(w, galMulSliceXor(a, v, u), x) = Dot(w, u, x) ++ (a ** Dot(w, v, x))
      BY DotAdded
    <3>3. Zero(w) \in Vectors(w)
      BY SpecialVectors
    <3> QED
      BY <3>1, <3>2, <3>3
  <2>5. \A j \in 1 .. w : galMulSliceXor(m[i][d], m[d], m[i])[j] = m[i][j] ++ (m[i][d] ** m[d][j])
    BY <2>3 DEF galMulSliceXor, ++, **, Vectors
  <2> QED
    BY <2>1, <2>2, <2>4, <2>5
<1>5. \A i \in d .. n : q[i] = m[i] /\ i \in 1 .. n
  BY <1>2
<1>6. q \in Matrices(n, w)
  <2>1. ASSUME NEW i \in 1 .. n PROVE q[i] \in Vectors(w)
    <3>1. i \in d .. n \/ i \in 1 .. d - 1
      OBVIOUS
    <3> HIDE DEF q
    <3> QED
      BY <1>1, <1>4, <1>5, <3>1
  <2>2. q = [i \in 1 .. n |-> q[i]]
    BY <1>2
  <2> HIDE DEF q
  <2> QED
    BY <2>1, <2>2 DEF Matrices
<1> HIDE DEF q
<1>7. ASSUME Triangular(n, m, n), Cleared(m, d - 1)
      PROVE  Triangular(n, q, n) /\ Cleared(q, d)
  <2>1. \A j \in 1 .. n : m[j][j] = 1 /\ \A i \in j + 1 .. n : m[i][j] = 0
    BY <1>7 DEF Triangular
  <2>2. ASSUME NEW i \in 1 .. d - 1, NEW j \in 1 .. d - 1
        PROVE  q[i][j] = m[i][j]
    <3>1. d \in j + 1 .. n /\ j \in 1 .. n /\ j \in 1 .. w
      OBVIOUS
    <3>2. q[i][j] = m[i][j] ++ (m[i][d] ** 0)
      BY <1>4, <2>1, <3>1
    <3>3. m[i][j] \in Field /\ m[i][d] \in Field
      BY <1>1, <1>3, <1>4, <3>1
    <3>4. m[i][d] ** 0 = 0 /\ m[i][j] ++ 0 = m[i][j]
      BY <3>3, Laws
    <3> QED
      BY <3>2, <3>4
  <2>3. Triangular(n, q, n)
    <3> SUFFICES ASSUME NEW j \in 1 .. n PROVE q[j][j] = 1 /\ \A i \in j + 1 .. n : q[i][j] = 0
      BY DEF Triangular
    <3>1. q[j][j] = 1
      <4>1. CASE j \in d .. n
        BY <1>5, <2>1, <4>1
      <4>2. CASE j \in 1 .. d - 1
        BY <2>1, <2>2, <4>2
      <4> QED
        BY <4>1, <4>2
    <3>2. ASSUME NEW i \in j + 1 .. n PROVE q[i][j] = 0
      <4>1. CASE i \in d .. n
        BY <1>5, <2>1, <4>1
      <4>2. CASE i \in 1 .. d - 1
        <5>1. j \in 1 .. d - 1
          BY <4>2
        <5> QED
          BY <2>1, <2>2, <4>2, <5>1
      <4> QED
        BY <4>1, <4>2
    <3> QED
      BY <3>1, <3>2
  <2>4. Cleared(q, d)
    <3> SUFFICES ASSUME NEW j \in 1 .. d, NEW i \in 1 .. j - 1 PROVE q[i][j] = 0
      BY DEF Cleared
    <3>1. i \in 1 .. d - 1
      OBVIOUS
    <3>2. CASE j = d
      <4>1. q[i][d] = m[i][d] ++ (m[i][d] ** 1)
        BY <1>3, <1>4, <2>1, <3>1
      <4>2. m[i][d] \in Field
        BY <1>1, <1>3, <1>4, <3>1
      <4>3. m[i][d] ** 1 = m[i][d] /\ m[i][d] ++ m[i][d] = 0
        BY <4>2, Laws
      <4> QED
        BY <3>2, <4>1, <4>3
    <3>3. CASE j # d
      <4>1. j \in 1 .. d - 1
        BY <3>3
      <4>2. m[i][j] = 0
        BY <1>7, <4>1 DEF Cleared
      <4> QED
        BY <2>2, <3>1, <4>1, <4>2
    <3> QED
      BY <3>2, <3>3
  <2> QED
    BY <2>3, <2>4
<1>8. ASSUME NEW x \in Vectors(w) PROVE Solves(n, w, q, x) <=> Solves(n, w, m, x)
  <2>1. Dot(w, q[d], x) = Dot(w, m[d], x)
    BY <1>5
  <2>2. ASSUME Dot(w, m[d], x) = 0, NEW i \in 1 .. n
        PROVE  Dot(w, q[i], x) = Dot(w, m[i], x)
    <3>1. CASE i \in d .. n
      BY <1>5, <3>1
    <3>2. CASE i \in 1 .. d - 1
      <4>1. Dot(w, q[i], x) = Dot(w, m[i], x) ++ (m[i][d] ** 0)
        BY <1>4, <2>2, <3>2
      <4>2. m[i][d] \in Field /\ Dot(w, m[i], x) \in Field
        BY <1>1, <1>3, DotType
      <4>3. m[i][d] ** 0 = 0 /\ Dot(w, m[i], x) ++ 0 = Dot(w, m[i], x)
        BY <4>2, Laws
      <4> QED
        BY <4>1, <4>3
    <3> QED
      BY <3>1, <3>2
  <2> QED
    BY <2>1, <2>2 DEF Solves
<1> QED
  BY <1>6, <1>7, <1>8 DEF q

\* What the rounds of the two loops make of m, which has n rows.
IsElimination(n, m, s) ==
  s = [k \in 0 .. 2 * n |->
         IF k = 0 THEN m
         ELSE IF k <= n THEN Lower(s[k - 1], k) ELSE Upper(s[k - 1], k - n)]

\* A matrix without a pivot ends the first loop.
LEMMA LowerFails ==
  ASSUME NEW n \in Nat, NEW w \in Nat, n <= w, NEW m \in Matrices(n, w), NEW r \in 1 .. n
  PROVE  /\ Lower(Empty, r) = Empty
         /\ Lower(m, r) \in Matrices(n, w) \cup {Empty}
         /\ Lower(m, r) = Empty => Pivot(m, r)[r][r] = 0
<1>1. Lower(Empty, r) = Empty
  BY DEF Lower
<1>2. CASE Pivot(m, r)[r][r] = 0
  <2>1. Lower(m, r) = Empty
    BY <1>2 DEF Lower
  <2> QED
    BY <1>1, <1>2, <2>1
<1>3. CASE Pivot(m, r)[r][r] # 0
  <2>1. Lower(m, r) \in Matrices(n, w) /\ Lower(m, r) # Empty
    BY <1>3, LowerRound
  <2> QED
    BY <1>1, <2>1
<1> QED
  BY <1>2, <1>3

\* A matrix that the first loop gave up is left alone by the second.
LEMMA UpperLeaves == ASSUME NEW d PROVE Upper(Empty, d) = Empty
<1>1. Len(Empty) = 0 /\ 1 .. 0 = {}
  BY DEF Empty
<1>2. Upper(Empty, d) = [i \in {} |->
        IF i < d THEN galMulSliceXor(Empty[i][d], Empty[d], Empty[i]) ELSE Empty[i]]
  BY <1>1, Zenon DEF Upper
<1>3. Empty = [i \in {} |->
        IF i < d THEN galMulSliceXor(Empty[i][d], Empty[d], Empty[i]) ELSE Empty[i]]
  BY DEF Empty
<1> QED
  BY <1>2, <1>3, Zenon

\* The rounds exist, and the elimination ends with the last of them.
LEMMA Rounds ==
  ASSUME NEW n \in Nat, NEW w \in Nat, n <= w, NEW m \in Matrices(n, w)
  PROVE  \E h \in [0 .. 2 * n -> Matrices(n, w) \cup {Empty}] :
           /\ h[0] = m /\ \A k \in 1 .. n : h[k] = Lower(h[k - 1], k)
           /\ \A d \in 1 .. n : h[n + d] = Upper(h[n + d - 1], d)
           /\ gaussianElimination(m) = h[2 * n]
<1> DEFINE X == Matrices(n, w) \cup {Empty}
           round(k, q) == IF k <= n THEN Lower(q, k) ELSE Upper(q, k - n)
           step == [k \in 1 .. 2 * n |-> [q \in X |-> round(k, q)]]
           h == CHOOSE s : IsElimination(n, m, s)
<1>1. \A k \in 1 .. 2 * n, q \in X : round(k, q) \in X
  <2> SUFFICES ASSUME NEW k \in 1 .. 2 * n, NEW q \in X PROVE round(k, q) \in X
    OBVIOUS
  <2>1. CASE k <= n
    <3>1. k \in 1 .. n
      BY <2>1
    <3> QED
      BY <2>1, <3>1, LowerFails
  <2>2. CASE ~ (k <= n)
    <3>1. k - n \in 1 .. n
      BY <2>2
    <3>2. q = Empty \/ q \in Matrices(n, w)
      OBVIOUS
    <3>3. Upper(q, k - n) \in X
      BY <3>1, <3>2, UpperRound, UpperLeaves
    <3> QED
      BY <2>2, <3>3
  <2> QED
    BY <2>1, <2>2
<1>2. step \in [1 .. 2 * n -> [X -> X]] /\ m \in X /\ 2 * n \in Nat
  BY <1>1
<1> HIDE DEF round
<1>3. PICK g \in [0 .. 2 * n -> X] : g[0] = m /\ \A k \in 1 .. 2 * n : g[k] = step[k][g[k - 1]]
  <2> HIDE DEF X, step, h
  <2>1. \A N \in Nat, b \in X : \A s \in [1 .. N -> [X -> X]] :
          \E g \in [0 .. N -> X] : g[0] = b /\ \A i \in 1 .. N : g[i] = s[i][g[i - 1]]
    BY Recursion
  <2> QED
    BY <1>2, <2>1, Zenon
<1>4. ASSUME NEW k \in 1 .. 2 * n PROVE g[k] = round(k, g[k - 1])
  <2>1. k - 1 \in 0 .. 2 * n
    OBVIOUS
  <2>2. g[k - 1] \in X
    BY <2>1
  <2> QED
    BY <1>3, <2>2
<1> HIDE DEF X, step
<1>5. IsElimination(n, m, g)
  <2>1. ASSUME NEW k \in 0 .. 2 * n
        PROVE  g[k] = IF k = 0 THEN m
                      ELSE IF k <= n THEN Lower(g[k - 1], k) ELSE Upper(g[k - 1], k - n)
    <3>1. k = 0 \/ k \in 1 .. 2 * n
      OBVIOUS
    <3> QED
      BY <1>3, <1>4, <3>1 DEF round
  <2>2. g = [k \in 0 .. 2 * n |-> g[k]]
    BY <1>3
  <2> QED
    BY <2>1, <2>2 DEF IsElimination
<1>6. IsElimination(n, m, h)
  BY <1>5, Zenon
<1>7. gaussianElimination(m) = h[2 * n]
  <2>1. Len(m) = n
    BY MatrixRows
  <2> QED
    BY <2>1 DEF gaussianElimination, IsElimination
<1> HIDE DEF h
<1>8. h = [k \in 0 .. 2 * n |-> h[k]] /\ h[0] = m /\ \A k \in 1 .. 2 * n : h[k] = round(k, h[k - 1])
  <2>1. h = [k \in 0 .. 2 * n |-> h[k]]
    BY <1>6 DEF IsElimination
  <2>2. \A k \in 0 .. 2 * n :
          h[k] = IF k = 0 THEN m
                 ELSE IF k <= n THEN Lower(h[k - 1], k) ELSE Upper(h[k - 1], k - n)
    BY <1>6 DEF IsElimination
  <2>3. ASSUME NEW k \in 1 .. 2 * n PROVE h[k] = round(k, h[k - 1])
    <3>1. k \in 0 .. 2 * n /\ k # 0
      OBVIOUS
    <3> QED
      BY <2>2, <3>1 DEF round
  <2>4. h[0] = m
    BY <1>2, <2>2
  <2> QED
    BY <2>1, <2>3, <2>4
<1>9. h \in [0 .. 2 * n -> X]
  <2> DEFINE S == {k \in Nat : k <= 2 * n => h[k] \in X}
  <2>1. 0 \in S
    BY <1>2, <1>8
  <2>2. ASSUME NEW k \in Nat, k \in S PROVE k + 1 \in S
    <3> SUFFICES ASSUME k + 1 <= 2 * n PROVE h[k + 1] \in X
      OBVIOUS
    <3>1. k + 1 \in 1 .. 2 * n /\ (k + 1) - 1 = k /\ h[k] \in X
      BY <2>2
    <3> QED
      BY <1>1, <1>8, <3>1
  <2> HIDE DEF S
  <2>3. \A k \in Nat : k \in S
    BY <2>1, <2>2, Induction
  <2>4. \A k \in 0 .. 2 * n : h[k] \in X
    BY <2>3 DEF S
  <2> QED
    BY <1>8, <2>4
<1>10. ASSUME NEW k \in 1 .. n PROVE h[k] = Lower(h[k - 1], k)
  <2>1. k \in 1 .. 2 * n /\ k <= n
    OBVIOUS
  <2> QED
    BY <1>8, <2>1 DEF round
<1>11. ASSUME NEW d \in 1 .. n PROVE h[n + d] = Upper(h[n + d - 1], d)
  <2>1. n + d \in 1 .. 2 * n /\ ~ (n + d <= n) /\ (n + d) - n = d
    OBVIOUS
  <2>2. PICK k \in 1 .. 2 * n : k = n + d
    BY <2>1
  <2>3. h[k] = round(k, h[k - 1])
    BY <1>8
  <2> QED
    BY <2>1, <2>2, <2>3 DEF round
<1> QED
  BY <1>7, <1>8, <1>9, <1>10, <1>11 DEF X

\* The two loops, one after the other: f is the first one, g the second.
LEMMA Loops ==
  ASSUME NEW n \in Nat, NEW w \in Nat, n <= w, NEW m \in Matrices(n, w)
  PROVE  \E f, g \in [0 .. n -> Matrices(n, w) \cup {Empty}] :
           /\ f[0] = m /\ \A r \in 1 .. n : f[r] = Lower(f[r - 1], r)
           /\ g[0] = f[n] /\ \A d \in 1 .. n : g[d] = Upper(g[d - 1], d)
           /\ f[n] = Empty => g[n] = Empty
           /\ f[n] # Empty => g \in [0 .. n -> Matrices(n, w)]
           /\ gaussianElimination(m) = g[n]
<1>1. PICK h \in [0 .. 2 * n -> Matrices(n, w) \cup {Empty}] :
        /\ h[0] = m /\ \A k \in 1 .. n : h[k] = Lower(h[k - 1], k)
        /\ \A d \in 1 .. n : h[n + d] = Upper(h[n + d - 1], d)
        /\ gaussianElimination(m) = h[2 * n]
  BY Rounds
<1> DEFINE X == Matrices(n, w) \cup {Empty}
           f == [r \in 0 .. n |-> h[r]]
           g == [d \in 0 .. n |-> h[n + d]]
<1>2. f \in [0 .. n -> X] /\ g \in [0 .. n -> X]
  <2>1. \A k \in 0 .. n : k \in 0 .. 2 * n /\ n + k \in 0 .. 2 * n
    OBVIOUS
  <2> QED
    BY <1>1, <2>1
<1>3. f[0] = m /\ g[0] = f[n] /\ gaussianElimination(m) = g[n]
  <2>1. 0 \in 0 .. n /\ n \in 0 .. n /\ n + 0 = n /\ n + n = 2 * n
    OBVIOUS
  <2> QED
    BY <1>1, <2>1
<1>4. ASSUME NEW r \in 1 .. n PROVE f[r] = Lower(f[r - 1], r) /\ g[r] = Upper(g[r - 1], r)
  <2>1. r \in 0 .. n /\ r - 1 \in 0 .. n /\ n + (r - 1) = n + r - 1
    OBVIOUS
  <2>2. f[r] = h[r] /\ f[r - 1] = h[r - 1] /\ g[r] = h[n + r] /\ g[r - 1] = h[n + r - 1]
    BY <2>1
  <2> QED
    BY <1>1, <2>2
<1> HIDE DEF f, g
<1>5. ASSUME f[n] = Empty PROVE g[n] = Empty
  <2> DEFINE S == {k \in Nat : k <= n => g[k] = Empty}
  <2>1. 0 \in S
    BY <1>3, <1>5
  <2>2. ASSUME NEW k \in Nat, k \in S PROVE k + 1 \in S
    <3> SUFFICES ASSUME k + 1 <= n PROVE g[k + 1] = Empty
      OBVIOUS
    <3>1. k + 1 \in 1 .. n /\ (k + 1) - 1 = k /\ g[k] = Empty
      BY <2>2
    <3> QED
      BY <1>4, <3>1, UpperLeaves
  <2> HIDE DEF S
  <2>3. n \in S
    BY <2>1, <2>2, Induction
  <2> QED
    BY <2>3 DEF S
<1>6. ASSUME f[n] # Empty PROVE g \in [0 .. n -> Matrices(n, w)]
  <2> DEFINE S == {k \in Nat : k <= n => g[k] \in Matrices(n, w)}
  <2>1. 0 \in S
    <3>1. f[n] \in X
      BY <1>2
    <3> QED
      BY <1>3, <1>6, <3>1
  <2>2. ASSUME NEW k \in Nat, k \in S PROVE k + 1 \in S
    <3> SUFFICES ASSUME k + 1 <= n PROVE g[k + 1] \in Matrices(n, w)
      OBVIOUS
    <3>1. k + 1 \in 1 .. n /\ (k + 1) - 1 = k /\ g[k] \in Matrices(n, w)
      BY <2>2
    <3> QED
      BY <1>4, <3>1, UpperRound
  <2> HIDE DEF S
  <2>3. \A k \in Nat : k \in S
    BY <2>1, <2>2, Induction
  <2>4. \A k \in 0 .. n : g[k] \in Matrices(n, w)
    BY <2>3 DEF S
  <2> QED
    BY <1>2, <2>4
<1> QED
  BY <1>2, <1>3, <1>4, <1>5, <1>6 DEF X

\* What the elimination returns has the identity on the left and the solutions of m.
LEMMA Eliminated ==
  ASSUME NEW n \in Nat, NEW w \in Nat, n <= w, NEW m \in Matrices(n, w),
         gaussianElimination(m) # Empty
  PROVE  /\ gaussianElimination(m) \in Matrices(n, w)
         /\ \A i \in 1 .. n, j \in 1 .. n : gaussianElimination(m)[i][j] = IF i = j THEN 1 ELSE 0
         /\ \A x \in Vectors(w) : Solves(n, w, gaussianElimination(m), x) <=> Solves(n, w, m, x)
<1>1. PICK f \in [0 .. n -> Matrices(n, w) \cup {Empty}],
           g \in [0 .. n -> Matrices(n, w) \cup {Empty}] :
        /\ f[0] = m /\ \A r \in 1 .. n : f[r] = Lower(f[r - 1], r)
        /\ g[0] = f[n] /\ \A d \in 1 .. n : g[d] = Upper(g[d - 1], d)
        /\ f[n] = Empty => g[n] = Empty
        /\ f[n] # Empty => g \in [0 .. n -> Matrices(n, w)]
        /\ gaussianElimination(m) = g[n]
  BY Loops
<1>2. f[0] = m /\ \A r \in 1 .. n : f[r] = Lower(f[r - 1], r)
  BY <1>1
<1>3. f[n] # Empty
  BY <1>1
<1> DEFINE Good(k) == /\ f[k] \in Matrices(n, w) /\ Triangular(n, f[k], k)
                      /\ \A x \in Vectors(w) : Solves(n, w, f[k], x) <=> Solves(n, w, m, x)
           S == {k \in Nat : k <= n /\ f[k] # Empty => Good(k)}
<1>4. Good(n)
  <2>1. 0 \in S
    <3>1. Triangular(n, m, 0)
      BY DEF Triangular
    <3> QED
      BY <1>2, <3>1
  <2>2. ASSUME NEW k \in Nat, k \in S PROVE k + 1 \in S
    <3> SUFFICES ASSUME k + 1 <= n, f[k + 1] # Empty PROVE Good(k + 1)
      OBVIOUS
    <3>1. k + 1 \in 1 .. n /\ (k + 1) - 1 = k /\ k \in 0 .. n /\ k <= n
      OBVIOUS
    <3>2. f[k + 1] = Lower(f[k], k + 1)
      BY <1>2, <3>1
    <3>3. f[k] # Empty /\ Pivot(f[k], k + 1)[k + 1][k + 1] # 0
      BY <3>2 DEF Lower
    <3>4. Good(k)
      BY <2>2, <3>1, <3>3
    <3>5. PICK q \in Matrices(n, w), r \in 1 .. n : q = f[k] /\ r = k + 1
      BY <3>1, <3>4
    <3>6. Triangular(n, q, r - 1) /\ Pivot(q, r)[r][r] # 0
      BY <3>1, <3>3, <3>4, <3>5
    <3>7. /\ Lower(q, r) \in Matrices(n, w) /\ Triangular(n, Lower(q, r), r)
          /\ \A x \in Vectors(w) : Solves(n, w, Lower(q, r), x) <=> Solves(n, w, q, x)
      BY <3>6, LowerRound
    <3> QED
      BY <3>2, <3>4, <3>5, <3>7
  <2> HIDE DEF S
  <2>3. n \in S
    BY <2>1, <2>2, Induction
  <2> QED
    BY <1>3, <2>3 DEF S
<1>5. PICK t \in Matrices(n, w) : t = f[n]
  BY <1>4
<1>6. g[0] = t /\ \A d \in 1 .. n : g[d] = Upper(g[d - 1], d)
  BY <1>1, <1>5
<1>7. gaussianElimination(m) = g[n] /\ g \in [0 .. n -> Matrices(n, w)]
  BY <1>1, <1>3
<1> DEFINE Done(k) == /\ Triangular(n, g[k], n) /\ Cleared(g[k], k)
                      /\ \A x \in Vectors(w) : Solves(n, w, g[k], x) <=> Solves(n, w, m, x)
           T == {k \in Nat : k <= n => Done(k)}
<1>8. Done(n)
  <2>1. 0 \in T
    <3>1. Cleared(t, 0)
      BY DEF Cleared
    <3> QED
      BY <1>4, <1>5, <1>6, <3>1
  <2>2. ASSUME NEW k \in Nat, k \in T PROVE k + 1 \in T
    <3> SUFFICES ASSUME k + 1 <= n PROVE Done(k + 1)
      OBVIOUS
    <3>1. k + 1 \in 1 .. n /\ (k + 1) - 1 = k /\ k \in 0 .. n /\ k <= n
      OBVIOUS
    <3>2. g[k + 1] = Upper(g[k], k + 1)
      BY <1>6, <3>1
    <3>3. Done(k)
      BY <2>2, <3>1
    <3>4. PICK q \in Matrices(n, w), d \in 1 .. n : q = g[k] /\ d = k + 1
      BY <1>7, <3>1
    <3>5. Triangular(n, q, n) /\ Cleared(q, d - 1)
      BY <3>1, <3>3, <3>4
    <3>6. /\ Triangular(n, Upper(q, d), n) /\ Cleared(Upper(q, d), d)
          /\ \A x \in Vectors(w) : Solves(n, w, Upper(q, d), x) <=> Solves(n, w, q, x)
      BY <3>5, UpperRound
    <3> QED
      BY <3>2, <3>3, <3>4, <3>6
  <2> HIDE DEF T
  <2>3. n \in T
    BY <2>1, <2>2, Induction
  <2> QED
    BY <2>3 DEF T
<1>9. ASSUME NEW i \in 1 .. n, NEW j \in 1 .. n PROVE g[n][i][j] = IF i = j THEN 1 ELSE 0
  <2>1. i = j \/ i \in j + 1 .. n \/ i \in 1 .. j - 1
    OBVIOUS
  <2>2. g[n][j][j] = 1 /\ \A l \in j + 1 .. n : g[n][l][j] = 0
    BY <1>8 DEF Triangular
  <2>3. \A l \in 1 .. j - 1 : g[n][l][j] = 0
    BY <1>8 DEF Cleared
  <2> QED
    BY <2>1, <2>2, <2>3
<1>10. gaussianElimination(m) \in Matrices(n, w)
  <2>1. g[n] \in Matrices(n, w)
    BY <1>7
  <2> QED
    BY <1>7, <2>1
<1>11. \A x \in Vectors(w) : Solves(n, w, gaussianElimination(m), x) <=> Solves(n, w, m, x)
  BY <1>7, <1>8
<1> QED
  BY <1>7, <1>9, <1>10, <1>11

\* If there is no pivot, the rows before make a triangle and the column is 0 below them.
LEMMA NotEliminated ==
  ASSUME NEW n \in Nat, NEW w \in Nat, n <= w, NEW m \in Matrices(n, w), n # 0,
         gaussianElimination(m) = Empty
  PROVE  \E r \in 1 .. n, q \in Matrices(n, w) :
           /\ Triangular(n, q, r - 1) /\ \A i \in r .. n : q[i][r] = 0
           /\ \A x \in Vectors(w) : Solves(n, w, q, x) <=> Solves(n, w, m, x)
<1>1. Len(m) = n /\ m # Empty
  <2>1. Len(m) = n
    BY MatrixRows
  <2> QED
    BY <2>1 DEF Empty
<1>2. PICK f \in [0 .. n -> Matrices(n, w) \cup {Empty}] :
        /\ f[0] = m /\ \A r \in 1 .. n : f[r] = Lower(f[r - 1], r)
        /\ f[n] # Empty => gaussianElimination(m) \in Matrices(n, w)
  <2>1. n \in 0 .. n
    OBVIOUS
  <2> QED
    BY <2>1, Loops
<1>3. f[n] = Empty
  <2> SUFFICES ASSUME f[n] # Empty PROVE FALSE
    OBVIOUS
  <2>1. Len(gaussianElimination(m)) = n
    BY <1>2, MatrixRows
  <2> QED
    BY <2>1 DEF Empty
<1> DEFINE Good(k) == /\ f[k] \in Matrices(n, w) /\ Triangular(n, f[k], k)
                      /\ \A x \in Vectors(w) : Solves(n, w, f[k], x) <=> Solves(n, w, m, x)
           Failed == \E r \in 1 .. n, q \in Matrices(n, w) :
                       /\ Triangular(n, q, r - 1) /\ \A i \in r .. n : q[i][r] = 0
                       /\ \A x \in Vectors(w) : Solves(n, w, q, x) <=> Solves(n, w, m, x)
           S == {k \in Nat : k <= n => Good(k) \/ Failed}
<1>4. 0 \in S
  <2>1. Triangular(n, m, 0)
    BY DEF Triangular
  <2> HIDE DEF Failed
  <2> QED
    BY <1>2, <2>1
<1>5. ASSUME NEW k \in Nat, k \in S PROVE k + 1 \in S
  <2> SUFFICES ASSUME k + 1 <= n, ~ Failed PROVE Good(k + 1)
    OBVIOUS
  <2>1. k + 1 \in 1 .. n /\ (k + 1) - 1 = k /\ k \in 0 .. n /\ k <= n
    OBVIOUS
  <2>2. f[k + 1] = Lower(f[k], k + 1)
    BY <1>2, <2>1
  <2>3. Good(k)
    BY <1>5, <2>1
  <2> HIDE DEF Failed
  <2>4. PICK q \in Matrices(n, w), r \in 1 .. n : q = f[k] /\ r = k + 1
    BY <2>1, <2>3
  <2>5. /\ Triangular(n, q, r - 1)
        /\ \A x \in Vectors(w) : Solves(n, w, q, x) <=> Solves(n, w, m, x)
    BY <2>1, <2>3, <2>4
  <2>6. Pivot(q, r)[r][r] # 0
    <3> SUFFICES ASSUME Pivot(q, r)[r][r] = 0 PROVE Failed
      OBVIOUS
    <3>1. \A i \in r .. n : q[i][r] = 0
      BY PivotSwaps
    <3> QED
      BY <2>5, <3>1 DEF Failed
  <2>7. /\ Lower(q, r) \in Matrices(n, w) /\ Triangular(n, Lower(q, r), r)
        /\ \A x \in Vectors(w) : Solves(n, w, Lower(q, r), x) <=> Solves(n, w, q, x)
    BY <2>5, <2>6, LowerRound
  <2> QED
    BY <2>2, <2>4, <2>5, <2>7
<1> HIDE DEF S
<1>6. n \in S
  BY <1>4, <1>5, Induction
<1>7. f[n] \notin Matrices(n, w)
  <2>1. Len(Empty) = 0
    BY DEF Empty
  <2> QED
    BY <1>3, <2>1, MatrixRows
<1> QED
  BY <1>6, <1>7 DEF S

-----------------------------------------------------------------------------
(* The inverse                                                             *)

\* A row and one of the identity, side by side.
LEMMA JoinRows ==
  ASSUME NEW n \in Nat, NEW a \in Vectors(n), NEW b \in Vectors(n)
  PROVE  a \o b = Join(n, a, b)
<1>1. Len(a) = n /\ Len(b) = n /\ a \in Seq(Field) /\ b \in Seq(Field)
  BY Rows DEF Vectors
<1>2. a \o b \in Seq(Field) /\ Len(a \o b) = n + n
  BY <1>1
<1>3. a \o b \in [1 .. n + n -> Field]
  <2>1. a \o b \in [1 .. Len(a \o b) -> Field]
    BY <1>2, LenProperties
  <2> QED
    BY <1>2, <2>1
<1>4. a \o b = [i \in 1 .. n + n |-> (a \o b)[i]]
  BY <1>3
<1>5. \A i \in 1 .. n + n : (a \o b)[i] = IF i <= n THEN a[i] ELSE b[i - n]
  BY <1>1
<1> QED
  BY <1>4, <1>5 DEF Join

\* The rows the elimination works on.
LEMMA Augmented ==
  ASSUME NEW n \in Nat, NEW m \in Matrices(n, n)
  PROVE  /\ Augment(m, identityMatrix(n)) \in Matrices(n, n + n)
         /\ \A i \in 1 .. n : Augment(m, identityMatrix(n))[i] = Join(n, m[i], Unit(n, i))
<1> DEFINE a == Augment(m, identityMatrix(n))
<1>1. Len(m) = n /\ \A i \in 1 .. n : m[i] \in Vectors(n)
  BY MatrixRows
<1>2. ASSUME NEW i \in 1 .. n
      PROVE  /\ m[i] \o identityMatrix(n)[i] = Join(n, m[i], Unit(n, i))
             /\ Join(n, m[i], Unit(n, i)) \in Vectors(n + n)
  <2>1. identityMatrix(n)[i] = Unit(n, i)
    BY DEF identityMatrix, Unit
  <2>2. Unit(n, i) \in Vectors(n)
    BY SpecialVectors
  <2>3. PICK u \in Vectors(n), v \in Vectors(n) : u = m[i] /\ v = Unit(n, i)
    BY <1>1, <2>2
  <2>4. u \o v = Join(n, u, v)
    BY JoinRows
  <2>5. Join(n, u, v) \in Vectors(n + n)
    BY SpecialVectors
  <2> QED
    BY <2>1, <2>3, <2>4, <2>5
<1>3. a = [i \in 1 .. n |-> m[i] \o identityMatrix(n)[i]]
  BY <1>1 DEF Augment
<1>4. a \in Matrices(n, n + n)
  BY <1>2, <1>3 DEF Matrices
<1> QED
  BY <1>2, <1>3, <1>4

\* The solutions of the rows are the pairs of a column and what m makes of it.
LEMMA AugmentedSolves ==
  ASSUME NEW n \in Nat, NEW m \in Matrices(n, n), NEW x \in Vectors(n), NEW y \in Vectors(n)
  PROVE  Solves(n, n + n, Augment(m, identityMatrix(n)), Join(n, x, y))
           <=> \A i \in 1 .. n : Dot(n, m[i], x) = y[i]
<1> DEFINE a == Augment(m, identityMatrix(n))
<1>1. ASSUME NEW i \in 1 .. n
      PROVE  Dot(n + n, a[i], Join(n, x, y)) = 0 <=> Dot(n, m[i], x) = y[i]
  <2>1. a[i] = Join(n, m[i], Unit(n, i)) /\ m[i] \in Vectors(n)
    BY Augmented, MatrixRows
  <2>2. Unit(n, i) \in Vectors(n) /\ 2 * n = n + n
    BY SpecialVectors
  <2>3. Dot(n + n, a[i], Join(n, x, y)) = Dot(n, m[i], x) ++ Dot(n, Unit(n, i), y)
    BY <2>1, <2>2, DotJoin
  <2>4. Dot(n, Unit(n, i), y) = y[i]
    BY DotSpecial
  <2>5. Dot(n, m[i], x) \in Field /\ y[i] \in Field
    BY <2>1, DotType DEF Vectors
  <2> QED
    BY <2>3, <2>4, <2>5, NoSigns
<1> QED
  BY <1>1 DEF Solves

\* The inverse undoes the matrix.
LEMMA Inversion ==
  ASSUME NEW n \in Nat, n # 0, NEW m \in Matrices(n, n), Invert(m) # Empty
  PROVE  /\ Invert(m) \in Matrices(n, n)
         /\ \A x, y \in Vectors(n) : (\A i \in 1 .. n : Dot(n, m[i], x) = y[i])
                                       <=> (\A i \in 1 .. n : Dot(n, Invert(m)[i], y) = x[i])
<1> DEFINE a == Augment(m, identityMatrix(n))
           g == gaussianElimination(a)
           inverse == Invert(m)
<1>1. Len(m) = n /\ Len(m[1]) = n /\ IsSquare(m)
  <2>1. Len(m) = n /\ 1 \in 1 .. n
    BY MatrixRows
  <2>2. Len(m[1]) = n
    BY <2>1, MatrixRows
  <2> QED
    BY <2>1, <2>2 DEF IsSquare
<1>2. a \in Matrices(n, n + n)
  BY Augmented
<1>3. g # Empty /\ inverse = Columns(g, n + 1, 2 * n)
  BY <1>1 DEF Invert
<1> HIDE DEF g
<1>4. /\ g \in Matrices(n, n + n)
      /\ \A i \in 1 .. n, j \in 1 .. n : g[i][j] = IF i = j THEN 1 ELSE 0
      /\ \A x \in Vectors(n + n) : Solves(n, n + n, g, x) <=> Solves(n, n + n, a, x)
  <2> HIDE DEF a
  <2>1. n + n \in Nat /\ n <= n + n
    OBVIOUS
  <2> QED
    BY <1>2, <1>3, <2>1, Eliminated DEF g
<1>5. Len(g) = n /\ \A i \in 1 .. n : g[i] \in Vectors(n + n) /\ Len(g[i]) = n + n
  BY <1>4, MatrixRows
<1>6. inverse = [i \in 1 .. n |-> SubSeq(g[i], n + 1, 2 * n)]
  BY <1>3, <1>5 DEF Columns
<1>7. ASSUME NEW i \in 1 .. n
      PROVE  inverse[i] \in Vectors(n) /\ g[i] = Join(n, Unit(n, i), inverse[i])
  <2>1. inverse[i] = SubSeq(g[i], n + 1, 2 * n)
    BY <1>6
  <2>2. PICK u \in Vectors(n + n) : u = g[i]
    BY <1>5
  <2>3. u \in Seq(Field) /\ Len(u) = n + n
    BY Rows DEF Vectors
  <2>4. SubSeq(u, n + 1, 2 * n) = [k \in 1 .. n |-> u[n + k]]
    <3>1. SubSeq(u, n + 1, 2 * n) = [k \in 1 .. 2 * n - (n + 1) + 1 |-> u[(n + 1) + k - 1]]
      BY <2>3
    <3> QED
      BY <3>1
  <2>5. inverse[i] \in Vectors(n) /\ \A k \in 1 .. n : inverse[i][k] = u[n + k]
    <3> HIDE DEF inverse
    <3>1. inverse[i] = [k \in 1 .. n |-> u[n + k]]
      BY <2>1, <2>2, <2>4
    <3>2. \A k \in 1 .. n : u[n + k] \in Field
      BY DEF Vectors
    <3> QED
      BY <3>1, <3>2 DEF Vectors
  <2>6. \A k \in 1 .. n : u[k] = IF i = k THEN 1 ELSE 0
    BY <1>4, <2>2
  <2> HIDE DEF inverse
  <2>7. u = [k \in 1 .. 2 * n |-> IF k <= n THEN Unit(n, i)[k] ELSE inverse[i][k - n]]
    <3>1. ASSUME NEW k \in 1 .. n + n
          PROVE  u[k] = IF k <= n THEN Unit(n, i)[k] ELSE inverse[i][k - n]
      <4>1. CASE k \in 1 .. n
        BY <2>6, <4>1 DEF Unit
      <4>2. CASE k - n \in 1 .. n
        BY <2>5, <4>2
      <4> QED
        BY <4>1, <4>2
    <3>2. u = [k \in 1 .. n + n |-> u[k]]
      BY DEF Vectors
    <3> QED
      BY <3>1, <3>2
  <2> QED
    BY <2>2, <2>5, <2>7 DEF Join
<1>8. inverse \in Matrices(n, n)
  <2>1. inverse = [i \in 1 .. n |-> inverse[i]]
    BY <1>6
  <2> HIDE DEF inverse
  <2> QED
    BY <1>7, <2>1 DEF Matrices
<1> HIDE DEF inverse, a
<1>9. ASSUME NEW x \in Vectors(n), NEW y \in Vectors(n)
      PROVE  (\A i \in 1 .. n : Dot(n, m[i], x) = y[i])
                <=> (\A i \in 1 .. n : Dot(n, inverse[i], y) = x[i])
  <2>1. Join(n, x, y) \in Vectors(n + n)
    BY SpecialVectors
  <2>2. Solves(n, n + n, a, Join(n, x, y)) <=> \A i \in 1 .. n : Dot(n, m[i], x) = y[i]
    BY AugmentedSolves DEF a
  <2>3. Solves(n, n + n, g, Join(n, x, y)) <=> \A i \in 1 .. n : Dot(n, inverse[i], y) = x[i]
    <3>1. ASSUME NEW i \in 1 .. n
          PROVE  Dot(n + n, g[i], Join(n, x, y)) = 0 <=> Dot(n, inverse[i], y) = x[i]
      <4>1. Unit(n, i) \in Vectors(n) /\ 2 * n = n + n
        BY SpecialVectors
      <4>2. Dot(n + n, g[i], Join(n, x, y)) = Dot(n, Unit(n, i), x) ++ Dot(n, inverse[i], y)
        BY <1>7, <4>1, DotJoin
      <4>3. Dot(n, Unit(n, i), x) = x[i]
        BY DotSpecial
      <4>4. Dot(n, inverse[i], y) \in Field /\ x[i] \in Field
        BY <1>7, DotType DEF Vectors
      <4> QED
        BY <4>2, <4>3, <4>4, NoSigns
    <3> QED
      BY <3>1 DEF Solves
  <2> QED
    BY <1>4, <2>1, <2>2, <2>3
<1> QED
  BY <1>8, <1>9 DEF inverse

\* A matrix that sends nothing but 0 to 0 has an inverse.
LEMMA InverseExists ==
  ASSUME NEW n \in Nat, n # 0, NEW m \in Matrices(n, n),
         \A x \in Vectors(n) : (\A i \in 1 .. n : Dot(n, m[i], x) = 0) => x = Zero(n)
  PROVE  Invert(m) # Empty
<1> DEFINE a == Augment(m, identityMatrix(n))
           w == n + n
<1>1. Len(m) = n /\ IsSquare(m)
  <2>1. Len(m) = n /\ 1 \in 1 .. n
    BY MatrixRows
  <2>2. Len(m[1]) = n
    BY <2>1, MatrixRows
  <2> QED
    BY <2>1, <2>2 DEF IsSquare
<1>2. a \in Matrices(n, w) /\ w \in Nat /\ n <= w
  BY Augmented
<1> HIDE DEF w
<1>3. gaussianElimination(a) # Empty
  <2> SUFFICES ASSUME gaussianElimination(a) = Empty PROVE FALSE
    OBVIOUS
  <2> HIDE DEF a
  <2>1. PICK r \in 1 .. n, q \in Matrices(n, w) :
          /\ Triangular(n, q, r - 1) /\ \A i \in r .. n : q[i][r] = 0
          /\ \A x \in Vectors(w) : Solves(n, w, q, x) <=> Solves(n, w, a, x)
    BY <1>2, NotEliminated
  <2>2. r \in 1 .. w /\ \A i \in 1 .. n : i \in 1 .. w /\ q[i] \in Vectors(w)
    BY <1>2, MatrixRows
  <2> DEFINE Good(d, x) == /\ x[r] = 1 /\ \A k \in r + 1 .. w : x[k] = 0
                           /\ \A i \in r - d .. n : Dot(w, q[i], x) = 0
             S == {d \in Nat : d < r => \E x \in Vectors(w) : Good(d, x)}
  <2>3. 0 \in S
    <3>1. Unit(w, r) \in Vectors(w) /\ Unit(w, r)[r] = 1 /\ \A k \in r + 1 .. w : Unit(w, r)[k] = 0
      <4>1. Unit(w, r) \in Vectors(w)
        BY <1>2, <2>2, SpecialVectors
      <4>2. Unit(w, r)[r] = 1
        BY <2>2 DEF Unit
      <4>3. ASSUME NEW k \in r + 1 .. w PROVE Unit(w, r)[k] = 0
        <5>1. k \in 1 .. w /\ k # r
          BY <1>2
        <5> QED
          BY <5>1 DEF Unit
      <4> QED
        BY <4>1, <4>2, <4>3
    <3>2. ASSUME NEW i \in r .. n PROVE Dot(w, q[i], Unit(w, r)) = 0
      <4>1. i \in 1 .. n /\ q[i][r] = 0
        BY <2>1
      <4>2. PICK u \in Vectors(w) : u = q[i]
        BY <2>2, <4>1
      <4>3. Dot(w, u, Unit(w, r)) = u[r]
        BY <1>2, <2>2, DotSpecial
      <4> QED
        BY <4>1, <4>2, <4>3
    <3> QED
      BY <3>1, <3>2
  <2>4. ASSUME NEW d \in Nat, d \in S PROVE d + 1 \in S
    <3> SUFFICES ASSUME d + 1 < r PROVE \E x \in Vectors(w) : Good(d + 1, x)
      OBVIOUS
    <3>1. PICK x \in Vectors(w) : Good(d, x)
      BY <2>4
    <3> DEFINE k == r - (d + 1)
    <3>2. k \in 1 .. n /\ k \in 1 .. r - 1 /\ k # r /\ k + 1 = r - d
      OBVIOUS
    <3> HIDE DEF k
    <3>3. k \in 1 .. w /\ q[k][k] = 1 /\ \A i \in k + 1 .. n : q[i][k] = 0
      BY <2>1, <2>2, <3>2 DEF Triangular
    <3>4. PICK u \in Vectors(w), c \in Field : u = q[k] /\ c = Dot(w, u, x)
      BY <1>2, <2>2, <3>2, DotType
    <3> DEFINE y == [x EXCEPT ![k] = x[k] ++ c]
    <3>5. y \in Vectors(w)
      BY <1>2, <3>3, DotChanged
    <3>6. y[r] = 1 /\ \A l \in r + 1 .. w : y[l] = 0
      <4>1. \A l \in r .. w : l \in 1 .. w /\ l # k
        BY <3>2
      <4>2. \A l \in r .. w : y[l] = x[l]
        BY <4>1 DEF Vectors
      <4> QED
        BY <2>2, <3>1, <4>2
    <3>7. Dot(w, u, y) = 0
      <4>1. Dot(w, u, y) = Dot(w, u, x) ++ (u[k] ** c)
        BY <1>2, <3>3, DotChanged
      <4>2. u[k] ** c = c /\ c ++ c = 0
        BY <3>3, <3>4, Laws
      <4> QED
        BY <3>4, <4>1, <4>2
    <3>8. ASSUME NEW i \in k + 1 .. n PROVE Dot(w, q[i], y) = 0
      <4>1. i \in 1 .. n /\ q[i][k] = 0 /\ Dot(w, q[i], x) = 0
        BY <3>1, <3>2, <3>3
      <4>2. PICK v \in Vectors(w) : v = q[i]
        BY <2>2, <4>1
      <4>3. Dot(w, v, y) = Dot(w, v, x) ++ (v[k] ** c)
        BY <1>2, <3>3, DotChanged
      <4>4. 0 ** c = 0 /\ 0 ++ 0 = 0
        BY Laws
      <4> QED
        BY <4>1, <4>2, <4>3, <4>4
    <3>9. \A i \in r - (d + 1) .. n : i = k \/ i \in k + 1 .. n
      BY <3>2 DEF k
    <3>10. \A i \in r - (d + 1) .. n : Dot(w, q[i], y) = 0
      <4> HIDE DEF y
      <4> QED
        BY <3>4, <3>7, <3>8, <3>9
    <3> HIDE DEF y
    <3> QED
      BY <3>5, <3>6, <3>10
  <2> HIDE DEF S
  <2>5. PICK x \in Vectors(w) : Good(r - 1, x)
    <3>1. r - 1 \in Nat /\ r - 1 < r
      OBVIOUS
    <3>2. r - 1 \in S
      BY <2>3, <2>4, <3>1, Induction
    <3> QED
      BY <3>1, <3>2 DEF S
  <2>6. Solves(n, w, q, x)
    <3>1. r - (r - 1) = 1
      OBVIOUS
    <3> QED
      BY <2>5, <3>1 DEF Solves
  <2>7. Solves(n, w, a, x)
    BY <2>1, <2>6
  <2> DEFINE y == [k \in 1 .. n |-> x[k]]
  <2>8. y \in Vectors(n) /\ \A k \in 1 .. n : y[k] = x[k]
    BY <2>2 DEF Vectors
  <2>9. x = Join(n, y, Zero(n))
    <3>1. ASSUME NEW k \in 1 .. w PROVE x[k] = IF k <= n THEN y[k] ELSE Zero(n)[k - n]
      <4>1. CASE k \in 1 .. n
        BY <4>1
      <4>2. CASE k - n \in 1 .. n
        <5>1. k \in r + 1 .. w
          BY <4>2 DEF w
        <5> QED
          BY <2>5, <4>2, <5>1 DEF Zero
      <4> QED
        BY <4>1, <4>2 DEF w
    <3>2. x = [k \in 1 .. w |-> x[k]]
      BY DEF Vectors
    <3>3. w = 2 * n
      BY DEF w
    <3> HIDE DEF y
    <3> QED
      BY <3>1, <3>2, <3>3 DEF Join
  <2> HIDE DEF y
  <2>10. Zero(n) \in Vectors(n) /\ \A i \in 1 .. n : Zero(n)[i] = 0
    BY SpecialVectors DEF Zero
  <2>11. \A i \in 1 .. n : Dot(n, m[i], y) = 0
    BY <2>7, <2>8, <2>9, <2>10, AugmentedSolves DEF a, w
  <2>12. y[r] = 0
    BY <2>8, <2>10, <2>11
  <2> QED
    BY <2>5, <2>8, <2>12
<1>4. Invert(m) = Columns(gaussianElimination(a), Len(m) + 1, 2 * Len(m))
  BY <1>1, <1>3 DEF Invert
<1>5. Len(gaussianElimination(a)) = n
  <2> HIDE DEF a
  <2>1. gaussianElimination(a) \in Matrices(n, w)
    BY <1>2, <1>3, Eliminated
  <2> QED
    BY <1>2, <2>1, MatrixRows
<1>6. Len(Invert(m)) = n
  <2>1. Invert(m) = [i \in 1 .. n |-> SubSeq(gaussianElimination(a)[i], Len(m) + 1, 2 * Len(m))]
    <3> HIDE DEF a
    <3> QED
      BY <1>4, <1>5 DEF Columns
  <2> QED
    BY <2>1
<1> QED
  BY <1>6 DEF Empty

-----------------------------------------------------------------------------
(* Polynomials                                                             *)

\* A row of coefficients at a point: c[1] ++ c[2] ** x ++ c[3] ** x ** x ...
PowersOf(n, x) == [k \in 1 .. n |-> galExp(x, k - 1)]
Value(n, c, x) == Dot(n, c, PowersOf(n, x))

\* The powers of a point: 1, and each the point times the one before.
LEMMA PowersType ==
  ASSUME NEW n \in Nat, NEW x \in Field
  PROVE  /\ PowersOf(n, x) \in Vectors(n)
         /\ \A k \in 1 .. n : /\ k = 1 => PowersOf(n, x)[k] = 1
                              /\ k # 1 => PowersOf(n, x)[k] = x ** PowersOf(n, x)[k - 1]
<1>1. \A k \in 1 .. n : galExp(x, k - 1) \in Field
  <2> TAKE k \in 1 .. n
  <2>1. k - 1 \in Nat
    OBVIOUS
  <2> QED
    BY <2>1, Powers
<1>2. ASSUME NEW k \in 1 .. n, k # 1 PROVE galExp(x, k - 1) = x ** galExp(x, (k - 1) - 1)
  <2>1. k - 2 \in Nat /\ (k - 2) + 1 = k - 1 /\ (k - 1) - 1 = k - 2
    BY <1>2
  <2>2. galExp(x, (k - 2) + 1) = galMultiply(x, galExp(x, k - 2))
    BY <2>1, Powers
  <2> QED
    BY <2>1, <2>2 DEF **
<1>3. galExp(x, 0) = 1
  BY Powers
<1>4. PowersOf(n, x) \in Vectors(n)
  BY <1>1 DEF PowersOf, Vectors
<1>5. ASSUME NEW k \in 1 .. n, k # 1 PROVE PowersOf(n, x)[k] = x ** PowersOf(n, x)[k - 1]
  <2>1. k - 1 \in 1 .. n
    BY <1>5
  <2> QED
    BY <1>2, <1>5, <2>1 DEF PowersOf
<1>6. ASSUME NEW k \in 1 .. n, k = 1 PROVE PowersOf(n, x)[k] = 1
  BY <1>3, <1>6 DEF PowersOf
<1> QED
  BY <1>4, <1>5, <1>6

\* The value of a polynomial is an element.
LEMMA ValueType ==
  ASSUME NEW n \in Nat, NEW c \in Vectors(n), NEW x \in Field
  PROVE  Value(n, c, x) \in Field
BY PowersType, DotType DEF Value

\* A polynomial without higher coefficients is its first one.
LEMMA ValueOfConstant ==
  ASSUME NEW n \in Nat, n # 0, NEW c \in Vectors(n), NEW x \in Field,
         \A k \in 2 .. n : c[k] = 0
  PROVE  Value(n, c, x) = c[1]
<1> DEFINE u == PowersOf(n, x)
           t == [k \in 1 .. n |-> c[k] ** u[k]]
<1>1. u \in Vectors(n) /\ 1 \in 1 .. n /\ u[1] = 1
  <2>1. 1 \in 1 .. n
    OBVIOUS
  <2> QED
    BY <2>1, PowersType
<1> HIDE DEF u
<1>2. t \in Vectors(n)
  BY <1>1, DotType
<1>3. ASSUME NEW k \in 1 .. n, k # 1 PROVE t[k] = 0
  <2>1. c[k] = 0 /\ u[k] \in Field
    <3>1. k \in 2 .. n
      BY <1>3
    <3> QED
      BY <1>1, <3>1 DEF Vectors
  <2>2. 0 ** u[k] = 0
    BY <2>1, Laws
  <2> QED
    BY <2>1, <2>2
<1>4. t[1] = c[1]
  <2>1. c[1] \in Field
    BY <1>1 DEF Vectors
  <2>2. c[1] ** 1 = c[1]
    BY <2>1, Laws
  <2> QED
    BY <1>1, <2>2
<1>5. Value(n, c, x) = SumTo(n, t)
  BY DEF Value, Dot, u
<1> HIDE DEF t
<1> QED
  BY <1>1, <1>2, <1>3, <1>4, <1>5, SumOfOne

\* A polynomial is its first coefficient and the point times the others.
LEMMA Horner ==
  ASSUME NEW n \in Nat, NEW c \in Vectors(n + 1), NEW x \in Field
  PROVE  /\ [k \in 1 .. n |-> c[k + 1]] \in Vectors(n)
         /\ Value(n + 1, c, x) = c[1] ++ (x ** Value(n, [k \in 1 .. n |-> c[k + 1]], x))
<1> DEFINE d == [k \in 1 .. n |-> c[k + 1]]
           p == PowersOf(n + 1, x)
           v == [k \in 1 .. n + 1 |-> c[k] ** p[k]]
           t == [k \in 1 .. 1 |-> v[1]]
           q == PowersOf(n, x)
           s == [k \in 1 .. n |-> d[k] ** q[k]]
           u == [k \in 1 .. n |-> v[k + 1]]
<1>1. /\ \A k \in 1 .. n : k + 1 \in 1 .. n + 1
      /\ 1 \in 1 .. n + 1 /\ n + 1 \in Nat /\ 1 + n = n + 1
  OBVIOUS
<1>2. d \in Vectors(n)
  BY <1>1 DEF Vectors
<1>3. /\ p \in Vectors(n + 1) /\ p[1] = 1 /\ q \in Vectors(n)
      /\ \A k \in 1 .. n : p[k + 1] = x ** p[k]
  <2>1. p \in Vectors(n + 1) /\ p[1] = 1 /\ q \in Vectors(n)
    BY <1>1, PowersType
  <2>2. ASSUME NEW k \in 1 .. n PROVE p[k + 1] = x ** p[k]
    <3>1. k + 1 \in 1 .. n + 1 /\ k + 1 # 1 /\ (k + 1) - 1 = k
      OBVIOUS
    <3> QED
      BY <1>1, <3>1, PowersType
  <2> QED
    BY <2>1, <2>2
<1>4. \A k \in 1 .. n : p[k] = q[k]
  BY DEF PowersOf
<1> HIDE DEF p, q
<1>5. v \in Vectors(n + 1) /\ s \in Vectors(n)
  BY <1>1, <1>2, <1>3, DotType
<1>6. u \in Vectors(n) /\ t \in Vectors(1)
  <2> HIDE DEF v
  <2> QED
    BY <1>1, <1>5 DEF Vectors
<1>7. ASSUME NEW k \in 1 .. n PROVE u[k] = x ** s[k]
  <2>1. u[k] = c[k + 1] ** (x ** p[k])
    BY <1>1, <1>3
  <2>2. c[k + 1] \in Field /\ p[k] \in Field
    BY <1>1, <1>3 DEF Vectors
  <2>3. c[k + 1] ** (x ** p[k]) = (c[k + 1] ** x) ** p[k]
    BY <2>2, MultiplyAssociates
  <2>4. (x ** c[k + 1]) ** p[k] = x ** (c[k + 1] ** p[k])
    BY <2>2, MultiplyAssociates
  <2>5. c[k + 1] ** x = x ** c[k + 1]
    BY <2>2, Laws
  <2>6. s[k] = c[k + 1] ** p[k]
    BY <1>4
  <2> QED
    BY <2>1, <2>3, <2>4, <2>5, <2>6
<1>8. t[1] = v[1] /\ v[1] = c[1] /\ \A k \in 1 .. n : v[1 + k] = u[k]
  <2>1. v[1] = c[1] ** 1
    BY <1>1, <1>3
  <2>2. c[1] ** 1 = c[1]
    <3>1. c[1] \in Field
      BY <1>1 DEF Vectors
    <3> QED
      BY <3>1, Laws
  <2>3. \A k \in 1 .. n : 1 + k = k + 1
    OBVIOUS
  <2> HIDE DEF v
  <2> QED
    BY <2>1, <2>2, <2>3
<1>9. Value(n + 1, c, x) = SumTo(n + 1, v)
  BY DEF Value, Dot, p
<1>10. Value(n, d, x) = SumTo(n, s)
  BY DEF Value, Dot, q
<1> HIDE DEF v, t, u, s
<1>11. SumTo(1 + n, v) = SumTo(1, t) ++ SumTo(n, u)
  <2>1. \A k \in 1 .. 1 : v[k] = t[k]
    BY <1>8
  <2>2. v \in Vectors(1 + n) /\ 1 \in Nat
    BY <1>1, <1>5
  <2> QED
    BY <1>6, <1>8, <2>1, <2>2, SumOfParts
<1>12. SumTo(1, t) = t[1]
  <2>1. \A k \in 1 .. 1 : k = 1
    OBVIOUS
  <2>2. 1 \in Nat /\ 1 \in 1 .. 1
    OBVIOUS
  <2> QED
    BY <1>6, <2>1, <2>2, SumOfOne
<1>13. SumTo(n, u) = x ** SumTo(n, s)
  BY <1>5, <1>6, <1>7, SumOfMultiples
<1> QED
  BY <1>1, <1>2, <1>8, <1>9, <1>10, <1>11, <1>12, <1>13

\* c is its value at b, and x ++ b times q.
Divides(n, c, b, q) ==
  /\ \A x \in Field : Value(n + 1, c, x) = Value(n + 1, c, b) ++ ((x ++ b) ** Value(n, q, x))
  /\ q = Zero(n) => \A k \in 2 .. n + 1 : c[k] = 0

\* The step of a division: Horner's rule at x and at b.
LEMMA DivisionStep ==
  ASSUME NEW x \in Field, NEW b \in Field, NEW first \in Field, NEW v \in Field, NEW w \in Field
  PROVE  LET rest == v ++ ((x ++ b) ** w)
         IN  first ++ (x ** rest) = (first ++ (b ** v)) ++ ((x ++ b) ** (v ++ (x ** w)))
<1> DEFINE s == x ++ b
<1>1. s \in Field
  BY Closed
<1>2. s ** v = (x ** v) ++ (b ** v)
  <2>1. v ** s = (v ** x) ++ (v ** b)
    BY Distributes
  <2>2. v ** s = s ** v /\ v ** x = x ** v /\ v ** b = b ** v
    BY <1>1, Laws
  <2> QED
    BY <2>1, <2>2
<1>3. x ** (s ** w) = s ** (x ** w)
  <2>1. (x ** s) ** w = x ** (s ** w) /\ (s ** x) ** w = s ** (x ** w)
    BY <1>1, MultiplyAssociates
  <2>2. x ** s = s ** x
    BY <1>1, Laws
  <2> QED
    BY <2>1, <2>2
<1> HIDE DEF s
<1> DEFINE xv == x ** v
           bv == b ** v
           xsw == x ** (s ** w)
<1>4. xv \in Field /\ bv \in Field /\ xsw \in Field /\ s ** w \in Field /\ x ** w \in Field
  BY <1>1, Closed
<1>5. x ** (v ++ (s ** w)) = xv ++ xsw
  BY <1>4, Distributes
<1>6. s ** (v ++ (x ** w)) = (xv ++ bv) ++ xsw
  BY <1>1, <1>2, <1>3, <1>4, Distributes
<1> HIDE DEF xv, bv, xsw
<1>7. (first ++ bv) ++ ((xv ++ bv) ++ xsw) = first ++ (xv ++ xsw)
  <2>1. (bv ++ xv) \in Field /\ xv ++ xsw \in Field /\ xv ++ bv \in Field /\ (xv ++ bv) ++ xsw \in Field
    BY <1>4, Closed
  <2>2. (first ++ bv) ++ ((xv ++ bv) ++ xsw) = first ++ (bv ++ ((xv ++ bv) ++ xsw))
    BY <1>4, <2>1, Associates
  <2>3. bv ++ ((xv ++ bv) ++ xsw) = (bv ++ (xv ++ bv)) ++ xsw
    BY <1>4, <2>1, Associates
  <2>4. bv ++ (xv ++ bv) = xv
    <3>1. xv ++ bv = bv ++ xv
      BY <1>4, Laws
    <3>2. bv ++ (bv ++ xv) = (bv ++ bv) ++ xv
      BY <1>4, Associates
    <3>3. bv ++ bv = 0 /\ 0 ++ xv = xv
      BY <1>4, Laws
    <3> QED
      BY <3>1, <3>2, <3>3
  <2> QED
    BY <2>2, <2>3, <2>4
<1> QED
  BY <1>5, <1>6, <1>7 DEF s, bv

\* Every polynomial is divided so.
LEMMA Divided ==
  ASSUME NEW b \in Field, NEW N \in Nat, NEW given \in Vectors(N + 1)
  PROVE  \E q \in Vectors(N) : Divides(N, given, b, q)
<1> DEFINE S == {n \in Nat : \A c \in Vectors(n + 1) : \E q \in Vectors(n) : Divides(n, c, b, q)}
<1>1. 0 \in S
  <2> SUFFICES ASSUME NEW c \in Vectors(0 + 1) PROVE \E q \in Vectors(0) : Divides(0, c, b, q)
    OBVIOUS
  <2>1. Zero(0) \in Vectors(0) /\ 0 \in Nat /\ 0 + 1 = 1 /\ \A k \in 2 .. 0 + 1 : FALSE
    BY SpecialVectors
  <2>2. \A x \in Field : Value(1, c, x) = c[1] /\ c[1] \in Field
    <3> TAKE x \in Field
    <3>1. c \in Vectors(1) /\ 1 \in Nat /\ \A k \in 2 .. 1 : c[k] = 0
      BY <2>1
    <3>2. Value(1, c, x) = c[1]
      BY <3>1, ValueOfConstant
    <3>3. Value(1, c, x) \in Field
      BY <3>1, ValueType
    <3> QED
      BY <3>2, <3>3
  <2>3. ASSUME NEW x \in Field PROVE Value(0, Zero(0), x) = 0
    <3>1. Value(0, Zero(0), x) = Dot(0, PowersOf(0, x), Zero(0))
      BY <2>1, PowersType, DotType DEF Value
    <3> QED
      BY <2>1, <3>1, PowersType, DotSpecial
  <2>4. ASSUME NEW x \in Field
        PROVE  Value(1, c, x) = Value(1, c, b) ++ ((x ++ b) ** Value(0, Zero(0), x))
    <3>1. Value(1, c, x) = c[1] /\ Value(1, c, b) = c[1] /\ c[1] \in Field
      BY <2>2
    <3>2. (x ++ b) ** 0 = 0 /\ c[1] ++ 0 = c[1]
      BY <3>1, Laws
    <3> QED
      BY <2>3, <3>1, <3>2
  <2>5. Divides(0, c, b, Zero(0))
    BY <2>1, <2>4 DEF Divides
  <2> QED
    BY <2>1, <2>5
<1>2. ASSUME NEW n \in Nat, n \in S PROVE n + 1 \in S
  <2> SUFFICES ASSUME NEW c \in Vectors((n + 1) + 1)
               PROVE  \E q \in Vectors(n + 1) : Divides(n + 1, c, b, q)
    OBVIOUS
  <2> DEFINE d == [k \in 1 .. n + 1 |-> c[k + 1]]
  <2>1. n + 1 \in Nat /\ d \in Vectors(n + 1) /\ c[1] \in Field
    <3>1. n + 1 \in Nat /\ 1 \in 1 .. (n + 1) + 1
      OBVIOUS
    <3> QED
      BY <3>1, Horner DEF Vectors
  <2>2. \A x \in Field : Value((n + 1) + 1, c, x) = c[1] ++ (x ** Value(n + 1, d, x))
    BY <2>1, Horner
  <2>3. \A k \in 1 .. n + 1 : d[k] = c[k + 1]
    OBVIOUS
  <2> HIDE DEF d
  <2>4. PICK p \in Vectors(n) : Divides(n, d, b, p)
    BY <1>2, <2>1
  <2> DEFINE v == Value(n + 1, d, b)
             q == [k \in 1 .. n + 1 |-> IF k = 1 THEN v ELSE p[k - 1]]
             e == [k \in 1 .. n |-> q[k + 1]]
  <2>5. v \in Field
    BY <2>1, ValueType
  <2> HIDE DEF v
  <2>6. q \in Vectors(n + 1)
    <3>1. \A k \in 1 .. n + 1 : k = 1 \/ k - 1 \in 1 .. n
      OBVIOUS
    <3> QED
      BY <2>5, <3>1 DEF Vectors
  <2>7. q[1] = v /\ \A k \in 1 .. n : q[k + 1] = p[k]
    <3>1. 1 \in 1 .. n + 1
      OBVIOUS
    <3>2. \A k \in 1 .. n : k + 1 \in 1 .. n + 1 /\ k + 1 # 1 /\ (k + 1) - 1 = k
      OBVIOUS
    <3> QED
      BY <3>1, <3>2
  <2> HIDE DEF q
  <2>8. e = p
    <3>1. e = [k \in 1 .. n |-> p[k]]
      BY <2>7
    <3>2. p = [k \in 1 .. n |-> p[k]]
      BY DEF Vectors
    <3> QED
      BY <3>1, <3>2
  <2>9. \A x \in Field : Value(n + 1, q, x) = v ++ (x ** Value(n, p, x))
    BY <2>6, <2>7, <2>8, Horner
  <2>10. ASSUME NEW x \in Field
         PROVE  Value((n + 1) + 1, c, x) =
                  Value((n + 1) + 1, c, b) ++ ((x ++ b) ** Value(n + 1, q, x))
    <3> DEFINE w == Value(n, p, x)
    <3>1. w \in Field
      BY ValueType
    <3>2. Value((n + 1) + 1, c, x) = c[1] ++ (x ** Value(n + 1, d, x))
      BY <2>2
    <3>3. Value((n + 1) + 1, c, b) = c[1] ++ (b ** v)
      BY <2>2 DEF v
    <3>4. Value(n + 1, d, x) = v ++ ((x ++ b) ** w)
      BY <2>4 DEF Divides, v
    <3>5. Value(n + 1, q, x) = v ++ (x ** w)
      BY <2>9
    <3> HIDE DEF w
    <3>6. c[1] ++ (x ** (v ++ ((x ++ b) ** w))) =
            (c[1] ++ (b ** v)) ++ ((x ++ b) ** (v ++ (x ** w)))
      BY <2>1, <2>5, <3>1, DivisionStep
    <3> QED
      BY <3>2, <3>3, <3>4, <3>5, <3>6
  <2>11. ASSUME q = Zero(n + 1), NEW k \in 2 .. (n + 1) + 1 PROVE c[k] = 0
    <3>1. \A l \in 1 .. n + 1 : q[l] = 0
      BY <2>11 DEF Zero
    <3>2. v = 0
      BY <2>7, <3>1
    <3>3. p = Zero(n)
      <4>1. \A l \in 1 .. n : l + 1 \in 1 .. n + 1
        OBVIOUS
      <4>2. \A l \in 1 .. n : p[l] = 0
        BY <2>7, <3>1, <4>1
      <4>3. p = [l \in 1 .. n |-> p[l]]
        BY DEF Vectors
      <4> QED
        BY <4>2, <4>3 DEF Zero
    <3>4. \A l \in 2 .. n + 1 : d[l] = 0
      BY <2>4, <3>3 DEF Divides
    <3>5. d[1] = 0
      <4>1. Value(n + 1, d, b) = d[1]
        BY <2>1, <3>4, ValueOfConstant
      <4> QED
        BY <3>2, <4>1 DEF v
    <3>6. k - 1 \in 1 .. n + 1 /\ (k - 1) + 1 = k /\ (k - 1 = 1 \/ k - 1 \in 2 .. n + 1)
      OBVIOUS
    <3> QED
      BY <2>3, <3>4, <3>5, <3>6
  <2>12. Divides(n + 1, c, b, q)
    BY <2>10, <2>11 DEF Divides
  <2> QED
    BY <2>6, <2>12
<1> HIDE DEF S
<1>3. N \in S
  BY <1>1, <1>2, Induction
<1> QED
  BY <1>3 DEF S

\* A polynomial of n coefficients is 0 at n points only if it is 0.
LEMMA Roots ==
  \A n \in Nat : \A c \in Vectors(n), p \in Vectors(n) :
     (\A i \in 1 .. n : Value(n, c, p[i]) = 0) /\ (\A i, j \in 1 .. n : p[i] = p[j] => i = j)
       => c = Zero(n)
<1> DEFINE Distinct(n, p) == \A i, j \in 1 .. n : p[i] = p[j] => i = j
           S == {n \in Nat : \A c \in Vectors(n), p \in Vectors(n) :
                   (\A i \in 1 .. n : Value(n, c, p[i]) = 0) /\ Distinct(n, p) => c = Zero(n)}
<1>1. 0 \in S
  <2> SUFFICES ASSUME NEW c \in Vectors(0) PROVE c = Zero(0)
    OBVIOUS
  <2>1. c = [k \in 1 .. 0 |-> c[k]]
    BY DEF Vectors
  <2>2. \A k \in 1 .. 0 : c[k] = 0
    OBVIOUS
  <2> QED
    BY <2>1, <2>2 DEF Zero
<1>2. ASSUME NEW n \in Nat, n \in S PROVE n + 1 \in S
  <2> SUFFICES ASSUME NEW c \in Vectors(n + 1), NEW p \in Vectors(n + 1),
                      \A i \in 1 .. n + 1 : Value(n + 1, c, p[i]) = 0, Distinct(n + 1, p)
               PROVE  c = Zero(n + 1)
    OBVIOUS
  <2> DEFINE b == p[n + 1]
  <2>1. b \in Field /\ Value(n + 1, c, b) = 0
    <3>1. n + 1 \in 1 .. n + 1
      OBVIOUS
    <3> QED
      BY <3>1 DEF Vectors
  <2>2. PICK q \in Vectors(n) : Divides(n, c, b, q)
    <3> HIDE DEF b, S
    <3> QED
      BY <2>1, Divided
  <2>3. ASSUME NEW i \in 1 .. n PROVE p[i] \in Field /\ Value(n, q, p[i]) = 0
    <3>1. i \in 1 .. n + 1 /\ n + 1 \in 1 .. n + 1 /\ i # n + 1
      OBVIOUS
    <3>2. p[i] \in Field /\ Value(n + 1, c, p[i]) = 0 /\ p[i] # b
      BY <3>1 DEF Vectors
    <3> HIDE DEF b
    <3> DEFINE v == Value(n, q, p[i])
    <3>3. v \in Field
      BY <3>2, ValueType
    <3>4. 0 = 0 ++ ((p[i] ++ b) ** v)
      BY <2>1, <2>2, <3>2 DEF Divides
    <3> HIDE DEF v
    <3>5. p[i] ++ b \in Field /\ p[i] ++ b # 0
      BY <2>1, <3>2, NoSigns, Closed
    <3>6. (p[i] ++ b) ** v \in Field
      BY <3>3, <3>5, Closed
    <3>7. (p[i] ++ b) ** v = 0
      BY <3>4, <3>6, Laws
    <3>8. v = 0
      BY <3>3, <3>5, <3>7, NoDivisors
    <3> QED
      BY <3>2, <3>8 DEF v
  <2>4. q = Zero(n)
    <3> DEFINE r == [i \in 1 .. n |-> p[i]]
    <3>1. r \in Vectors(n) /\ \A i \in 1 .. n : Value(n, q, r[i]) = 0
      BY <2>3 DEF Vectors
    <3>2. Distinct(n, r)
      <4>1. \A i \in 1 .. n : i \in 1 .. n + 1
        OBVIOUS
      <4> QED
        BY <4>1
    <3> HIDE DEF r
    <3> QED
      BY <1>2, <3>1, <3>2
  <2>5. \A k \in 2 .. n + 1 : c[k] = 0
    BY <2>2, <2>4 DEF Divides
  <2>6. c[1] = 0
    <3>1. n + 1 \in Nat /\ n + 1 # 0
      OBVIOUS
    <3>2. Value(n + 1, c, b) = c[1]
      BY <2>1, <2>5, <3>1, ValueOfConstant
    <3> QED
      BY <2>1, <3>2
  <2>7. c = [k \in 1 .. n + 1 |-> c[k]]
    BY DEF Vectors
  <2>8. \A k \in 1 .. n + 1 : k = 1 \/ k \in 2 .. n + 1
    OBVIOUS
  <2>9. \A k \in 1 .. n + 1 : c[k] = 0
    BY <2>5, <2>6, <2>8
  <2> QED
    BY <2>7, <2>9 DEF Zero
<1> HIDE DEF S
<1>3. \A n \in Nat : n \in S
  BY <1>1, <1>2, Induction
<1> QED
  BY <1>3 DEF S

-----------------------------------------------------------------------------
(* The coding matrix                                                       *)

\* The columns of the shards i as a matrix makes them: row i is the value at i - 1.
LEMMA VandermondeRows ==
  ASSUME NEW n \in Nat, NEW m \in Nat, m <= Order
  PROVE  /\ vandermonde(m, n) \in Matrices(m, n)
         /\ \A i \in 1 .. m : i - 1 \in Field /\ vandermonde(m, n)[i] = PowersOf(n, i - 1)
         /\ \A i \in 1 .. m, x \in Vectors(n) : Dot(n, vandermonde(m, n)[i], x) = Value(n, x, i - 1)
<1>1. ASSUME NEW i \in 1 .. m PROVE i - 1 \in Field
  <2>1. 2 ^ Width \in Nat
    BY CodecAssumption DEF FieldAssumption
  <2> QED
    BY <2>1 DEF Field, Order
<1>2. ASSUME NEW i \in 1 .. m
      PROVE  vandermonde(m, n)[i] = PowersOf(n, i - 1) /\ PowersOf(n, i - 1) \in Vectors(n)
  BY <1>1, PowersType DEF vandermonde, PowersOf
<1>3. vandermonde(m, n) = [i \in 1 .. m |-> vandermonde(m, n)[i]]
  BY DEF vandermonde
<1>4. vandermonde(m, n) \in Matrices(m, n)
  BY <1>2, <1>3 DEF Matrices
<1>5. ASSUME NEW i \in 1 .. m, NEW x \in Vectors(n)
      PROVE  Dot(n, vandermonde(m, n)[i], x) = Value(n, x, i - 1)
  BY <1>2, DotType DEF Value
<1> QED
  BY <1>1, <1>2, <1>4, <1>5

\* The rows of a Vandermonde matrix at different points are 0 together only at 0.
LEMMA VandermondeKernel ==
  ASSUME NEW n \in Nat, NEW m \in Nat, m <= Order, NEW at \in [1 .. n -> 1 .. m],
         \A k, l \in 1 .. n : at[k] = at[l] => k = l, NEW x \in Vectors(n),
         \A k \in 1 .. n : Value(n, x, at[k] - 1) = 0
  PROVE  x = Zero(n)
<1> DEFINE p == [k \in 1 .. n |-> at[k] - 1]
<1>1. p \in Vectors(n)
  <2>1. \A k \in 1 .. n : at[k] - 1 \in Field
    BY VandermondeRows
  <2> QED
    BY <2>1 DEF Vectors
<1>2. \A k, l \in 1 .. n : p[k] = p[l] => k = l
  <2> TAKE k, l \in 1 .. n
  <2>1. at[k] \in Int /\ at[l] \in Int /\ p[k] = at[k] - 1 /\ p[l] = at[l] - 1
    OBVIOUS
  <2> HIDE DEF p
  <2> QED
    BY <2>1
<1>3. \A k \in 1 .. n : Value(n, x, p[k]) = 0
  OBVIOUS
<1> HIDE DEF p
<1> QED
  BY <1>1, <1>2, <1>3, Roots

\* The upper square of the Vandermonde matrix has an inverse.
LEMMA TopInverse ==
  ASSUME NEW n \in Nat, n # 0, NEW m \in Nat, n <= m, m <= Order
  PROVE  LET vm == vandermonde(m, n)
             top == Invert([i \in 1 .. n |-> vm[i]])
         IN  /\ top # Empty /\ top \in Matrices(n, n)
             /\ \A z \in Vectors(n), i \in 1 .. n :
                  Dot(n, vm[i], [l \in 1 .. n |-> Dot(n, top[l], z)]) = z[i]
<1> DEFINE vm == vandermonde(m, n)
           v == [i \in 1 .. n |-> vm[i]]
           top == Invert(v)
<1>1. \A i \in 1 .. n : i \in 1 .. m
  OBVIOUS
<1>2. /\ \A i \in 1 .. n : vm[i] \in Vectors(n)
      /\ \A i \in 1 .. n, x \in Vectors(n) : Dot(n, vm[i], x) = Value(n, x, i - 1)
  <2>1. vm \in Matrices(m, n)
    BY VandermondeRows
  <2>2. \A i \in 1 .. m, x \in Vectors(n) : Dot(n, vm[i], x) = Value(n, x, i - 1)
    BY VandermondeRows
  <2> HIDE DEF vm
  <2> QED
    BY <1>1, <2>1, <2>2, MatrixRows
<1> HIDE DEF vm
<1>3. v \in Matrices(n, n) /\ \A i \in 1 .. n : v[i] = vm[i]
  BY <1>2 DEF Matrices
<1>4. ASSUME NEW x \in Vectors(n), \A i \in 1 .. n : Dot(n, v[i], x) = 0 PROVE x = Zero(n)
  <2> DEFINE at == [i \in 1 .. n |-> i]
  <2>1. at \in [1 .. n -> 1 .. m] /\ \A k, l \in 1 .. n : at[k] = at[l] => k = l
    BY <1>1
  <2>2. \A k \in 1 .. n : Value(n, x, at[k] - 1) = 0
    BY <1>2, <1>3, <1>4
  <2> HIDE DEF at
  <2> QED
    BY <2>1, <2>2, VandermondeKernel
<1> HIDE DEF v
<1>5. top # Empty
  BY <1>3, <1>4, InverseExists
<1>6. /\ top \in Matrices(n, n)
      /\ \A x, y \in Vectors(n) : (\A i \in 1 .. n : Dot(n, v[i], x) = y[i])
                                    <=> (\A i \in 1 .. n : Dot(n, top[i], y) = x[i])
  BY <1>3, <1>5, Inversion
<1> HIDE DEF top
<1>7. ASSUME NEW z \in Vectors(n), NEW i \in 1 .. n
      PROVE  Dot(n, vm[i], [l \in 1 .. n |-> Dot(n, top[l], z)]) = z[i]
  <2> DEFINE x == [l \in 1 .. n |-> Dot(n, top[l], z)]
  <2>1. x \in Vectors(n)
    <3>1. \A l \in 1 .. n : Dot(n, top[l], z) \in Field
      BY <1>6, MatrixRows, DotType
    <3> QED
      BY <3>1 DEF Vectors
  <2>2. \A l \in 1 .. n : Dot(n, top[l], z) = x[l]
    OBVIOUS
  <2> HIDE DEF x
  <2>3. \A l \in 1 .. n : Dot(n, v[l], x) = z[l]
    BY <1>6, <2>1, <2>2
  <2>4. Dot(n, vm[i], x) = z[i]
    BY <1>3, <2>3
  <2> QED
    BY <2>4 DEF x
<1> QED
  BY <1>5, <1>6, <1>7 DEF top, v, vm

\* The rows of the coding matrix: the first send the data shards as they are, and
\* any data rows are independent.
LEMMA CodingRows ==
  ASSUME NEW s \in Shapes, Valid(s)
  PROVE  /\ s[1] \in Nat /\ s[1] # 0 /\ s[1] + s[2] \in Nat /\ s[1] <= s[1] + s[2]
         /\ CodingMatrix(s) \in Matrices(s[1] + s[2], s[1])
         /\ \A z \in Vectors(s[1]), i \in 1 .. s[1] : Dot(s[1], CodingMatrix(s)[i], z) = z[i]
         /\ \A at \in [1 .. s[1] -> 1 .. s[1] + s[2]] :
              (\A k, l \in 1 .. s[1] : at[k] = at[l] => k = l)
                => Invert([k \in 1 .. s[1] |-> CodingMatrix(s)[at[k]]]) # Empty
<1>1. PICK n \in Nat, m \in Nat : n = s[1] /\ m = s[1] + s[2] /\ n # 0 /\ n <= m /\ m <= Order
  <2>1. s[1] \in Int /\ s[2] \in Int
    BY CodecAssumption
  <2>2. s[1] > 0 /\ s[2] > 0 /\ s[1] + s[2] <= Order
    BY DEF Valid, Constructed
  <2> QED
    BY <2>1, <2>2
<1> DEFINE vm == vandermonde(m, n)
           top == Invert([i \in 1 .. n |-> vm[i]])
           c == CodingMatrix(s)
           made(z) == [l \in 1 .. n |-> Dot(n, top[l], z)]
<1>2. /\ top # Empty /\ top \in Matrices(n, n)
      /\ \A z \in Vectors(n), i \in 1 .. n : Dot(n, vm[i], made(z)) = z[i]
  BY <1>1, TopInverse
<1>3. /\ vm \in Matrices(m, n)
      /\ \A i \in 1 .. m, x \in Vectors(n) : Dot(n, vm[i], x) = Value(n, x, i - 1)
  BY <1>1, VandermondeRows
<1>4. c = Multiply(vm, top)
  BY <1>1, <1>2 DEF CodingMatrix
<1> HIDE DEF vm, top
<1>5. c = [i \in 1 .. m |-> Combine(vm[i], top)]
  BY <1>3, <1>4, MatrixRows DEF Multiply
<1> HIDE DEF c
<1>6. ASSUME NEW i \in 1 .. m
      PROVE  /\ c[i] \in Vectors(n)
             /\ \A z \in Vectors(n) : Dot(n, c[i], z) = Dot(n, vm[i], made(z))
  <2>1. PICK u \in Vectors(n) : u = vm[i]
    BY <1>3, MatrixRows
  <2>2. /\ Combine(u, top) \in Vectors(n)
        /\ \A z \in Vectors(n) : Dot(n, Combine(u, top), z) = Dot(n, u, made(z))
    BY <1>1, <1>2, CombineDot
  <2> QED
    BY <1>5, <2>1, <2>2
<1>7. c \in Matrices(m, n)
  BY <1>5, <1>6 DEF Matrices
<1>8. \A z \in Vectors(n) : made(z) \in Vectors(n)
  <2>1. \A l \in 1 .. n, z \in Vectors(n) : Dot(n, top[l], z) \in Field
    BY <1>2, MatrixRows, DotType
  <2> QED
    BY <2>1 DEF Vectors
<1>9. ASSUME NEW z \in Vectors(n), NEW i \in 1 .. n PROVE Dot(n, c[i], z) = z[i]
  <2>1. i \in 1 .. m
    BY <1>1
  <2> QED
    BY <1>2, <1>6, <2>1
<1>10. ASSUME NEW at \in [1 .. n -> 1 .. m], \A k, l \in 1 .. n : at[k] = at[l] => k = l
       PROVE  Invert([k \in 1 .. n |-> c[at[k]]]) # Empty
  <2> DEFINE rows == [k \in 1 .. n |-> c[at[k]]]
  <2>1. rows \in Matrices(n, n) /\ \A k \in 1 .. n : rows[k] = c[at[k]]
    BY <1>6 DEF Matrices
  <2> HIDE DEF rows
  <2>2. ASSUME NEW z \in Vectors(n), \A k \in 1 .. n : Dot(n, rows[k], z) = 0 PROVE z = Zero(n)
    <3>1. PICK x \in Vectors(n) : x = made(z)
      BY <1>8
    <3>2. ASSUME NEW k \in 1 .. n PROVE Value(n, x, at[k] - 1) = 0
      <4>1. at[k] \in 1 .. m
        OBVIOUS
      <4>2. Dot(n, c[at[k]], z) = Dot(n, vm[at[k]], x)
        BY <1>6, <3>1, <4>1
      <4>3. Dot(n, vm[at[k]], x) = Value(n, x, at[k] - 1)
        BY <1>3, <4>1
      <4> QED
        BY <2>1, <2>2, <4>2, <4>3
    <3>3. x = Zero(n)
      BY <1>1, <1>10, <3>2, VandermondeKernel
    <3>4. ASSUME NEW i \in 1 .. n PROVE z[i] = 0
      <4>1. vm[i] \in Vectors(n)
        <5>1. i \in 1 .. m
          BY <1>1
        <5> QED
          BY <1>3, <5>1, MatrixRows
      <4>2. Dot(n, vm[i], Zero(n)) = 0
        BY <4>1, DotSpecial
      <4> QED
        BY <1>2, <3>1, <3>3, <4>2
    <3>5. z = [i \in 1 .. n |-> z[i]]
      BY DEF Vectors
    <3> QED
      BY <3>4, <3>5 DEF Zero
  <2>3. Invert(rows) # Empty
    BY <1>1, <2>1, <2>2, InverseExists
  <2> QED
    BY <2>3 DEF rows
<1> HIDE DEF made
<1> QED
  BY <1>1, <1>7, <1>9, <1>10 DEF c

-----------------------------------------------------------------------------
(* Ascending lists                                                         *)

\* The elements up to x are fewer than those up to a larger y.
LEMMA UpToGrows ==
  ASSUME NEW S, S \subseteq Int, NEW x \in S, NEW y \in S, x < y
  PROVE  /\ {j \in S : j <= x} \in SUBSET {j \in S : j <= y}
         /\ y \notin {j \in S : j <= x} /\ y \in {j \in S : j <= y}
<1>1. x \in Int /\ y \in Int /\ \A j \in S : j \in Int
  OBVIOUS
<1>2. \A j \in Int : j <= x => j <= y
  BY <1>1
<1>3. ~ (y <= x) /\ y <= y
  BY <1>1
<1>4. QED
  BY <1>1, <1>2, <1>3, Zenon

\* Every element of a finite set of integers is somewhere in its list.
LEMMA InAscending ==
  ASSUME NEW S, S \subseteq Int, IsFiniteSet(S), NEW i \in S
  PROVE  \E k \in DOMAIN Ascending(S) : Ascending(S)[k] = i
<1> DEFINE upTo(x) == {j \in S : j <= x}
           k == Cardinality(upTo(i))
<1>1. \A x \in S : IsFiniteSet(upTo(x)) /\ Cardinality(upTo(x)) \in Nat
                   /\ Cardinality(upTo(x)) <= Cardinality(S)
  BY FS_Subset, FS_CardinalityType
<1>2. Cardinality(S) \in Nat
  BY FS_CardinalityType
<1>3. k >= 1
  <2>1. i \in upTo(i)
    OBVIOUS
  <2>2. k # 0
    BY <1>1, <2>1, FS_EmptySet
  <2>3. QED
    BY <1>1, <2>2
<1>4. ASSUME NEW x \in S, Cardinality(upTo(x)) = k
      PROVE  x = i
  <2>1. CASE x < i
    <3>1. upTo(x) \in SUBSET upTo(i) /\ i \notin upTo(x) /\ i \in upTo(i)
      BY <2>1, UpToGrows
    <3>2. QED
      BY <1>1, <1>4, <3>1, FS_Subset
  <2>2. CASE i < x
    <3>1. upTo(i) \in SUBSET upTo(x) /\ x \notin upTo(i) /\ x \in upTo(x)
      BY <2>2, UpToGrows
    <3>2. QED
      BY <1>1, <1>4, <3>1, FS_Subset
  <2>3. QED
    BY <2>1, <2>2
<1>5. Nth(S, k) = i
  BY <1>4 DEF Nth
<1>6. k \in 1 .. Cardinality(S)
  BY <1>1, <1>2, <1>3
<1>7. DOMAIN Ascending(S) = 1 .. Cardinality(S) /\ Ascending(S)[k] = Nth(S, k)
  BY <1>6 DEF Ascending
<1>8. QED
  BY <1>5, <1>6, <1>7

\* The places of the elements in the list are the numbers up to the size.
LEMMA Ranks ==
  ASSUME NEW S, S \subseteq Int, IsFiniteSet(S)
  PROVE  /\ \A i \in S : Cardinality({j \in S : j <= i}) \in 1 .. Cardinality(S)
         /\ \A x, y \in S : Cardinality({j \in S : j <= x}) = Cardinality({j \in S : j <= y}) => x = y
         /\ \A k \in 1 .. Cardinality(S) : \E i \in S : Cardinality({j \in S : j <= i}) = k
<1> DEFINE rank == [i \in S |-> Cardinality({j \in S : j <= i})]
           n == Cardinality(S)
<1>1. n \in Nat
  BY FS_CardinalityType
<1>2. \A i \in S : rank[i] \in 1 .. n
  <2> TAKE i \in S
  <2> DEFINE low == {j \in S : j <= i}
  <2>1. IsFiniteSet(low) /\ Cardinality(low) \in Nat /\ Cardinality(low) <= n /\ i \in low
    BY FS_Subset, FS_CardinalityType
  <2>2. Cardinality(low) # 0
    BY <2>1, FS_EmptySet
  <2>3. QED
    BY <1>1, <2>1, <2>2
<1>3. \A x, y \in S : x < y => rank[x] # rank[y]
  <2> TAKE x, y \in S
  <2> HAVE x < y
  <2> DEFINE low == {j \in S : j <= x}
             high == {j \in S : j <= y}
  <2>1. IsFiniteSet(high) /\ low \in SUBSET high /\ y \in high /\ y \notin low
    BY FS_Subset, UpToGrows
  <2>2. Cardinality(high) # Cardinality(low)
    BY <2>1, FS_Subset
  <2>3. QED
    BY <2>2
<1>4. \A x, y \in S : rank[x] = rank[y] => x = y
  <2> TAKE x, y \in S
  <2>1. x < y \/ y < x \/ x = y
    OBVIOUS
  <2>2. QED
    BY <1>3, <2>1
<1>5. rank \in Injection(S, 1 .. n)
  <2>1. rank \in [S -> 1 .. n]
    BY <1>2
  <2> HIDE DEF rank
  <2>2. QED
    BY <1>4, <2>1 DEF Injection, IsInjective
<1>6. IsFiniteSet(1 .. n) /\ Cardinality(1 .. n) = n
  BY <1>1, FS_Interval
<1>7. rank \in Surjection(S, 1 .. n)
  BY <1>5, <1>6, FS_Injection
<1>8. \A k \in 1 .. n : \E i \in S : rank[i] = k
  BY <1>7 DEF Surjection
<1>9. \A i \in S : rank[i] = Cardinality({j \in S : j <= i})
  OBVIOUS
<1> HIDE DEF rank
<1>10. QED
  BY <1>2, <1>4, <1>8, <1>9

\* There is an element at every place of the list, and its rank is the place.
LEMMA AscendingIn ==
  ASSUME NEW S, S \subseteq Int, IsFiniteSet(S), NEW k \in DOMAIN Ascending(S)
  PROVE  /\ Ascending(S)[k] \in S
         /\ Cardinality({j \in S : j <= Ascending(S)[k]}) = k
<1>1. k \in 1 .. Cardinality(S) /\ Ascending(S)[k] = Nth(S, k)
  BY DEF Ascending
<1>2. \E i \in S : Cardinality({j \in S : j <= i}) = k
  BY <1>1, Ranks
<1>3. QED
  BY <1>1, <1>2 DEF Nth

\* No two places of the list have the same element.
LEMMA AscendingOnce ==
  ASSUME NEW S, S \subseteq Int, IsFiniteSet(S),
         NEW k \in DOMAIN Ascending(S), NEW l \in DOMAIN Ascending(S), Ascending(S)[k] = Ascending(S)[l]
  PROVE  k = l
<1>1. Cardinality({j \in S : j <= Ascending(S)[k]}) = k
  BY AscendingIn
<1>2. Cardinality({j \in S : j <= Ascending(S)[l]}) = l
  BY AscendingIn
<1>3. QED
  BY <1>1, <1>2

\* A finite set is known by its list.
LEMMA AscendingInjective ==
  ASSUME NEW S, S \subseteq Int, IsFiniteSet(S),
         NEW T, T \subseteq Int, IsFiniteSet(T), Ascending(S) = Ascending(T)
  PROVE  S = T
<1>1. ASSUME NEW i \in S PROVE i \in T
  <2>1. PICK k \in DOMAIN Ascending(S) : Ascending(S)[k] = i
    BY InAscending
  <2>2. k \in DOMAIN Ascending(T) /\ Ascending(T)[k] = i
    BY <2>1
  <2>3. QED
    BY <2>2, AscendingIn
<1>2. ASSUME NEW i \in T PROVE i \in S
  <2>1. PICK k \in DOMAIN Ascending(T) : Ascending(T)[k] = i
    BY InAscending
  <2>2. k \in DOMAIN Ascending(S) /\ Ascending(S)[k] = i
    BY <2>1
  <2>3. QED
    BY <2>2, AscendingIn
<1>3. QED
  BY <1>1, <1>2

\* The list is a sequence as long as the set is large.
LEMMA AscendingType ==
  ASSUME NEW S, S \subseteq Int, IsFiniteSet(S)
  PROVE  Ascending(S) \in Seq(Int) /\ Len(Ascending(S)) = Cardinality(S)
<1>1. \A k \in DOMAIN Ascending(S) : Ascending(S)[k] \in Int
  BY AscendingIn
<1>2. Cardinality(S) \in Nat /\ DOMAIN Ascending(S) = 1 .. Cardinality(S)
  BY FS_CardinalityType DEF Ascending
<1>3. Ascending(S) = [k \in 1 .. Cardinality(S) |-> Ascending(S)[k]]
  BY DEF Ascending
<1>4. Ascending(S) \in [1 .. Cardinality(S) -> Int]
  BY <1>1, <1>2, <1>3
<1>5. QED
  BY <1>2, <1>4

-----------------------------------------------------------------------------
(* The nodes of the tree                                                   *)

\* Two lists that are led down the same way are the same.
LEMMA WayInjective ==
  ASSUME NEW L \in Seq(Int), NEW M \in Seq(Int), Way(L) = Way(M)
  PROVE  L = M
<1>1. Len(L) \in Nat /\ Len(M) \in Nat
  OBVIOUS
<1>2. DOMAIN Way(L) = 1 .. Len(L) /\ DOMAIN Way(M) = 1 .. Len(M)
  BY DEF Way
<1>3. Len(L) = Len(M)
  BY <1>1, <1>2
<1>4. \A k \in 1 .. Len(L) :
        /\ L[k] \in Int /\ M[k] \in Int
        /\ Way(L)[k] = L[k] - (IF k = 1 THEN 0 ELSE L[k - 1]) - 1
        /\ Way(L)[k] = M[k] - (IF k = 1 THEN 0 ELSE M[k - 1]) - 1
  <2> TAKE k \in 1 .. Len(L)
  <2>1. L[k] \in Int /\ M[k] \in Int
    BY <1>3
  <2>2. Way(L)[k] = L[k] - (IF k = 1 THEN 0 ELSE L[k - 1]) - 1
    BY DEF Way
  <2>3. Way(M)[k] = M[k] - (IF k = 1 THEN 0 ELSE M[k - 1]) - 1
    BY <1>3 DEF Way
  <2>4. QED
    BY <2>1, <2>2, <2>3
<1> DEFINE Apart == {k \in 1 .. Len(L) : L[k] # M[k]}
<1>5. ASSUME Apart # {} PROVE FALSE
  <2>1. PICK k \in Apart : \A m \in Apart : k <= m
    <3>1. Apart \subseteq Nat
      BY <1>1
    <3> HIDE DEF Apart
    <3>2. QED
      BY <1>5, <3>1, Least
  <2>2. k \in 1 .. Len(L) /\ L[k] # M[k]
    OBVIOUS
  <2>3. CASE k = 1
    BY <1>4, <2>2, <2>3
  <2>4. CASE k # 1
    <3>1. k - 1 \in 1 .. Len(L) /\ ~ (k <= k - 1)
      BY <1>1, <2>2, <2>4
    <3>2. L[k - 1] = M[k - 1]
      BY <2>1, <3>1
    <3>3. L[k - 1] \in Int
      BY <1>4, <3>1
    <3>4. QED
      BY <1>4, <2>2, <2>4, <3>2, <3>3
  <2>5. QED
    BY <2>3, <2>4
<1>6. \A k \in 1 .. Len(L) : L[k] = M[k]
  BY <1>5
<1>7. QED
  BY <1>3, <1>6

\* The way to a list is as long as the list, so only the empty list leads to
\* the root.
LEMMA WayType ==
  ASSUME NEW L \in Seq(Int)
  PROVE  Way(L) \in Seq(Int) /\ Len(Way(L)) = Len(L)
<1>1. \A k \in 1 .. Len(L) : L[k] - (IF k = 1 THEN 0 ELSE L[k - 1]) - 1 \in Int
  <2> TAKE k \in 1 .. Len(L)
  <2>1. L[k] \in Int /\ (k # 1 => L[k - 1] \in Int)
    OBVIOUS
  <2>2. QED
    BY <2>1
<1>2. Way(L) \in [1 .. Len(L) -> Int] /\ Len(L) \in Nat
  BY <1>1 DEF Way
<1>3. QED
  BY <1>2

-----------------------------------------------------------------------------
(* The codec                                                               *)

\* data and total of a codec that was constructed.
LEMMA ShapeNumbers ==
  ASSUME TypeOK, shape # None
  PROVE  data \in Nat /\ total \in Nat /\ 0 < data /\ data < total
<1>1. shape \in Shapes /\ Shapes \subseteq Int \X Int /\ Valid(shape)
  BY CodecAssumption DEF TypeOK
<1>2. shape[1] \in Int /\ shape[2] \in Int
  BY <1>1
<1>3. shape[1] > 0 /\ shape[2] > 0
  BY <1>1 DEF Valid, Bridged, Constructed
<1>4. QED
  BY <1>2, <1>3 DEF data, total

\* A set of places is finite.
LEMMA PlacesUpTo ==
  ASSUME NEW n \in Nat, NEW S \in SUBSET (1 .. n)
  PROVE  S \subseteq Int /\ IsFiniteSet(S)
<1>1. IsFiniteSet(1 .. n) /\ 1 .. n \subseteq Int
  BY FS_Interval
<1>2. QED
  BY <1>1, FS_Subset

\* The places of the shards are few.
LEMMA Places ==
  ASSUME TypeOK, shape # None, NEW present \in SUBSET (1 .. total)
  PROVE  /\ IsFiniteSet(present)
         /\ invalidIndices(present) \subseteq Int /\ IsFiniteSet(invalidIndices(present))
         /\ validIndices(present) \subseteq Int /\ IsFiniteSet(validIndices(present))
<1>1. total \in Nat
  BY ShapeNumbers
<1>2. invalidIndices(present) \in SUBSET (1 .. total) /\ validIndices(present) \in SUBSET (1 .. total)
  BY DEF invalidIndices, validIndices
<1>3. QED
  BY <1>1, <1>2, PlacesUpTo

\* Whatever is before a place that the scan reaches is reached.
LEMMA ScannedBelow ==
  ASSUME TypeOK, shape # None, NEW present \in SUBSET (1 .. total),
         NEW i \in 1 .. total, NEW j \in 1 .. total, j < i, Scanned(i, present)
  PROVE  Scanned(j, present)
<1> DEFINE low == {m \in present : m < j}
           high == {m \in present : m < i}
<1>1. total \in Nat /\ data \in Nat
  BY ShapeNumbers
<1>2. low \in SUBSET high
  <2>1. \A m \in 1 .. total : m < j => m < i
    BY <1>1
  <2>2. QED
    BY <2>1, Zenon
<1>3. IsFiniteSet(high) /\ high \in SUBSET present
  BY Places, FS_Subset
<1>4. Cardinality(low) <= Cardinality(high) /\ Cardinality(high) \in Nat
      /\ Cardinality(low) \in Nat
  BY <1>2, <1>3, FS_Subset, FS_CardinalityType
<1>5. Cardinality(high) < data
  BY DEF Scanned
<1>6. QED
  BY <1>1, <1>4, <1>5 DEF Scanned

\* The first place at which two scans choose differently is a gap of one of them
\* alone.
LEMMA FirstDifference ==
  ASSUME TypeOK, shape # None,
         NEW P \in SUBSET (1 .. total), NEW Q \in SUBSET (1 .. total),
         invalidIndices(P) = invalidIndices(Q),
         NEW i \in validIndices(P),
         \A j \in 1 .. total : j < i => (j \in validIndices(P) <=> j \in validIndices(Q))
  PROVE  i \in validIndices(Q)
<1>1. i \in P /\ Scanned(i, P) /\ i \in 1 .. total
  BY DEF validIndices
<1>2. ASSUME NEW j \in 1 .. total, j < i
      PROVE  j \in P <=> j \in Q
  <2>1. Scanned(j, P)
    BY <1>1, <1>2, ScannedBelow
  <2>2. j \in P <=> j \in validIndices(P)
    BY <2>1 DEF validIndices
  <2>3. j \in P <=> j \notin invalidIndices(Q)
    BY <1>2, <2>1 DEF invalidIndices
  <2>4. j \in validIndices(Q) => j \in Q
    BY DEF validIndices
  <2>5. CASE j \in P
    BY <1>2, <2>2, <2>4, <2>5
  <2>6. CASE j \notin P
    BY <2>3, <2>6 DEF invalidIndices
  <2>7. QED
    BY <2>5, <2>6
<1>3. {j \in P : j < i} = {j \in Q : j < i}
  BY <1>2
<1>4. Scanned(i, Q)
  BY <1>1, <1>3 DEF Scanned
<1>5. i \notin invalidIndices(Q)
  BY <1>1 DEF invalidIndices
<1>6. i \in Q
  BY <1>1, <1>4, <1>5 DEF invalidIndices
<1>7. QED
  BY <1>4, <1>6 DEF validIndices

\* The gaps that the scan passes determine the shards it takes, although the key
\* of the cache does not name them.
LEMMA GapsDetermineShards ==
  ASSUME TypeOK, shape # None,
         NEW P \in SUBSET (1 .. total), NEW Q \in SUBSET (1 .. total),
         invalidIndices(P) = invalidIndices(Q)
  PROVE  validIndices(P) = validIndices(Q)
<1> DEFINE Apart == {i \in 1 .. total : (i \in validIndices(P)) # (i \in validIndices(Q))}
<1>1. ASSUME Apart # {} PROVE FALSE
  <2>1. Apart \subseteq Nat
    BY ShapeNumbers
  <2>2. PICK i \in Apart : \A j \in Apart : i <= j
    <3> HIDE DEF Apart
    <3>1. QED
      BY <1>1, <2>1, Least
  <2>3. \A j \in 1 .. total : j < i => (j \in validIndices(P) <=> j \in validIndices(Q))
    <3> TAKE j \in 1 .. total
    <3> HAVE j < i
    <3>1. i \in Int /\ j \in Int
      BY ShapeNumbers
    <3>2. ~ (i <= j)
      BY <3>1
    <3>3. j \notin Apart
      BY <2>2, <3>2
    <3>4. QED
      BY <3>3
  <2>4. i \in validIndices(P) => i \in validIndices(Q)
    BY <2>3, FirstDifference
  <2>5. i \in validIndices(Q) => i \in validIndices(P)
    BY <2>3, FirstDifference
  <2>6. QED
    BY <2>4, <2>5
<1>2. validIndices(P) \subseteq 1 .. total /\ validIndices(Q) \subseteq 1 .. total
  BY DEF validIndices
<1>3. QED
  BY <1>1, <1>2

\* The scan of enough shards ends with data of them.
LEMMA EnoughAreTaken ==
  ASSUME TypeOK, shape # None, NEW present \in SUBSET (1 .. total), Cardinality(present) >= data
  PROVE  Cardinality(validIndices(present)) = data
<1> DEFINE n == data
           V == validIndices(present)
           upTo(i) == {j \in present : j <= i}
           rank == [i \in V |-> Cardinality(upTo(i))]
<1>1. /\ n \in Nat /\ IsFiniteSet(present) /\ present \subseteq Int
      /\ Cardinality(present) \in Nat /\ IsFiniteSet(V) /\ V \subseteq present
  <2>1. present \subseteq Int
    BY ShapeNumbers
  <2>2. V \subseteq present
    BY DEF validIndices
  <2> QED
    BY <2>1, <2>2, ShapeNumbers, Places, FS_CardinalityType
<1>2. ASSUME NEW i \in present
      PROVE  /\ Cardinality(upTo(i)) = Cardinality({j \in present : j < i}) + 1
             /\ Cardinality({j \in present : j < i}) \in Nat
  <2> DEFINE low == {j \in present : j < i}
  <2>1. IsFiniteSet(low) /\ i \notin low /\ Cardinality(low) \in Nat
    BY <1>1, FS_Subset, FS_CardinalityType
  <2>2. upTo(i) = low \cup {i}
    <3>1. \A j \in Int : j <= i <=> j < i \/ j = i
      BY <1>1
    <3> QED
      BY <1>1, <3>1
  <2> HIDE DEF low
  <2>3. Cardinality(low \cup {i}) = Cardinality(low) + 1
    BY <2>1, FS_AddElement
  <2> QED
    BY <2>1, <2>2, <2>3 DEF low
<1>3. \A i \in present : i \in V <=> Cardinality(upTo(i)) <= n
  <2> TAKE i \in present
  <2>1. i \in V <=> Cardinality({j \in present : j < i}) < n
    BY DEF validIndices, Scanned
  <2> QED
    BY <1>1, <1>2, <2>1
<1> HIDE DEF n, V
<1>4. /\ \A i \in present : Cardinality(upTo(i)) \in 1 .. Cardinality(present)
      /\ \A x, y \in present : Cardinality(upTo(x)) = Cardinality(upTo(y)) => x = y
      /\ \A k \in 1 .. Cardinality(present) : \E i \in present : Cardinality(upTo(i)) = k
  BY <1>1, Ranks
<1> HIDE DEF upTo
<1>5. rank \in [V -> 1 .. n]
  <2>1. \A i \in V : Cardinality(upTo(i)) \in 1 .. n
    BY <1>1, <1>3, <1>4
  <2> QED
    BY <2>1
<1>6. \A x, y \in V : rank[x] = rank[y] => x = y
  BY <1>1, <1>4
<1>7. ASSUME NEW k \in 1 .. n PROVE \E i \in V : rank[i] = k
  <2>1. k \in 1 .. Cardinality(present)
    BY <1>1 DEF n
  <2>2. PICK i \in present : Cardinality(upTo(i)) = k
    BY <1>4, <2>1
  <2>3. i \in V
    BY <1>1, <1>3, <2>2
  <2> QED
    BY <2>2, <2>3
<1> HIDE DEF rank
<1>8. rank \in Bijection(V, 1 .. n)
  BY <1>5, <1>6, <1>7 DEF Bijection, Injection, IsInjective, Surjection
<1>9. Cardinality(1 .. n) = n
  BY <1>1, FS_Interval
<1>10. Cardinality(V) = Cardinality(1 .. n)
  <2>1. ExistsBijection(V, 1 .. n)
    BY <1>8 DEF ExistsBijection
  <2> QED
    BY <1>1, <2>1, FS_Bijection
<1> QED
  BY <1>9, <1>10 DEF n, V

\* Two sets of shards that share a node of the tree have one decoding matrix.
LEMMA NodeDeterminesMatrix ==
  ASSUME TypeOK, shape # None,
         NEW P \in SUBSET (1 .. total), NEW Q \in SUBSET (1 .. total),
         Way(Ascending(invalidIndices(P))) = Way(Ascending(invalidIndices(Q)))
  PROVE  DecodeMatrix(P) = DecodeMatrix(Q)
<1>1. /\ Ascending(invalidIndices(P)) \in Seq(Int)
      /\ Ascending(invalidIndices(Q)) \in Seq(Int)
  BY Places, AscendingType
<1>2. Ascending(invalidIndices(P)) = Ascending(invalidIndices(Q))
  BY <1>1, WayInjective
<1>3. invalidIndices(P) = invalidIndices(Q)
  BY <1>2, Places, AscendingInjective
<1>4. validIndices(P) = validIndices(Q)
  BY <1>3, GapsDetermineShards
<1>5. QED
  BY <1>4 DEF DecodeMatrix

-----------------------------------------------------------------------------
(* What is rebuilt                                                         *)

\* A payload of the codec's shape is a matrix.
LEMMA PayloadIsMatrix ==
  ASSUME NEW n \in Nat, n # 0, NEW p \in Payloads, Len(p) = n
  PROVE  \E w \in Nat : p \in Matrices(n, w)
<1>1. p \in Seq(Seq(Field)) /\ \A i \in DOMAIN p : Len(p[i]) = Len(p[1])
  BY CodecAssumption
<1>2. p \in [1 .. n -> Seq(Field)] /\ DOMAIN p = 1 .. n
  BY <1>1, LenProperties
<1> DEFINE w == Len(p[1])
<1>3. w \in Nat
  <2>1. p[1] \in Seq(Field)
    BY <1>2
  <2> QED
    BY <2>1, LenProperties
<1>4. ASSUME NEW i \in 1 .. n PROVE p[i] \in Vectors(w)
  <2>1. p[i] \in Seq(Field) /\ Len(p[i]) = w
    BY <1>1, <1>2
  <2>2. p[i] \in [1 .. Len(p[i]) -> Field]
    BY <2>1, LenProperties
  <2> QED
    BY <2>1, <2>2 DEF Vectors
<1>5. p = [i \in 1 .. n |-> p[i]]
  BY <1>2
<1> HIDE DEF w
<1>6. p \in Matrices(n, w)
  BY <1>4, <1>5 DEF Matrices
<1> QED
  BY <1>3, <1>6

\* The numbers of the shape and the rows of its matrix.
LEMMA CodecRows ==
  ASSUME TypeOK, shape # None
  PROVE  /\ data # 0 /\ data <= total /\ codingMatrix[shape] \in Matrices(total, data)
         /\ \A z \in Vectors(data), i \in 1 .. data : Dot(data, codingMatrix[shape][i], z) = z[i]
         /\ \A at \in [1 .. data -> 1 .. total] :
              (\A k, l \in 1 .. data : at[k] = at[l] => k = l)
                => Invert([k \in 1 .. data |-> codingMatrix[shape][at[k]]]) # Empty
<1>1. shape \in Shapes /\ Valid(shape)
  BY DEF TypeOK
<1>2. codingMatrix[shape] = CodingMatrix(shape)
  BY <1>1 DEF codingMatrix
<1> QED
  BY <1>1, <1>2, CodingRows DEF data, total

\* An element of a shard is the shard's row times the column of the data shards.
LEMMA EncodedAt ==
  ASSUME TypeOK, shape # None, NEW w \in Nat, NEW p \in Matrices(data, w), NEW i \in 1 .. total
  PROVE  /\ EncodeShards(p)[i] \in Vectors(w)
         /\ \A j \in 1 .. w :
              /\ [l \in 1 .. data |-> p[l][j]] \in Vectors(data)
              /\ EncodeShards(p)[i][j] = Dot(data, codingMatrix[shape][i], [l \in 1 .. data |-> p[l][j]])
<1>1. PICK n \in Nat : n = data /\ n # 0
  BY ShapeNumbers
<1>2. \A l \in 1 .. n : p[l] \in Vectors(w) /\ \A j \in 1 .. w : p[l][j] \in Field
  BY <1>1, MatrixRows
<1>3. ASSUME NEW j \in 1 .. w PROVE [l \in 1 .. n |-> p[l][j]] \in Vectors(n)
  BY <1>2 DEF Vectors
<1>4. PICK c \in Vectors(n) : c = codingMatrix[shape][i]
  <2>1. codingMatrix[shape] \in Matrices(total, n) /\ total \in Nat
    BY <1>1, CodecRows, ShapeNumbers
  <2> QED
    BY <2>1, MatrixRows
<1>5. CASE i \in 1 .. n
  <2>1. EncodeShards(p)[i] = p[i]
    BY <1>1, <1>5 DEF EncodeShards
  <2>2. ASSUME NEW j \in 1 .. w
        PROVE  p[i][j] = Dot(n, c, [l \in 1 .. n |-> p[l][j]])
    <3> DEFINE z == [l \in 1 .. n |-> p[l][j]]
    <3>1. z \in Vectors(n) /\ z[i] = p[i][j]
      BY <1>3, <1>5
    <3> HIDE DEF z
    <3>2. Dot(n, c, z) = z[i]
      BY <1>1, <1>4, <1>5, <3>1, CodecRows
    <3> QED
      BY <3>1, <3>2 DEF z
  <2> QED
    BY <1>1, <1>2, <1>3, <1>4, <1>5, <2>1, <2>2
<1>6. CASE i \notin 1 .. n
  <2>1. EncodeShards(p)[i] = Combine(c, p)
    <3>1. ~ (i <= n)
      BY <1>6, ShapeNumbers
    <3> QED
      BY <1>1, <1>4, <3>1 DEF EncodeShards, Shard
  <2>2. p \in Matrices(n, w)
    BY <1>1
  <2>3. Combine(c, p) \in Vectors(w)
    BY <1>1, <2>2, CombineDot
  <2>4. \A j \in 1 .. w : Combine(c, p)[j] = Dot(n, c, [l \in 1 .. n |-> p[l][j]])
    BY <1>1, <2>2, CombineAt
  <2> QED
    BY <1>1, <1>3, <1>4, <2>1, <2>3, <2>4
<1> QED
  BY <1>5, <1>6

\* The shards the scan takes are data different ones of the group.
LEMMA TakenRows ==
  ASSUME TypeOK, shape # None, NEW present \in SUBSET (1 .. total), Cardinality(present) >= data
  PROVE  LET rows == Ascending(validIndices(present))
         IN  /\ DOMAIN rows = 1 .. data /\ rows \in [1 .. data -> 1 .. total]
             /\ \A k, l \in 1 .. data : rows[k] = rows[l] => k = l
<1> DEFINE V == validIndices(present)
           rows == Ascending(V)
<1>1. V \subseteq Int /\ IsFiniteSet(V) /\ V \subseteq 1 .. total /\ Cardinality(V) = data
  <2>1. V \subseteq 1 .. total
    BY DEF validIndices
  <2> QED
    BY <2>1, Places, EnoughAreTaken
<1> HIDE DEF V
<1>2. rows = [k \in 1 .. data |-> rows[k]] /\ DOMAIN rows = 1 .. data
  BY <1>1 DEF Ascending
<1>3. \A k \in 1 .. data : rows[k] \in V
  BY <1>1, <1>2, AscendingIn
<1>4. \A k, l \in 1 .. data : rows[k] = rows[l] => k = l
  BY <1>1, <1>2, AscendingOnce
<1> HIDE DEF rows
<1>5. rows \in [1 .. data -> 1 .. total]
  BY <1>1, <1>2, <1>3
<1> QED
  BY <1>2, <1>4, <1>5 DEF rows, V

\* The decoding matrix exists, whichever shards were found.
LEMMA DecodeMatrixExists ==
  ASSUME TypeOK, shape # None, NEW present \in SUBSET (1 .. total), Cardinality(present) >= data
  PROVE  DecodeMatrix(present) # Empty /\ IsSquare(DecodeMatrix(present))
<1>1. PICK n \in Nat, m \in Nat : n = data /\ m = total /\ n # 0
  BY ShapeNumbers
<1>2. PICK rows \in [1 .. n -> 1 .. m] :
        /\ rows = Ascending(validIndices(present)) /\ DOMAIN rows = 1 .. n
        /\ \A k, l \in 1 .. n : rows[k] = rows[l] => k = l
  BY <1>1, TakenRows
<1> DEFINE e == [k \in 1 .. n |-> codingMatrix[shape][rows[k]]]
<1>3. DecodeMatrix(present) = Invert(e)
  BY <1>2 DEF DecodeMatrix
<1>4. Invert(e) # Empty
  BY <1>1, <1>2, CodecRows
<1>5. e \in Matrices(n, n)
  <2>1. codingMatrix[shape] \in Matrices(m, n)
    BY <1>1, CodecRows
  <2>2. \A k \in 1 .. n : codingMatrix[shape][rows[k]] \in Vectors(n)
    BY <2>1, MatrixRows
  <2> QED
    BY <2>2 DEF Matrices
<1> HIDE DEF e
<1>6. Invert(e) \in Matrices(n, n)
  BY <1>1, <1>4, <1>5, Inversion
<1>7. IsSquare(Invert(e))
  <2>1. Len(Invert(e)) = n /\ 1 \in 1 .. n
    BY <1>1, <1>6, MatrixRows
  <2>2. Len(Invert(e)[1]) = n
    BY <1>6, <2>1, MatrixRows
  <2> QED
    BY <1>1, <2>1, <2>2 DEF IsSquare
<1> QED
  BY <1>3, <1>4, <1>7

\* The decoding matrix makes the data shards of those found.
LEMMA DecodeMatrixDecodes ==
  ASSUME TypeOK, shape # None, NEW present \in SUBSET (1 .. total), Cardinality(present) >= data,
         NEW w \in Nat, NEW p \in Matrices(data, w), word = EncodeShards(p), NEW i \in 1 .. data
  PROVE  LET rows == Ascending(validIndices(present))
         IN  Combine(DecodeMatrix(present)[i], [k \in DOMAIN rows |-> word[rows[k]]]) = p[i]
<1>1. PICK n \in Nat, m \in Nat : n = data /\ m = total /\ n # 0
  BY ShapeNumbers
<1>2. PICK rows \in [1 .. n -> 1 .. m] :
        rows = Ascending(validIndices(present)) /\ DOMAIN rows = 1 .. n
  BY <1>1, TakenRows
<1> DEFINE e == [k \in 1 .. n |-> codingMatrix[shape][rows[k]]]
           inverse == DecodeMatrix(present)
           found == [k \in 1 .. n |-> word[rows[k]]]
           column(j) == [l \in 1 .. n |-> p[l][j]]
<1>3. inverse = Invert(e) /\ inverse # Empty
  BY <1>2, DecodeMatrixExists DEF DecodeMatrix
<1>4. e \in Matrices(n, n) /\ \A k \in 1 .. n : e[k] = codingMatrix[shape][rows[k]]
  <2>1. codingMatrix[shape] \in Matrices(m, n)
    BY <1>1, CodecRows
  <2>2. \A k \in 1 .. n : codingMatrix[shape][rows[k]] \in Vectors(n)
    BY <2>1, MatrixRows
  <2> QED
    BY <2>2 DEF Matrices
<1> HIDE DEF e, inverse
<1>5. /\ inverse \in Matrices(n, n)
      /\ \A x, y \in Vectors(n) : (\A k \in 1 .. n : Dot(n, e[k], x) = y[k])
                                    <=> (\A k \in 1 .. n : Dot(n, inverse[k], y) = x[k])
  BY <1>1, <1>3, <1>4, Inversion
<1>6. ASSUME NEW k \in 1 .. n
      PROVE  /\ word[rows[k]] \in Vectors(w)
             /\ \A j \in 1 .. w : column(j) \in Vectors(n) /\ word[rows[k]][j] = Dot(n, e[k], column(j))
  <2>1. rows[k] \in 1 .. total
    BY <1>1
  <2>2. /\ word[rows[k]] \in Vectors(w)
        /\ \A j \in 1 .. w :
             /\ column(j) \in Vectors(n)
             /\ word[rows[k]][j] = Dot(n, codingMatrix[shape][rows[k]], column(j))
    BY <1>1, <2>1, EncodedAt
  <2> QED
    BY <1>4, <2>2
<1>7. found \in Matrices(n, w) /\ \A k \in 1 .. n : found[k] = word[rows[k]]
  BY <1>6 DEF Matrices
<1> HIDE DEF found
<1>8. PICK r \in Vectors(n) : r = inverse[i]
  BY <1>1, <1>5, MatrixRows
<1>9. ASSUME NEW j \in 1 .. w PROVE Combine(r, found)[j] = p[i][j]
  <2> DEFINE y == [l \in 1 .. n |-> found[l][j]]
             x == column(j)
  <2>1. y \in Vectors(n)
    <3>1. \A l \in 1 .. n : found[l][j] \in Field
      BY <1>7, MatrixRows
    <3> QED
      BY <3>1 DEF Vectors
  <2>2. Combine(r, found)[j] = Dot(n, r, y)
    <3>1. found \in Matrices(n, w) /\ n \in Nat \ {0}
      BY <1>1, <1>7
    <3> HIDE DEF column
    <3> QED
      BY <3>1, CombineAt
  <2>3. \A k \in 1 .. n : y[k] = found[k][j]
    OBVIOUS
  <2>4. x \in Vectors(n) /\ x[i] = p[i][j] /\ \A k \in 1 .. n : found[k][j] = Dot(n, e[k], x)
    BY <1>1, <1>6, <1>7
  <2> HIDE DEF x, y
  <2>5. \A k \in 1 .. n : Dot(n, inverse[k], y) = x[k]
    BY <1>5, <2>1, <2>3, <2>4
  <2> QED
    BY <1>1, <1>8, <2>2, <2>4, <2>5
<1>10. Combine(r, found) \in Vectors(w)
  BY <1>1, <1>7, CombineDot
<1>11. p[i] \in Vectors(w)
  BY <1>1, MatrixRows
<1>12. Combine(r, found) = p[i]
  BY <1>9, <1>10, <1>11 DEF Vectors
<1> QED
  BY <1>2, <1>8, <1>12 DEF inverse, found

\* A group that was encoded is given back by any data shards of it.
LEMMA RebuiltIsWord ==
  ASSUME TypeOK, shape # None, NEW present \in SUBSET (1 .. total), Cardinality(present) >= data,
         NEW p \in Payloads, Len(p) = data, word = EncodeShards(p),
         NEW matrix, matrix = DecodeMatrix(present) \/ 1 .. data \subseteq present
  PROVE  Rebuilt(present, matrix) = word
<1> DEFINE rows == Ascending(validIndices(present))
           found == [i \in DOMAIN rows |-> word[rows[i]]]
           input == [i \in 1 .. data |->
                       IF i \in present THEN word[i] ELSE Combine(matrix[i], found)]
<1>1. data \in Nat /\ data # 0 /\ data <= total /\ total \in Nat
  BY ShapeNumbers
<1>2. PICK w \in Nat : p \in Matrices(data, w)
  BY <1>1, PayloadIsMatrix
<1>3. ASSUME NEW i \in 1 .. data
      PROVE  (IF i \in present THEN word[i] ELSE Combine(matrix[i], found)) = p[i]
  <2>1. CASE i \in present
    <3>1. i \in 1 .. total /\ i <= data
      BY <1>1
    <3> QED
      BY <2>1, <3>1 DEF EncodeShards
  <2>2. CASE i \notin present
    <3>1. matrix = DecodeMatrix(present)
      BY <2>2
    <3>2. Combine(DecodeMatrix(present)[i], found) = p[i]
      BY <1>2, DecodeMatrixDecodes
    <3> QED
      BY <2>2, <3>1, <3>2
  <2> QED
    BY <2>1, <2>2
<1> HIDE DEF found
<1>4. input = p
  <2>1. p = [i \in 1 .. data |-> p[i]]
    BY <1>2 DEF Matrices
  <2> QED
    BY <1>3, <2>1
<1>5. Rebuilt(present, matrix) =
        [i \in 1 .. total |-> IF i \in present THEN word[i]
                              ELSE IF i <= data THEN input[i] ELSE Shard(i, input)]
  BY DEF Rebuilt, found
<1> HIDE DEF input
<1>6. \A i \in 1 .. total : word[i] = IF i <= data THEN p[i] ELSE Shard(i, p)
  BY DEF EncodeShards
<1>7. word = [i \in 1 .. total |-> word[i]]
  BY DEF EncodeShards
<1> QED
  BY <1>4, <1>5, <1>6, <1>7

\* A list without gaps: the data shards are all there.
LEMMA NoGaps ==
  ASSUME TypeOK, shape # None, NEW present \in SUBSET (1 .. total), invalidIndices(present) = {}
  PROVE  1 .. data \subseteq present
<1> SUFFICES ASSUME NEW i \in 1 .. data PROVE i \in present
  OBVIOUS
<1>1. data \in Nat /\ total \in Nat /\ i \in 1 .. total
  BY ShapeNumbers
<1> DEFINE low == {j \in present : j < i}
<1>2. low \in SUBSET (1 .. i - 1) /\ i - 1 \in Nat
  <2>1. \A j \in 1 .. total : j < i => j \in 1 .. i - 1
    BY <1>1
  <2>2. i - 1 \in Nat
    BY <1>1
  <2> QED
    BY <2>1, <2>2, Zenon
<1>3. IsFiniteSet(1 .. i - 1) /\ Cardinality(1 .. i - 1) = i - 1
  BY <1>2, FS_Interval
<1>4. Cardinality(low) <= i - 1 /\ Cardinality(low) \in Nat
  <2> HIDE DEF low
  <2>1. IsFiniteSet(low) /\ Cardinality(low) <= Cardinality(1 .. i - 1)
    BY <1>2, <1>3, FS_Subset
  <2> QED
    BY <1>3, <2>1, FS_CardinalityType
<1>5. Scanned(i, present)
  BY <1>1, <1>4 DEF Scanned
<1> QED
  BY <1>1, <1>5 DEF invalidIndices

-----------------------------------------------------------------------------
(* The inductive invariant                                                 *)

\* CacheExact speaks of every set of shards, so a step that fills one node keeps
\* it: it needs only the types beside it, and that a group comes after the codec.
CInv == TypeOK /\ CacheExact /\ (shape = None => word = <<>>)

\* The insertion of a matrix: its node has it, the others keep what they had.
LEMMA InsertEffect ==
  ASSUME NEW t, NEW L \in Seq(Int), NEW m, NEW G \in Seq(Int)
  PROVE  GetInvertedMatrix(InsertInvertedMatrix(t, L, m), G) =
           IF Way(G) = Way(L) THEN m ELSE GetInvertedMatrix(t, G)
<1> DEFINE ways == {SubSeq(Way(L), 1, n) : n \in 0 .. Len(L)}
<1>1. InsertInvertedMatrix(t, L, m) =
            [way \in DOMAIN t \cup ways |->
               IF way = Way(L) THEN m ELSE IF way \in DOMAIN t THEN t[way] ELSE Missing]
  BY DEF InsertInvertedMatrix
<1>2. Way(L) \in ways
  <2>1. Way(L) \in Seq(Int) /\ Len(Way(L)) = Len(L) /\ Len(L) \in Nat
    BY WayType
  <2>2. SubSeq(Way(L), 1, Len(L)) = Way(L)
    <3> HIDE DEF ways
    <3>1. \A w \in Seq(Int) : SubSeq(w, 1, Len(w)) = w
      OBVIOUS
    <3>2. QED
      BY <2>1, <3>1, Zenon
  <2>3. Len(L) \in 0 .. Len(L)
    BY <2>1
  <2>4. QED
    BY <2>2, <2>3, Zenon
<1> HIDE DEF ways
<1>3. CASE Way(G) = Way(L)
  BY <1>1, <1>2, <1>3 DEF GetInvertedMatrix
<1>4. CASE Way(G) # Way(L)
  BY <1>1, <1>4 DEF GetInvertedMatrix
<1>5. QED
  BY <1>3, <1>4

\* The insertion leaves a tree: every node has the one above it.
LEMMA InsertKeepsTree ==
  ASSUME NEW t, NEW L \in Seq(Int), NEW m,
         \A way \in DOMAIN t : way = <<>> \/ SubSeq(way, 1, Len(way) - 1) \in DOMAIN t,
         NEW way \in DOMAIN InsertInvertedMatrix(t, L, m)
  PROVE  \/ way = <<>>
         \/ SubSeq(way, 1, Len(way) - 1) \in DOMAIN InsertInvertedMatrix(t, L, m)
<1> DEFINE ways == {SubSeq(Way(L), 1, n) : n \in 0 .. Len(L)}
<1>1. DOMAIN InsertInvertedMatrix(t, L, m) = DOMAIN t \cup ways
  BY DEF InsertInvertedMatrix
<1>2. CASE way \in DOMAIN t
  BY <1>1, <1>2
<1>3. CASE way \in ways
  <2>1. PICK n \in 0 .. Len(L) : way = SubSeq(Way(L), 1, n)
    BY <1>3
  <2>2. Way(L) \in Seq(Int) /\ Len(Way(L)) = Len(L) /\ Len(L) \in Nat
    BY WayType
  <2>3. CASE n = 0
    BY <2>1, <2>2, <2>3
  <2>4. CASE n # 0
    <3>1. n - 1 \in 0 .. Len(L) /\ Len(way) = n
      BY <2>1, <2>2, <2>4
    <3>2. SubSeq(way, 1, n - 1) = SubSeq(Way(L), 1, n - 1)
      BY <2>1, <2>2, <2>4, <3>1
    <3>3. SubSeq(way, 1, Len(way) - 1) \in ways
      BY <3>1, <3>2
    <3>4. QED
      BY <1>1, <3>3
  <2>5. QED
    BY <2>3, <2>4
<1>4. QED
  BY <1>1, <1>2, <1>3

\* A codec that was not constructed has an empty cache.
THEOREM CodecInit == Init => CInv
<1> SUFFICES ASSUME Init PROVE CInv
  OBVIOUS
<1>1. TypeOK
  BY DEF Init, TypeOK, NewTree
<1>2. CacheExact
  BY DEF Init, CacheExact
<1>3. QED
  BY <1>1, <1>2 DEF CInv, Init

\* kcp_rs_new: the root alone has a matrix, and no list of gaps leads to it.
LEMMA NewPreserves ==
  ASSUME CInv, NEW s \in Shapes, New(s)
  PROVE  CInv'
<1>1. TypeOK /\ refused' = (~ Valid(s) \/ codingMatrix[s] = Empty)
  BY DEF CInv, New
<1>2. CASE refused'
  <2>1. UNCHANGED <<shape, tree, word>> /\ shape = None
    BY <1>2 DEF New
  <2>2. TypeOK'
    BY <1>1, <1>2, <2>1 DEF TypeOK
  <2>3. CacheExact'
    BY <2>1 DEF CacheExact
  <2>4. QED
    BY <2>1, <2>2, <2>3 DEF CInv
<1>3. CASE ~ refused'
  <2>1. shape' = s /\ tree' = NewTree(identityMatrix(s[1])) /\ Valid(s)
    BY <1>1, <1>3 DEF New
  <2>2. DOMAIN tree' = {<<>>}
    BY <2>1 DEF NewTree
  <2>3. refused' \in BOOLEAN
    BY <1>1
  <2>4. TypeOK'
    BY <2>1, <2>2, <2>3 DEF TypeOK
  <2>5. SUFFICES ASSUME shape' # None, NEW present \in SUBSET (1 .. total'),
                        invalidIndices(present)' # {}
                 PROVE  GetInvertedMatrix(tree, Ascending(invalidIndices(present)))' = Missing
    <3>1. s # None
      BY CodecAssumption
    <3>2. QED
      BY <2>1, <2>4, <2>5, <3>1 DEF CInv, CacheExact
  <2> DEFINE gaps == invalidIndices(present)'
  <2>6. gaps \subseteq Int /\ IsFiniteSet(gaps)
    <3>1. total' \in Nat
      <4>1. s[1] \in Int /\ s[2] \in Int
        BY CodecAssumption
      <4>2. QED
        BY <2>1, <4>1 DEF total, Valid, Bridged
    <3>2. gaps \in SUBSET (1 .. total')
      BY DEF invalidIndices
    <3>3. QED
      BY <3>1, <3>2, PlacesUpTo
  <2>7. Ascending(gaps) \in Seq(Int) /\ Len(Ascending(gaps)) = Cardinality(gaps)
    BY <2>6, AscendingType
  <2>8. Len(Way(Ascending(gaps))) # 0
    BY <2>5, <2>6, <2>7, WayType, FS_EmptySet
  <2>9. Way(Ascending(gaps)) \notin DOMAIN tree'
    BY <2>2, <2>8
  <2>10. QED
    BY <2>9 DEF GetInvertedMatrix
<1>4. QED
  BY <1>2, <1>3

\* kcp_rs_reconstruct of a group that needs a decoding matrix.
LEMMA ReconstructPreserves ==
  ASSUME CInv, word # <<>>, NEW present \in SUBSET (1 .. total), ReconstructMissing(present)
  PROVE  CInv'
<1> DEFINE gaps == Ascending(invalidIndices(present))
           cached == GetInvertedMatrix(tree, gaps)
           matrix == DecodeMatrix(present)
<1>1. TypeOK /\ CacheExact /\ shape # None /\ UNCHANGED <<shape, refused>>
  BY DEF CInv, ReconstructMissing
<1>2. \/ tree' = tree
      \/ tree' = InsertInvertedMatrix(tree, gaps, matrix) /\ cached = Missing
  BY Zenon DEF ReconstructMissing
<1>3. CASE tree' = tree
  <2>1. TypeOK'
    BY <1>1, <1>3 DEF TypeOK
  <2>2. CacheExact'
    BY <1>1, <1>3 DEF CacheExact, total, data, invalidIndices, Scanned, DecodeMatrix, validIndices
  <2>3. QED
    BY <1>1, <2>1, <2>2 DEF CInv
<1>4. CASE tree' = InsertInvertedMatrix(tree, gaps, matrix)
  <2>1. gaps \in Seq(Int)
    BY <1>1, <1>4, Places, AscendingType
  <2>2. TypeOK'
    BY <1>1, <1>4, <2>1, InsertKeepsTree DEF TypeOK
  <2>3. SUFFICES ASSUME NEW other \in SUBSET (1 .. total), Cardinality(other) >= data,
                        invalidIndices(other) # {}
                 PROVE  GetInvertedMatrix(tree', Ascending(invalidIndices(other)))
                          \in {Missing, DecodeMatrix(other)}
    BY <1>1, <2>2 DEF CInv, CacheExact, total, data, invalidIndices, Scanned,
       DecodeMatrix, validIndices
  <2> DEFINE itsGaps == Ascending(invalidIndices(other))
  <2>4. itsGaps \in Seq(Int)
    BY <1>1, <1>4, Places, AscendingType
  <2>5. GetInvertedMatrix(tree', itsGaps) =
          IF Way(itsGaps) = Way(gaps) THEN matrix ELSE GetInvertedMatrix(tree, itsGaps)
    BY <1>4, <2>1, <2>4, InsertEffect
  <2>6. CASE Way(itsGaps) = Way(gaps)
    BY <1>1, <1>4, <2>5, <2>6, NodeDeterminesMatrix
  <2>7. CASE Way(itsGaps) # Way(gaps)
    BY <1>1, <1>4, <2>3, <2>5, <2>7 DEF CacheExact
  <2>8. QED
    BY <2>6, <2>7
<1>5. QED
  BY <1>2, <1>3, <1>4

\* Every call of the bridge preserves the invariant.
THEOREM CodecStep == CInv /\ [Next]_vars => CInv'
<1> SUFFICES ASSUME CInv, [Next]_vars PROVE CInv'
  OBVIOUS
<1>1. ASSUME UNCHANGED <<shape, refused, tree>>,
             shape = None => word' = <<>>
      PROVE  CInv'
  <2>1. TypeOK'
    BY <1>1 DEF CInv, TypeOK
  <2>2. CacheExact'
    BY <1>1 DEF CInv, CacheExact, total, data, invalidIndices, Scanned, DecodeMatrix, validIndices
  <2>3. QED
    BY <1>1, <2>1, <2>2 DEF CInv
<1>2. ASSUME NEW s \in Shapes, New(s)
      PROVE  CInv'
  BY <1>2, NewPreserves
<1>3. ASSUME NEW p \in Payloads, Encode(p)
      PROVE  CInv'
  BY <1>1, <1>3 DEF Encode, CInv
<1>4. ASSUME NEW present \in SUBSET (1 .. total), ReconstructNothing(present)
      PROVE  CInv'
  BY <1>1, <1>4 DEF ReconstructNothing, CInv
<1>5. ASSUME word # <<>>, NEW present \in SUBSET (1 .. total), ReconstructMissing(present)
      PROVE  CInv'
  BY <1>5, ReconstructPreserves
<1>6. CASE UNCHANGED vars
  BY <1>1, <1>6 DEF vars, CInv
<1>7. QED
  BY <1>2, <1>3, <1>4, <1>5, <1>6 DEF Next, Reconstruct

\* The invariant of the codec holds for all constants.
THEOREM CodecInvariance == Spec => []CInv
BY CodecInit, CodecStep, PTL DEF Spec

\* The codec's fields keep their types, and its cache is a tree.
THEOREM CodecTypes == Spec => []TypeOK
<1>1. CInv => TypeOK
  BY DEF CInv
<1>2. QED
  BY <1>1, CodecInvariance, PTL

\* A cached matrix is the one that a fresh inversion would give, whatever was
\* decoded before.
THEOREM CacheNeverStale == Spec => []CacheExact
<1>1. CInv => CacheExact
  BY DEF CInv
<1>2. QED
  BY <1>1, CodecInvariance, PTL

-----------------------------------------------------------------------------
(* Any shards suffice                                                      *)

\* A codec has the identity at the root of its tree, whatever else it has; a group
\* is the encoding of a payload; an outcome belongs to the group.
GroupKept ==
  /\ shape = None => got = None
  /\ shape # None => <<>> \in DOMAIN tree /\ tree[<<>>] # Missing
  /\ word # <<>> => \E p \in Payloads : Len(p) = data /\ word = EncodeShards(p)

\* What the codec is asked to rebuild is rebuilt, by induction along with the cache.
RInv == CInv /\ GroupKept /\ AnyShardsSuffice

\* A step that leaves codec and tree leaves what follows from them.
LEMMA SameCodec ==
  ASSUME GroupKept, UNCHANGED <<shape, tree>>, shape # None,
         word' = word \/ \E p \in Payloads : Len(p) = data /\ word' = EncodeShards(p)
  PROVE  GroupKept'
<1>1. data' = data /\ total' = total
  BY DEF data, total
<1>2. \A p : EncodeShards(p)' = EncodeShards(p)
  BY <1>1 DEF EncodeShards, Shard
<1> QED
  BY <1>1, <1>2 DEF GroupKept

\* A list of gaps that is not empty does not lead to the root.
LEMMA GapsAreBelow ==
  ASSUME TypeOK, shape # None, NEW present \in SUBSET (1 .. total), invalidIndices(present) # {}
  PROVE  /\ Ascending(invalidIndices(present)) \in Seq(Int)
         /\ Ascending(invalidIndices(present)) # <<>>
         /\ Way(Ascending(invalidIndices(present))) # <<>>
<1> DEFINE gaps == Ascending(invalidIndices(present))
<1>1. /\ gaps \in Seq(Int) /\ Len(gaps) = Cardinality(invalidIndices(present))
      /\ IsFiniteSet(invalidIndices(present))
  BY Places, AscendingType
<1>2. Len(gaps) # 0
  BY <1>1, FS_EmptySet
<1>3. Len(Way(gaps)) # 0
  BY <1>1, <1>2, WayType
<1> HIDE DEF gaps
<1>4. gaps # <<>> /\ Way(gaps) # <<>>
  BY <1>2, <1>3
<1> QED
  BY <1>1, <1>4 DEF gaps

\* The insertion below the root leaves the root.
LEMMA RootKept ==
  ASSUME NEW t, NEW L, NEW m, <<>> \in DOMAIN t, Way(L) # <<>>
  PROVE  /\ <<>> \in DOMAIN InsertInvertedMatrix(t, L, m)
         /\ InsertInvertedMatrix(t, L, m)[<<>>] = t[<<>>]
BY DEF InsertInvertedMatrix

\* The matrix of a decode that needs one: it is not refused.
LEMMA MissingRebuilt ==
  ASSUME RInv, word # <<>>, NEW present \in SUBSET (1 .. total), ReconstructMissing(present)
  PROVE  /\ got' = [present |-> present, ret |-> 0, shards |-> word]
         /\ <<>> \in DOMAIN tree' /\ tree'[<<>>] = tree[<<>>]
<1> DEFINE gaps == Ascending(invalidIndices(present))
           cached == GetInvertedMatrix(tree, gaps)
           matrix == IF cached = Missing THEN DecodeMatrix(present) ELSE cached
           failed == cached = Missing /\ ~ Insertable(gaps, matrix)
<1>1. /\ TypeOK /\ CacheExact /\ shape # None /\ <<>> \in DOMAIN tree /\ tree[<<>>] # Missing
      /\ Cardinality(present) >= data
  BY DEF RInv, CInv, GroupKept, ReconstructMissing
<1>2. PICK p \in Payloads : Len(p) = data /\ word = EncodeShards(p)
  BY DEF RInv, GroupKept
<1>3. /\ tree' = IF cached = Missing /\ ~ failed THEN InsertInvertedMatrix(tree, gaps, matrix)
                 ELSE tree
      /\ got' = [present |-> present, ret |-> IF failed THEN -3 ELSE 0,
                 shards |-> IF failed THEN <<>> ELSE Rebuilt(present, matrix)]
  BY DEF ReconstructMissing
<1>4. CASE invalidIndices(present) = {}
  <2>1. gaps = <<>>
    <3>1. Cardinality({}) = 0
      BY FS_EmptySet
    <3>2. gaps = [k \in 1 .. 0 |-> Nth({}, k)]
      BY <1>4, <3>1 DEF Ascending
    <3> QED
      BY <3>2
  <2>2. Way(<<>>) = <<>>
    BY DEF Way
  <2>3. cached = tree[<<>>]
    BY <1>1, <2>1, <2>2 DEF GetInvertedMatrix
  <2>4. cached # Missing /\ ~ failed
    BY <1>1, <2>3
  <2> HIDE DEF matrix, cached, failed
  <2>5. Rebuilt(present, matrix) = word
    BY <1>1, <1>2, <1>4, NoGaps, RebuiltIsWord
  <2> QED
    BY <1>1, <1>3, <2>4, <2>5
<1>5. CASE invalidIndices(present) # {}
  <2>1. gaps # <<>> /\ Way(gaps) # <<>>
    BY <1>1, <1>5, GapsAreBelow
  <2>2. cached \in {Missing, DecodeMatrix(present)}
    BY <1>1, <1>5 DEF CacheExact
  <2>3. IsSquare(DecodeMatrix(present))
    BY <1>1, DecodeMatrixExists
  <2>4. matrix = DecodeMatrix(present)
    BY <2>2
  <2>5. ~ failed
    BY <2>1, <2>3, <2>4 DEF Insertable
  <2> HIDE DEF matrix, cached, failed, gaps
  <2>6. Rebuilt(present, matrix) = word
    BY <1>1, <1>2, <2>4, RebuiltIsWord
  <2>7. <<>> \in DOMAIN tree' /\ tree'[<<>>] = tree[<<>>]
    BY <1>1, <1>3, <2>1, RootKept
  <2> QED
    BY <1>3, <2>5, <2>6, <2>7
<1> QED
  BY <1>4, <1>5

\* Before there is a codec there is nothing to rebuild.
THEOREM RebuildInit == Init => RInv
<1> SUFFICES ASSUME Init PROVE RInv
  OBVIOUS
<1>1. CInv
  BY CodecInit
<1>2. GroupKept /\ AnyShardsSuffice
  BY DEF Init, GroupKept, AnyShardsSuffice
<1> QED
  BY <1>1, <1>2 DEF RInv

\* Every call of the bridge rebuilds what it is asked to.
THEOREM RebuildStep == RInv /\ [Next]_vars => RInv'
<1> SUFFICES ASSUME RInv, [Next]_vars PROVE RInv'
  OBVIOUS
<1>1. CInv'
  BY CodecStep DEF RInv
<1>2. ASSUME NEW s \in Shapes, New(s) PROVE GroupKept' /\ AnyShardsSuffice'
  <2>1. shape = None /\ word = <<>> /\ got = None /\ word' = <<>> /\ got' = None
    BY <1>2 DEF RInv, CInv, GroupKept, New
  <2>2. AnyShardsSuffice'
    BY <2>1 DEF AnyShardsSuffice
  <2>3. CASE refused'
    <3>1. shape' = None
      BY <1>2, <2>1, <2>3 DEF New
    <3> QED
      BY <2>1, <2>2, <3>1 DEF GroupKept
  <2>4. CASE ~ refused'
    <3>1. tree' = NewTree(identityMatrix(s[1])) /\ Valid(s)
      BY <1>2, <2>4 DEF New
    <3>2. Len(identityMatrix(s[1])) # 0
      <4>1. s[1] \in Int /\ s[1] > 0
        BY <3>1, CodecAssumption DEF Valid, Bridged
      <4> QED
        BY <4>1 DEF identityMatrix
    <3>3. <<>> \in DOMAIN tree' /\ tree'[<<>>] = identityMatrix(s[1])
      BY <3>1 DEF NewTree
    <3>4. tree'[<<>>] # Missing
      BY <3>2, <3>3 DEF Missing
    <3> QED
      BY <2>1, <2>2, <3>3, <3>4 DEF GroupKept
  <2> QED
    BY <2>3, <2>4
<1>3. ASSUME NEW p \in Payloads, Encode(p) PROVE GroupKept' /\ AnyShardsSuffice'
  <2>1. /\ shape # None /\ Len(p) = data /\ word' = EncodeShards(p) /\ got' = None
        /\ UNCHANGED <<shape, tree>>
    BY <1>3 DEF Encode
  <2>2. GroupKept'
    BY <2>1, SameCodec DEF RInv
  <2> QED
    BY <2>1, <2>2 DEF AnyShardsSuffice
<1>4. ASSUME word # <<>>, NEW present \in SUBSET (1 .. total), ReconstructNothing(present)
      PROVE  GroupKept' /\ AnyShardsSuffice'
  <2>1. shape # None /\ TypeOK /\ UNCHANGED <<shape, tree, word>>
    BY <1>4 DEF RInv, CInv, ReconstructNothing
  <2>2. GroupKept'
    BY <2>1, SameCodec DEF RInv
  <2>3. data' = data
    BY <2>1 DEF data
  <2>4. data \in Nat /\ total \in Nat /\ data < total
    BY <2>1, ShapeNumbers
  <2>5. CASE present = 1 .. total
    <3>1. got' = [present |-> present, ret |-> 0, shards |-> word]
      BY <1>4, <2>5 DEF ReconstructNothing
    <3>2. Cardinality(present) = total
      BY <2>4, <2>5, FS_Interval
    <3>3. ~ (Cardinality(got'.present) < data) /\ got'.ret = 0 /\ got'.shards = word
      BY <2>4, <3>1, <3>2
    <3> QED
      BY <2>1, <2>2, <2>3, <3>3 DEF AnyShardsSuffice
  <2>6. CASE present # 1 .. total
    <3>1. got'.present = present /\ got'.ret = -3 /\ Cardinality(present) < data
      BY <1>4, <2>6 DEF ReconstructNothing
    <3> QED
      BY <2>2, <2>3, <3>1 DEF AnyShardsSuffice
  <2> QED
    BY <2>5, <2>6
<1>5. ASSUME word # <<>>, NEW present \in SUBSET (1 .. total), ReconstructMissing(present)
      PROVE  GroupKept' /\ AnyShardsSuffice'
  <2>1. /\ shape # None /\ TypeOK /\ UNCHANGED <<shape, word>> /\ Cardinality(present) >= data
        /\ \E p \in Payloads : Len(p) = data /\ word = EncodeShards(p)
        /\ tree[<<>>] # Missing
    BY <1>5 DEF RInv, CInv, GroupKept, ReconstructMissing
  <2>2. /\ got' = [present |-> present, ret |-> 0, shards |-> word]
        /\ <<>> \in DOMAIN tree' /\ tree'[<<>>] = tree[<<>>]
    BY <1>5, MissingRebuilt
  <2>3. data' = data /\ total' = total
    BY <2>1 DEF data, total
  <2>4. \A p : EncodeShards(p)' = EncodeShards(p)
    BY <2>1, <2>3 DEF EncodeShards, Shard
  <2>5. GroupKept'
    BY <2>1, <2>2, <2>3, <2>4 DEF GroupKept
  <2>6. ~ (Cardinality(got'.present) < data)
    <3>1. data \in Nat /\ Cardinality(present) \in Nat
      BY <2>1, ShapeNumbers, Places, FS_CardinalityType
    <3> QED
      BY <2>1, <2>2, <3>1
  <2>7. AnyShardsSuffice'
    BY <2>1, <2>2, <2>3, <2>6 DEF AnyShardsSuffice
  <2> QED
    BY <2>5, <2>7
<1>6. ASSUME UNCHANGED vars PROVE GroupKept' /\ AnyShardsSuffice'
  <2>1. UNCHANGED <<shape, tree, word, got>>
    BY <1>6 DEF vars
  <2>2. data' = data /\ total' = total
    BY <2>1 DEF data, total
  <2>3. \A p : EncodeShards(p)' = EncodeShards(p)
    BY <2>1, <2>2 DEF EncodeShards, Shard
  <2>4. GroupKept'
    BY <2>1, <2>2, <2>3 DEF RInv, GroupKept
  <2> QED
    BY <2>1, <2>2, <2>4 DEF RInv, AnyShardsSuffice
<1>7. GroupKept' /\ AnyShardsSuffice'
  BY <1>2, <1>3, <1>4, <1>5, <1>6 DEF Next, Reconstruct
<1> QED
  BY <1>1, <1>7 DEF RInv

\* For every shape the constructor's bounds admit there is a coding matrix, so
\* kcp_rs_new refuses no shape for want of one.
THEOREM ValidShapesAreBuilt == \A s \in Shapes : Valid(s) => CodingMatrix(s) # Empty
<1> SUFFICES ASSUME NEW s \in Shapes, Valid(s) PROVE CodingMatrix(s) # Empty
  OBVIOUS
<1>1. PICK n \in Nat, m \in Nat : n = s[1] /\ m = s[1] + s[2] /\ m # 0
  BY CodingRows
<1>2. CodingMatrix(s) \in Matrices(m, n)
  BY <1>1, CodingRows
<1>3. Len(CodingMatrix(s)) = m
  BY <1>2, MatrixRows
<1> QED
  BY <1>1, <1>3 DEF Empty

\* The invariant with what is rebuilt holds for all constants.
THEOREM RebuildInvariance == Spec => []RInv
BY RebuildInit, RebuildStep, PTL DEF Spec

\* For every field, shape and payload: any data shards of a group give back the whole
\* group, parity included, whatever was decoded before; fewer are refused.
THEOREM AnySurvivorsRebuild == Spec => []AnyShardsSuffice
<1>1. RInv => AnyShardsSuffice
  BY DEF RInv
<1>2. QED
  BY <1>1, RebuildInvariance, PTL

=============================================================================

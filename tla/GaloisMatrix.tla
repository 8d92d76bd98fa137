---------------------------- MODULE GaloisMatrix ----------------------------
(***************************************************************************)
(* Arithmetic of GF(2^Width) by logarithm tables (Sources/CKcp/galois.cpp, *)
(* galois_table.c) and matrices over it (matrix.cpp).  A matrix is a       *)
(* sequence of rows; the code's indices are one less.                      *)
(***************************************************************************)
EXTENDS Integers, Sequences, FiniteSets

CONSTANTS
  Width,    \* bits of a field element (8)
  Poly      \* generatingPolynomial without its leading bit (29)

Field == 0 .. 2 ^ Width - 1
Order == 2 ^ Width - 1        \* 255, the order of the multiplicative group

Bit(a, i) == (a \div 2 ^ i) % 2

xorTable ==
  [a, b \in Field |->
     LET low[n \in 0 .. Width] ==    \* the n lowest bits of the result
           IF n = 0 THEN 0
           ELSE low[n - 1] + 2 ^ (n - 1) * ((Bit(a, n - 1) + Bit(b, n - 1)) % 2)
     IN low[Width]]

galAdd(a, b) == xorTable[a, b]

\* The powers of the generator 2, and their logarithms.
expTable[n \in 0 .. Order - 1] ==
  IF n = 0 THEN 1
  ELSE LET twice == 2 * expTable[n - 1]
       IN IF twice <= Order THEN twice ELSE galAdd(twice - 2 ^ Width, Poly)
logTable == [a \in Field |-> IF a = 0 THEN 0 ELSE CHOOSE n \in 0 .. Order - 1 : expTable[n] = a]

mulTable ==
  [a \in Field |-> [b \in Field |->
     IF a = 0 \/ b = 0 THEN 0 ELSE expTable[(logTable[a] + logTable[b]) % Order]]]

galMultiply(a, b) == mulTable[a][b]

\* The polynomial is primitive: the powers of 2 are all elements but 0.  Addition is
\* that of bit vectors, and multiplication distributes over it.
FieldAssumption ==
  /\ Width \in Nat \ {0} /\ 2 ^ Width \in Nat /\ Poly \in 1 .. Order
  /\ \A a \in Field \ {0} : \E n \in 0 .. Order - 1 : expTable[n] = a
  /\ \A a \in Field : galAdd(a, 0) = a /\ galAdd(a, a) = 0
  /\ \A a, b \in Field : galAdd(a, b) \in Field /\ galAdd(a, b) = galAdd(b, a)
  /\ \A a, b, c \in Field :
       /\ galAdd(galAdd(a, b), c) = galAdd(a, galAdd(b, c))
       /\ galMultiply(a, galAdd(b, c)) = galAdd(galMultiply(a, b), galMultiply(a, c))

\* b is not 0: gaussianElimination divides by the diagonal only.
galDivide(a, b) ==
  IF a = 0 THEN 0
  ELSE LET l == logTable[a] - logTable[b] IN expTable[IF l < 0 THEN l + Order ELSE l]

\* 0 to the power 0 is 1.
galExp(a, n) ==
  IF n = 0 THEN 1 ELSE IF a = 0 THEN 0 ELSE expTable[(logTable[a] * n) % Order]

-----------------------------------------------------------------------------

\* c * v and u + c * v, element by element.
galMulSlice(c, v) == [i \in DOMAIN v |-> galMultiply(c, v[i])]
galMulSliceXor(c, v, u) == [i \in DOMAIN v |-> galAdd(u[i], galMultiply(c, v[i]))]

\* coefficients[1] * vectors[1] + coefficients[2] * vectors[2] + ...
Combine(coefficients, vectors) ==
  LET sum[n \in 1 .. Len(coefficients)] ==
        IF n = 1 THEN galMulSlice(coefficients[1], vectors[1])
        ELSE galMulSliceXor(coefficients[n], vectors[n], sum[n - 1])
  IN sum[Len(coefficients)]

Empty == <<>>      \* what the operations return instead of an error
IsSquare(m) == Len(m) > 0 /\ Len(m) = Len(m[1])

identityMatrix(n) == [i \in 1 .. n |-> [j \in 1 .. n |-> IF i = j THEN 1 ELSE 0]]
Multiply(a, b) == [i \in 1 .. Len(a) |-> Combine(a[i], b)]
Augment(a, b) == [i \in 1 .. Len(a) |-> a[i] \o b[i]]
Columns(m, from, to) == [i \in 1 .. Len(m) |-> SubSeq(m[i], from, to)]     \* SubMatrix
SwapRows(m, r, s) == [m EXCEPT ![r] = m[s], ![s] = m[r]]

\* m with a row whose element in column r is not 0 as row r, if one is below.
Pivot(m, r) ==
  LET below == {i \in r + 1 .. Len(m) : m[i][r] # 0}
  IN IF m[r][r] # 0 \/ below = {} THEN m
     ELSE SwapRows(m, r, CHOOSE i \in below : \A j \in below : i <= j)

\* One round of the first loop: 1 on the diagonal and 0 below it.
Lower(m, r) ==
  IF m = Empty \/ Pivot(m, r)[r][r] = 0 THEN Empty
  ELSE LET p == Pivot(m, r)
           row == galMulSlice(galDivide(1, p[r][r]), p[r])
       IN [i \in 1 .. Len(p) |->
             IF i < r THEN p[i] ELSE IF i = r THEN row ELSE galMulSliceXor(p[i][r], row, p[i])]

\* One round of the second: 0 above the diagonal.
Upper(m, d) ==
  [i \in 1 .. Len(m) |-> IF i < d THEN galMulSliceXor(m[i][d], m[d], m[i]) ELSE m[i]]

\* The rounds of the first loop and then of the second, which leaves Empty alone.
gaussianElimination(m) ==
  LET n == Len(m)
      after[k \in 0 .. 2 * n] ==
        IF k = 0 THEN m
        ELSE IF k <= n THEN Lower(after[k - 1], k) ELSE Upper(after[k - 1], k - n)
  IN after[2 * n]

\* The inverse of m, Empty if it has none.
Invert(m) ==
  IF ~ IsSquare(m) THEN Empty
  ELSE LET work == gaussianElimination(Augment(m, identityMatrix(Len(m))))
       IN IF work = Empty THEN Empty ELSE Columns(work, Len(m) + 1, 2 * Len(m))

vandermonde(rows, cols) == [i \in 1 .. rows |-> [j \in 1 .. cols |-> galExp(i - 1, j - 1)]]

=============================================================================

---------------------------- MODULE InversionTree ----------------------------
(***************************************************************************)
(* The cache of inverted matrices (Sources/CKcp/inversion_tree.cpp): a     *)
(* tree whose nodes are found by the sorted list of the missing shards.    *)
(* A node is named by its way down from the root, the position of a child  *)
(* in each node's m_children.                                              *)
(***************************************************************************)
EXTENDS Integers, Sequences, FiniteSets

Missing == <<>>      \* the matrix of a node that has none, as matrix.empty()

\* The k-th smallest element of S, and S as an ascending list.
Nth(S, k) == CHOOSE i \in S : Cardinality({j \in S : j <= i}) = k
Ascending(S) == [k \in 1 .. Cardinality(S) |-> Nth(S, k)]

\* The way to the node of the list invalid: m_children starts behind the index
\* of the parent.
Way(invalid) ==
  [k \in 1 .. Len(invalid) |-> invalid[k] - (IF k = 1 THEN 0 ELSE invalid[k - 1]) - 1]

\* newInversionTree: the root holds the identity.
NewTree(identity) == [way \in {<<>>} |-> identity]

\* Mistake: the search ends at the first child.
GetInvertedMatrixFlat(tree, invalid) ==
  LET way == [k \in DOMAIN Way(invalid) \cap {1} |-> Way(invalid)[k]]
  IN IF way \in DOMAIN tree THEN tree[way] ELSE Missing

\* A node that does not exist and one that was only passed through on the way
\* to another have no matrix.
GetInvertedMatrix(tree, invalid) ==
  IF Way(invalid) \in DOMAIN tree THEN tree[Way(invalid)] ELSE Missing

\* Mistake: the matrix is left in every node on the way that has none.
InsertInvertedMatrixAll(tree, invalid, matrix) ==
  LET ways == {SubSeq(Way(invalid), 1, n) : n \in 0 .. Len(invalid)}
  IN [way \in DOMAIN tree \cup ways |->
        IF way \in DOMAIN tree /\ tree[way] # Missing THEN tree[way] ELSE matrix]

\* The nodes on the way are created without a matrix.
InsertInvertedMatrix(tree, invalid, matrix) ==
  LET ways == {SubSeq(Way(invalid), 1, n) : n \in 0 .. Len(invalid)}
  IN [way \in DOMAIN tree \cup ways |->
        IF way = Way(invalid) THEN matrix
        ELSE IF way \in DOMAIN tree THEN tree[way] ELSE Missing]

=============================================================================

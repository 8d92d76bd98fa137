----------------------------- MODULE ReedSolomon -----------------------------
(***************************************************************************)
(* The erasure codec (Sources/CKcp/reedsolomon.cpp) behind its bridge      *)
(* (kcp_rs.cpp): one codec that decodes word after word and keeps the      *)
(* matrices it has inverted.  FEC reconstructs the groups of a session in  *)
(* whatever state of loss they come, so any decode may follow any other.   *)
(* Shards have a size above 0 and the right number, which                  *)
(* KcpReedSolomon.swift ensures.                                           *)
(***************************************************************************)
EXTENDS GaloisMatrix, InversionTree

CONSTANTS
  Shapes,      \* the pairs <<data shards, parity shards>> kcp_rs_new is given
  Payloads,    \* what is encoded: sequences of data shards, of field elements
  None

ASSUME CodecAssumption ==
  /\ FieldAssumption
  /\ Shapes \subseteq Int \X Int
  /\ \A p \in Payloads : p \in Seq(Seq(Field)) /\ \A i \in DOMAIN p : Len(p[i]) = Len(p[1])
  /\ None \notin Shapes

VARIABLES
  shape,     \* the codec's shape, None before kcp_rs_new
  refused,   \* TRUE iff kcp_rs_new returned nullptr for the last shape it had
  tree,      \* ReedSolomon::tree
  word,      \* the encoded shards of the group
  got        \* the outcome of the last kcp_rs_reconstruct on it, or None

vars == <<shape, refused, tree, word, got>>

data == shape[1]
total == shape[1] + shape[2]

-----------------------------------------------------------------------------
(* The constructor                                                         *)

\* The top square of the result is the identity: data shards are sent as is.
CodingMatrix(s) ==
  LET vm == vandermonde(s[1] + s[2], s[1])
      top == Invert([i \in 1 .. s[1] |-> vm[i]])
  IN IF top = Empty THEN Empty ELSE Multiply(vm, top)

\* kcp_rs_new takes a sum of 256 and 0 parity shards, the constructor does not.
Bridged(s) == s[1] > 0 /\ s[2] >= 0 /\ s[1] + s[2] <= 2 ^ Width
Constructed(s) == s[1] > 0 /\ s[2] > 0 /\ s[1] + s[2] <= Order
Valid(s) == Bridged(s) /\ Constructed(s)

\* The member m of the codec of each shape.
codingMatrix == [s \in {t \in Shapes : Valid(t)} |-> CodingMatrix(s)]

New(s) ==
  /\ shape = None
  /\ refused' = (~ Valid(s) \/ codingMatrix[s] = Empty)
  /\ IF refused' THEN UNCHANGED <<shape, tree>>
     ELSE shape' = s /\ tree' = NewTree(identityMatrix(s[1]))
  /\ UNCHANGED <<word, got>>

-----------------------------------------------------------------------------
(* Encode                                                                  *)

\* Row i of the coding matrix, times the data shards.
Shard(i, input) == Combine(codingMatrix[shape][i], input)

\* The parity buffers are overwritten, the data shards are not touched.
EncodeShards(input) ==
  [i \in 1 .. total |-> IF i <= data THEN input[i] ELSE Shard(i, input)]

Encode(input) ==
  /\ shape # None
  /\ Len(input) = data
  /\ word' = EncodeShards(input)
  /\ got' = None
  /\ UNCHANGED <<shape, refused, tree>>

-----------------------------------------------------------------------------
(* Reconstruct                                                             *)

\* The scan of the shards goes on while fewer than data were found.
Scanned(i, present) == Cardinality({j \in present : j < i}) < data

validIndices(present) == {i \in present : Scanned(i, present)}

invalidIndices(present) == {i \in (1 .. total) \ present : Scanned(i, present)}

\* The matrix that takes the shards validIndices back to the data shards.
DecodeMatrix(present) ==
  LET rows == Ascending(validIndices(present))
  IN Invert([i \in DOMAIN rows |-> codingMatrix[shape][rows[i]]])

\* The shards as Reconstruct leaves them: first the missing data shards, from
\* those found; then the missing parity, from all data shards.
Rebuilt(present, matrix) ==
  LET rows == Ascending(validIndices(present))
      found == [i \in DOMAIN rows |-> word[rows[i]]]
      input == [i \in 1 .. data |->
                  IF i \in present THEN word[i] ELSE Combine(matrix[i], found)]
  IN [i \in 1 .. total |->
        IF i \in present THEN word[i] ELSE IF i <= data THEN input[i] ELSE Shard(i, input)]

\* All shards are there, or too few: the tree is not asked.
ReconstructNothing(present) ==
  /\ present = 1 .. total \/ Cardinality(present) < data
  /\ got' = [present |-> present,
             ret     |-> IF present = 1 .. total THEN 0 ELSE -3,
             shards  |-> IF present = 1 .. total THEN word ELSE <<>>]
  /\ UNCHANGED <<shape, refused, tree, word>>

\* What InsertInvertedMatrix refuses: the root, and what Invert could not invert.
Insertable(gaps, matrix) == gaps # <<>> /\ IsSquare(matrix)

\* A matrix that is not in the tree is computed and inserted.
ReconstructMissing(present) ==
  LET gaps == Ascending(invalidIndices(present))
      cached == GetInvertedMatrix(tree, gaps)
      matrix == IF cached = Missing THEN DecodeMatrix(present) ELSE cached
      failed == cached = Missing /\ ~ Insertable(gaps, matrix)
  IN
  /\ present # 1 .. total
  /\ Cardinality(present) >= data
  /\ tree' = IF cached = Missing /\ ~ failed THEN InsertInvertedMatrix(tree, gaps, matrix)
             ELSE tree
  /\ got' = [present |-> present,
             ret     |-> IF failed THEN -3 ELSE 0,
             shards  |-> IF failed THEN <<>> ELSE Rebuilt(present, matrix)]
  /\ UNCHANGED <<shape, refused, word>>

Reconstruct(present) == ReconstructNothing(present) \/ ReconstructMissing(present)

-----------------------------------------------------------------------------

Init ==
  /\ shape = None /\ refused = FALSE
  /\ tree = NewTree(Missing)
  /\ word = <<>> /\ got = None

Next ==
  \/ \E s \in Shapes : New(s)
  \/ \E p \in Payloads : Encode(p)
  \/ word # <<>> /\ \E present \in SUBSET (1 .. total) : Reconstruct(present)

Spec == Init /\ [][Next]_vars

-----------------------------------------------------------------------------
(* Properties                                                              *)

\* The codec's fields; the tree is a tree.
TypeOK ==
  /\ shape \in Shapes \cup {None}
  /\ refused \in BOOLEAN
  /\ \A way \in DOMAIN tree : way = <<>> \/ SubSeq(way, 1, Len(way) - 1) \in DOMAIN tree
  /\ shape # None => Valid(shape)

\* Any data shards of a group give back the whole group, parity included,
\* whatever the codec decoded before; fewer are refused ("any
\* dataShards-of-(data + parity) survivors").
AnyShardsSuffice ==
  got # None =>
    IF Cardinality(got.present) < data THEN got.ret = -3
    ELSE got.ret = 0 /\ got.shards = word

\* What the tree holds for a list of gaps is the matrix for every set of
\* shards that leaves these gaps: decoding from the cache and decoding afresh
\* never differ.
CacheExact ==
  shape # None => \A present \in SUBSET (1 .. total) :
    Cardinality(present) >= data /\ invalidIndices(present) # {} =>
      GetInvertedMatrix(tree, Ascending(invalidIndices(present)))
        \in {Missing, DecodeMatrix(present)}

=============================================================================

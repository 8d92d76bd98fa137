------------------------------- MODULE MCCodec -------------------------------
(***************************************************************************)
(* Instances of ReedSolomon over GF(8).  The identity matrix as the data   *)
(* shards makes a decode show the whole linear map it applies.             *)
(***************************************************************************)
EXTENDS ReedSolomon

MCShapes == {<<3, 2>>, <<2, 3>>, <<3, 0>>, <<0, 3>>, <<5, 3>>, <<5, 4>>}
MCPayloads == {identityMatrix(3), identityMatrix(2), <<<<5, 3>>, <<6, 7>>>>}

=============================================================================

-------------------------------- MODULE MCFec --------------------------------
(***************************************************************************)
(* The instance of KcpFec for TLC.  Bound: at most two packets are longer  *)
(* than the others.                                                        *)
(***************************************************************************)
EXTENDS KcpFec

MCFewLong == Cardinality({p \in Range(packets) : p.len > 1}) <= 2

=============================================================================

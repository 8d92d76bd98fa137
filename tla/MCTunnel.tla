------------------------------ MODULE MCTunnel ------------------------------
(* Small instances of KcpTunConnectorManager.                              *)
EXTENDS KcpTunConnectorManager, TLC

Symmetry == Permutations(Connectors) \cup Permutations(Streams)

=============================================================================

------------------------------- MODULE MCClock -------------------------------
(***************************************************************************)
(* The instance of KcpClock: a stretch of time before the middle of the    *)
(* range of times and one across its end.                                  *)
(***************************************************************************)
EXTENDS KcpClock

MCTimes == (12 .. 13) \cup {31} \cup (0 .. 6)

=============================================================================

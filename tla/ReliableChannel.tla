-------------------------- MODULE ReliableChannel --------------------------
(***************************************************************************)
(* What a KCP connection promises, and the proxy for the answer it passes  *)
(* on: two queues, one per direction.  Items accepted at one site are      *)
(* delivered at the other, each once, in order, and nothing accepted or    *)
(* delivered is ever taken back.                                           *)
(***************************************************************************)
EXTENDS Integers, Sequences

CONSTANTS
  Sites,        \* the ends of the connection
  Other         \* the opposite site of each

VARIABLES
  accepted,     \* what each site has given to the channel
  delivered     \* what each site has been given by it

vars == <<accepted, delivered>>

\* t is s with at least one item more.
Extends(s, t) == Len(s) < Len(t) /\ \A i \in 1 .. Len(s) : t[i] = s[i]

Init ==
  /\ accepted = [d \in Sites |-> <<>>]
  /\ delivered = [d \in Sites |-> <<>>]

Accept(d) ==
  /\ Extends(accepted[d], accepted'[d])
  /\ accepted' = [accepted EXCEPT ![d] = accepted'[d]]
  /\ UNCHANGED delivered

Deliver(d) ==
  /\ Extends(delivered[d], delivered'[d])
  /\ delivered'[d] = accepted[Other[d]] \/ Extends(delivered'[d], accepted[Other[d]])
  /\ delivered' = [delivered EXCEPT ![d] = delivered'[d]]
  /\ UNCHANGED accepted

Next == \E d \in Sites : Accept(d) \/ Deliver(d)

Spec == Init /\ [][Next]_vars

=============================================================================

------------------------------- MODULE MCKcp -------------------------------
(***************************************************************************)
(* Small instances of Kcp, and liveness.                                   *)
(***************************************************************************)
EXTENDS Kcp

CONSTANTS
  WrittenByA, WrittenByB,    \* bounds: bytes each application sends
  FlightToA, FlightToB       \* bounds: datagrams on the way to each endpoint

PerEnd(x, y) == [e \in {A, B} |-> IF e = A THEN x ELSE y]
MCMaxWritten == PerEnd(WrittenByA, WrittenByB)
MCMaxFlight == PerEnd(FlightToA, FlightToB)

-----------------------------------------------------------------------------
(* Liveness: the path is fair-lossy, endpoints flush on a timer and the    *)
(* application reads (KcpSession.drainKcpReceiveQueue).                    *)

\* A flush that retransmits everything and whose datagrams all get through.
GoodFlush(e) ==
  /\ \E w \in Windows(e) :
       /\ NoCwnd \/ w > 0 \/ rmt_wnd[e] = 0
       /\ FlushWith(e, w, snd_buf[e], TRUE)
  /\ \A sn \in acklist[e] : Ack(e, sn) \in net'[Peer(e)]
  /\ \A sn \in snd_buf'[e] : Push(e, sn, numbered'[e][sn + 1]) \in net'[Peer(e)]
  /\ "tell" \in probe[e] => Probe(e, "WINS") \in net'[Peer(e)]
  /\ rmt_wnd[e] = 0 /\ probe_wait[e] => Probe(e, "WASK") \in net'[Peer(e)]

InputHead(e) == \E p \in net[e] : InputPush(e, p) /\ p.sn = snd_una[Peer(e)]
InputUseful(e) == Input(e) /\ (snd_buf'[e] # snd_buf[e] \/ (rmt_wnd[e] = 0 /\ rmt_wnd'[e] > 0))
NumberNew(e) == GoodFlush(e) /\ numbered'[e] # numbered[e]
InputProbe(e) == \E p \in net[e] : InputWask(e, p)

FairSpec ==
  /\ Spec
  /\ \A e \in End : WF_vars(Recv(e)) /\ SF_vars(GoodFlush(e))
  /\ SF_vars(NumberNew(A)) /\ SF_vars(InputHead(B)) /\ SF_vars(InputUseful(A)) /\ SF_vars(InputProbe(B))

\* Everything ikcp_send accepted is read in the end: retransmission, window
\* probes and the announcement after a full queue leave no way to get stuck.
AllRead == <>[](\A e \in End : Bytes(read[Peer(e)]) = FlattenSeq(sent[e]))

=============================================================================

----------------------------- MODULE KcpRestart -----------------------------
(***************************************************************************)
(* A connection whose endpoint B is restarted once: its process comes back *)
(* with a new control block (ikcp_create) on the same port, while A's      *)
(* session lives on because KcpSession ignores the transient socket errors *)
(* in between.                                                             *)
(***************************************************************************)
EXTENDS MCKcp

VARIABLES
  restarted,    \* TRUE once B has come back
  mark          \* history: how many messages A had sent by then

rvars == <<vars, restarted, mark>>

\* ikcp_create, as in Init.
Fresh(f, x) == [f EXCEPT ![B] = x]

Restart ==
  /\ ~ restarted
  /\ restarted' = TRUE
  /\ mark' = Len(sent[A])
  /\ snd_queue' = Fresh(snd_queue, <<>>)
  /\ numbered' = Fresh(numbered, <<>>)
  /\ snd_buf' = Fresh(snd_buf, {})
  /\ snd_una' = Fresh(snd_una, 0)
  /\ rcv_nxt' = Fresh(rcv_nxt, 0)
  /\ rcv_buf' = Fresh(rcv_buf, NoSegments)
  /\ rcv_queue' = Fresh(rcv_queue, <<>>)
  /\ acklist' = Fresh(acklist, {})
  /\ rmt_wnd' = Fresh(rmt_wnd, InitRmtWnd)
  /\ probe' = Fresh(probe, {})
  /\ probe_wait' = Fresh(probe_wait, FALSE)
  /\ sent' = Fresh(sent, <<>>)
  /\ written' = Fresh(written, 0)
  /\ read' = Fresh(read, <<>>)
  /\ UNCHANGED net

RestartInit == Init /\ restarted = FALSE /\ mark = 0
RestartNext == Restart \/ (Next /\ UNCHANGED <<restarted, mark>>)

RestartSpec ==
  /\ RestartInit /\ [][RestartNext]_rvars
  /\ \A e \in End : WF_vars(Recv(e)) /\ SF_vars(GoodFlush(e))
  /\ SF_vars(NumberNew(A)) /\ SF_vars(InputHead(B)) /\ SF_vars(InputUseful(A)) /\ SF_vars(InputProbe(B))

\* "KCP keeps retransmitting and the link self-heals when the peer returns": what A
\* sends once B is back is read in the end.
SentAfter == restarted /\ Len(sent[A]) > mark
SelfHeals == SentAfter ~> SentAfter /\ Contains(Messages(read[B]), sent[A][mark + 1])

=============================================================================

----------------------------- MODULE KcpProofs -----------------------------
(***************************************************************************)
(* Proofs about Kcp for every window, fragment size, number of messages    *)
(* and capacity of the path.                                               *)
(***************************************************************************)
EXTENDS Kcp, CommonLemmas

\* The peer of an endpoint is the other endpoint, and peers are mutual.
LEMMA EndPeer ==
  ASSUME NEW e \in End
  PROVE  /\ Peer(e) \in End /\ Peer(e) # e /\ Peer(Peer(e)) = e
         /\ \A d \in End : d = e \/ d = Peer(e)
BY KcpAssumption DEF End, Peer

-----------------------------------------------------------------------------
(* The inductive invariant                                                 *)

\* The outstanding numbers lie from snd_una on, which is the first of them.
SndBufOK(e) ==
  /\ \A sn \in snd_buf[e] : sn < snd_nxt(e)
  /\ IsHead(snd_una[e], snd_buf[e], snd_nxt(e))

\* What buf holds, from the number nxt on, is what the peer sent under that number.
Genuine(e, buf, nxt) ==
  /\ DOMAIN buf \subseteq Nat
  /\ \A sn \in DOMAIN buf : /\ nxt <= sn
                            /\ sn < snd_nxt(Peer(e))
                            /\ buf[sn] = numbered[Peer(e)][sn + 1]
RcvBufOK(e) == Genuine(e, rcv_buf[e], rcv_nxt[e])

\* taken and then queue are the first nxt segments the peer numbered.
Ordered(e, taken, queue, nxt) ==
  /\ nxt = Len(taken) + Len(queue)
  /\ nxt <= snd_nxt(Peer(e))
  /\ \A i \in 1 .. Len(taken) : taken[i] = numbered[Peer(e)][i]
  /\ \A i \in 1 .. Len(queue) : queue[i] = numbered[Peer(e)][Len(taken) + i]

\* Only what was received waits to be acknowledged.
AcksOK(e) == \A sn \in acklist[e] : sn \in Received(e)

IInv ==
  /\ TypeOK
  /\ InOrder
  /\ AckedIsReceived
  /\ PathIsTruthful
  /\ \A e \in End : SndBufOK(e) /\ RcvBufOK(e) /\ AcksOK(e)

\* Two control blocks fresh from ikcp_create satisfy the inductive invariant.
THEOREM InitIInv == Init => IInv
<1> SUFFICES ASSUME Init PROVE IInv
  OBVIOUS
<1>1. TypeOK
  BY KcpAssumption DEF Init, TypeOK, NoSegments
<1>2. InOrder
  BY EndPeer DEF Init, InOrder, snd_nxt
<1>3. AckedIsReceived /\ PathIsTruthful
  BY EndPeer DEF Init, AckedIsReceived, PathIsTruthful, snd_nxt
<1>4. \A e \in End : SndBufOK(e) /\ RcvBufOK(e) /\ AcksOK(e)
  BY EndPeer DEF Init, SndBufOK, RcvBufOK, Genuine, AcksOK, IsHead, snd_nxt, NoSegments
<1> QED
  BY <1>1, <1>2, <1>3, <1>4 DEF IInv

-----------------------------------------------------------------------------
(* Lemmas about the operators                                              *)

\* A function on 1 .. n is a sequence of length n: the type of what ikcp_send cuts
\* and of what the receive loop moves.
LEMMA FunctionIsSeq ==
  ASSUME NEW S, NEW n \in Nat, NEW f \in [1 .. n -> S]
  PROVE  f \in Seq(S) /\ Len(f) = n
<1>1. f \in Seq(S)
  BY SeqDef
<1>2. Len(f) \in Nat /\ 1 .. Len(f) = 1 .. n
  BY <1>1, LenProperties
<1> QED
  BY <1>1, <1>2

\* The first n elements of q, and the rest.
CutInto(q, n, front, rest) ==
  /\ front = SubSeq(q, 1, n) /\ rest = SubSeq(q, n + 1, Len(q))
  /\ Len(front) = n /\ \A i \in 1 .. n : front[i] = q[i]
  /\ Len(rest) = Len(q) - n /\ \A i \in 1 .. Len(q) - n : rest[i] = q[n + i]

\* SubSeq cuts a queue in two at n: what ikcp_recv and ikcp_flush take, and the rest.
LEMMA Cut ==
  ASSUME NEW S, NEW q \in Seq(S), NEW n \in 0 .. Len(q)
  PROVE  \E front \in Seq(S), rest \in Seq(S) : CutInto(q, n, front, rest)
<1>1. Len(q) \in Nat /\ \A i \in 1 .. Len(q) : q[i] \in S
  BY LenProperties, ElementOfSeq
<1>2. \A i \in 1 .. n : q[i] \in S
  BY <1>1
<1>3. \A i \in n + 1 .. Len(q) : q[i] \in S
  BY <1>1
<1>4. /\ SubSeq(q, 1, n) \in Seq(S)
      /\ Len(SubSeq(q, 1, n)) = IF 1 <= n THEN n - 1 + 1 ELSE 0
      /\ \A i \in 1 .. n - 1 + 1 : SubSeq(q, 1, n)[i] = q[1 + i - 1]
  <2>1. 1 \in Int /\ n \in Int
    BY <1>1
  <2> QED
    BY <2>1, <1>2, SubSeqProperties
<1>5. /\ SubSeq(q, n + 1, Len(q)) \in Seq(S)
      /\ Len(SubSeq(q, n + 1, Len(q))) =
           IF n + 1 <= Len(q) THEN Len(q) - (n + 1) + 1 ELSE 0
      /\ \A i \in 1 .. Len(q) - (n + 1) + 1 :
           SubSeq(q, n + 1, Len(q))[i] = q[(n + 1) + i - 1]
  <2>1. n + 1 \in Int /\ Len(q) \in Int
    BY <1>1
  <2> QED
    BY <2>1, <1>3, SubSeqProperties
<1>6. ASSUME NEW i \in 1 .. n PROVE SubSeq(q, 1, n)[i] = q[i]
  BY <1>1, <1>4
<1>7. ASSUME NEW i \in 1 .. Len(q) - n PROVE SubSeq(q, n + 1, Len(q))[i] = q[n + i]
  <2>1. i \in 1 .. Len(q) - (n + 1) + 1 /\ (n + 1) + i - 1 = n + i
    BY <1>1
  <2> QED
    BY <2>1, <1>5
<1>8. Len(SubSeq(q, 1, n)) = n /\ Len(SubSeq(q, n + 1, Len(q))) = Len(q) - n
  BY <1>1, <1>4, <1>5
<1>9. CutInto(q, n, SubSeq(q, 1, n), SubSeq(q, n + 1, Len(q)))
  BY <1>6, <1>7, <1>8 DEF CutInto
<1> QED
  BY <1>4, <1>5, <1>9

\* Two sequences one after the other.
JoinOf(all, s, t) ==
  /\ all = s \o t /\ Len(all) = Len(s) + Len(t)
  /\ \A i \in 1 .. Len(s) : all[i] = s[i]
  /\ \A i \in 1 .. Len(t) : all[Len(s) + i] = t[i]

\* Concatenation keeps the elements of both parts at their places.
LEMMA Join ==
  ASSUME NEW S, NEW s \in Seq(S), NEW t \in Seq(S)
  PROVE  \E all \in Seq(S) : JoinOf(all, s, t)
<1>1. Len(s) \in Nat /\ Len(t) \in Nat
  BY LenProperties
<1>2. s \o t \in Seq(S) /\ Len(s \o t) = Len(s) + Len(t)
  BY ConcatProperties
<1>3. /\ \A i \in 1 .. Len(s) : (s \o t)[i] = s[i]
      /\ \A i \in 1 .. Len(t) : (s \o t)[Len(s) + i] = t[i]
  BY <1>1, ConcatProperties
<1> QED
  BY <1>2, <1>3 DEF JoinOf

\* The fields that every datagram has, and those of its command.
LEMMA PacketTypes ==
  ASSUME NEW p \in Packet
  PROVE  p.una \in Nat /\ p.wnd \in Nat /\ (p.cmd \in {"PUSH", "ACK"} => p.sn \in Nat)
<1>1. CASE p \in [cmd : {"PUSH"}, sn : Nat, seg : Segment, wnd : Nat, una : Nat]
  BY <1>1
<1>2. CASE p \in [cmd : {"ACK"}, sn : Nat, wnd : Nat, una : Nat]
  BY <1>2
<1>3. CASE p \in [cmd : {"WASK", "WINS"}, wnd : Nat, una : Nat]
  BY <1>3
<1> QED
  BY <1>1, <1>2, <1>3 DEF Packet

\* InOrder says that each endpoint's reads and queue are ordered.
LEMMA InOrderOrdered ==
  InOrder <=> \A e \in End : Ordered(e, read[e], rcv_queue[e], rcv_nxt[e])
BY DEF InOrder, Ordered

\* A number below snd_nxt has a segment.
LEMMA NumberedSegment ==
  ASSUME TypeOK, NEW e \in End, NEW sn \in Nat, sn < snd_nxt(e)
  PROVE  numbered[e][sn + 1] \in Segment
<1>1. numbered[e] \in Seq(Segment)
  BY DEF TypeOK
<1>2. Len(numbered[e]) \in Nat /\ sn + 1 \in 1 .. Len(numbered[e])
  BY <1>1 DEF snd_nxt
<1> QED
  BY <1>1, <1>2, ElementOfSeq

\* q is queue and after it the n segments of buf from the number nxt on.
Grown(q, queue, buf, nxt, n) ==
  /\ \A i \in 1 .. n : nxt + i - 1 \in DOMAIN buf
  /\ Len(q) = Len(queue) + n
  /\ \A i \in 1 .. Len(queue) : q[i] = queue[i]
  /\ \A i \in 1 .. n : q[Len(queue) + i] = buf[nxt + i - 1]

\* What the loop from rcv_buf to rcv_queue leaves behind: the queue grows by the
\* n segments that rcv_nxt passes over, and the rest stay buffered.
Moved(e, nxt, buf, queue, n, q) ==
  /\ Grown(q, queue, buf, nxt, n)
  /\ rcv_queue' \in [End -> Seq(Segment)] /\ rcv_queue'[e] = q
  /\ rcv_nxt' \in [End -> Nat] /\ rcv_nxt'[e] = nxt + n
  /\ DOMAIN rcv_buf' = End
  /\ DOMAIN rcv_buf'[e] = DOMAIN buf \ (nxt .. nxt + n - 1)
  /\ \A sn \in DOMAIN rcv_buf'[e] : rcv_buf'[e][sn] = buf[sn]
  /\ \A d \in End \ {e} : /\ rcv_queue'[d] = rcv_queue[d]
                         /\ rcv_nxt'[d] = rcv_nxt[d]
                         /\ rcv_buf'[d] = rcv_buf[d]

\* What the loop at the end of ikcp_parse_data does: it moves a run of rcv_buf that
\* begins at rcv_nxt to the end of the queue, and drops nothing.
LEMMA MoveReadyEffect ==
  ASSUME TypeOK, NEW e \in End, NEW nxt \in Nat, NEW buf, NEW queue \in Seq(Segment),
         DOMAIN buf \subseteq Nat, \A sn \in DOMAIN buf : buf[sn] \in Segment,
         MoveReady(e, nxt, buf, queue)
  PROVE  \E n \in Nat, q \in Seq(Segment) : Moved(e, nxt, buf, queue, n, q)
<1>1. PICK n \in 0 .. RcvWnd :
        /\ Moves(n, nxt, buf, queue)
        /\ rcv_queue' = [rcv_queue EXCEPT ![e] =
                           queue \o [i \in 1 .. n |-> buf[nxt + i - 1]]]
        /\ rcv_buf' = [rcv_buf EXCEPT ![e] =
                         Restrict(buf, DOMAIN buf \ (nxt .. nxt + n - 1))]
        /\ rcv_nxt' = [rcv_nxt EXCEPT ![e] = nxt + n]
  BY DEF MoveReady
<1>2. n \in Nat
  BY KcpAssumption
<1>3. \A i \in 1 .. n : nxt + i - 1 \in DOMAIN buf
  <2> SUFFICES ASSUME NEW i \in 1 .. n PROVE nxt + i - 1 \in DOMAIN buf
    OBVIOUS
  <2>1. i - 1 \in 0 .. n - 1
    BY <1>2
  <2>2. nxt + (i - 1) \in DOMAIN buf
    BY <1>1, <2>1 DEF Moves
  <2> QED
    BY <2>2, <1>2
<1> DEFINE moved == [i \in 1 .. n |-> buf[nxt + i - 1]]
<1>4. moved \in Seq(Segment) /\ Len(moved) = n
  <2>1. moved \in [1 .. n -> Segment]
    BY <1>3
  <2> QED
    BY <2>1, <1>2, FunctionIsSeq
<1>5. queue \o moved \in Seq(Segment) /\ Len(queue \o moved) = Len(queue) + n
  BY <1>4
<1>6. \A i \in 1 .. Len(queue) : (queue \o moved)[i] = queue[i]
  BY <1>4
<1>7. \A i \in 1 .. n : (queue \o moved)[Len(queue) + i] = moved[i]
  BY <1>2, <1>4
<1> QED
  <2>1. Grown(queue \o moved, queue, buf, nxt, n)
    BY <1>3, <1>5, <1>6, <1>7 DEF Grown
  <2> HIDE DEF moved
  <2>2. rcv_queue' = [rcv_queue EXCEPT ![e] = queue \o moved]
    BY <1>1 DEF moved
  <2>3. rcv_queue' \in [End -> Seq(Segment)] /\ rcv_queue'[e] = queue \o moved
    BY <1>5, <2>2 DEF TypeOK
  <2>5. rcv_nxt' = [rcv_nxt EXCEPT ![e] = nxt + n]
    BY <1>1
  <2>6. rcv_nxt' \in [End -> Nat] /\ rcv_nxt'[e] = nxt + n
    BY <1>2, <2>5 DEF TypeOK
  <2>7. rcv_buf' = [rcv_buf EXCEPT ![e] = Restrict(buf, DOMAIN buf \ (nxt .. nxt + n - 1))]
    BY <1>1
  <2>8. /\ DOMAIN rcv_buf' = End
        /\ rcv_buf'[e] = Restrict(buf, DOMAIN buf \ (nxt .. nxt + n - 1))
    BY <2>7 DEF TypeOK
  <2>9. /\ DOMAIN rcv_buf'[e] = DOMAIN buf \ (nxt .. nxt + n - 1)
        /\ \A sn \in DOMAIN rcv_buf'[e] : rcv_buf'[e][sn] = buf[sn]
    BY <2>8 DEF Restrict
  <2>4. \A d \in End \ {e} : /\ rcv_queue'[d] = rcv_queue[d]
                            /\ rcv_nxt'[d] = rcv_nxt[d]
                            /\ rcv_buf'[d] = rcv_buf[d]
    BY <2>2, <2>5, <2>7 DEF TypeOK
  <2>10. Moved(e, nxt, buf, queue, n, queue \o moved)
    BY <2>1, <2>3, <2>4, <2>6, <2>8, <2>9 DEF Moved
  <2> QED
    BY <1>2, <1>5, <2>10

\* The loop moves genuine segments to the end of an ordered queue.
LEMMA MoveKeepsOrder ==
  ASSUME TypeOK, NEW e \in End, NEW taken \in Seq(Segment), NEW queue \in Seq(Segment),
         NEW buf, NEW nxt \in Nat, NEW n \in Nat, NEW q \in Seq(Segment),
         Genuine(e, buf, nxt),
         Ordered(e, taken, queue, nxt),
         Grown(q, queue, buf, nxt, n)
  PROVE  Ordered(e, taken, q, nxt + n)
<1>1. Len(taken) \in Nat /\ Len(queue) \in Nat /\ snd_nxt(Peer(e)) \in Nat
  <2>1. Peer(e) \in End
    BY EndPeer
  <2> QED
    BY <2>1, LenProperties DEF TypeOK, snd_nxt
<1>2. nxt + n <= snd_nxt(Peer(e))
  <2>1. CASE n = 0
    BY <2>1, <1>1 DEF Ordered
  <2>2. CASE n # 0
    <3>1. nxt + n - 1 \in DOMAIN buf
      BY <2>2 DEF Grown
    <3> QED
      BY <3>1, <1>1 DEF Genuine
  <2> QED
    BY <2>1, <2>2
<1>3. ASSUME NEW i \in 1 .. Len(q)
      PROVE  q[i] = numbered[Peer(e)][Len(taken) + i]
  <2>1. CASE i <= Len(queue)
    BY <2>1, <1>1 DEF Ordered, Grown
  <2>2. CASE i > Len(queue)
    <3>1. PICK k \in 1 .. n : i = Len(queue) + k
      <4>1. i - Len(queue) \in 1 .. n /\ i = Len(queue) + (i - Len(queue))
        BY <2>2, <1>1 DEF Grown
      <4> QED
        BY <4>1
    <3>2. q[i] = buf[nxt + k - 1] /\ nxt + k - 1 \in DOMAIN buf
      BY <3>1 DEF Grown
    <3>3. buf[nxt + k - 1] = numbered[Peer(e)][(nxt + k - 1) + 1]
      BY <3>2 DEF Genuine
    <3>4. (nxt + k - 1) + 1 = Len(taken) + i
      BY <3>1, <1>1 DEF Ordered
    <3> QED
      BY <3>2, <3>3, <3>4
  <2> QED
    BY <2>1, <2>2, <1>1
<1> QED
  BY <1>1, <1>2, <1>3 DEF Ordered, Grown

RcvTypes ==
  /\ rcv_queue \in [End -> Seq(Segment)]
  /\ rcv_nxt \in [End -> Nat]
  /\ DOMAIN rcv_buf = End
  /\ \A d \in End : /\ DOMAIN rcv_buf[d] \subseteq Nat
                    /\ \A sn \in DOMAIN rcv_buf[d] : rcv_buf[d][sn] \in Segment

\* What was received stays received.
RcvGrows ==
  \A d \in End : rcv_nxt[d] <= rcv_nxt'[d] /\ Received(d) \subseteq Received(d)'

\* Both callers of the loop, ikcp_recv and ikcp_parse_data, keep the order: buf
\* may hold one genuine segment more, and queue may have lost what was read.
LEMMA ReceiveStep ==
  ASSUME TypeOK, InOrder, \A d \in End : RcvBufOK(d),
         NEW e \in End, NEW queue \in Seq(Segment), NEW buf, NEW nxt \in Nat,
         nxt = rcv_nxt[e],
         Genuine(e, buf, nxt),
         DOMAIN rcv_buf[e] \subseteq DOMAIN buf,
         MoveReady(e, nxt, buf, queue),
         numbered' = numbered,
         read' \in [End -> Seq(Segment)],
         \A d \in End \ {e} : read'[d] = read[d],
         Ordered(e, read'[e], queue, nxt)
  PROVE  RcvTypes' /\ RcvGrows /\ InOrder' /\ (\A d \in End : RcvBufOK(d)')
           /\ DOMAIN buf \subseteq Received(e)'
<1>1. rcv_nxt[e] \in Nat /\ read'[e] \in Seq(Segment)
  BY DEF TypeOK
<1>2. DOMAIN buf \subseteq Nat /\ \A sn \in DOMAIN buf : buf[sn] \in Segment
  <2>1. DOMAIN buf \subseteq Nat
    BY DEF Genuine
  <2>2. ASSUME NEW sn \in DOMAIN buf PROVE buf[sn] \in Segment
    <3>1. sn \in Nat /\ sn < snd_nxt(Peer(e)) /\ buf[sn] = numbered[Peer(e)][sn + 1]
      BY DEF Genuine
    <3> QED
      BY <3>1, EndPeer, NumberedSegment
  <2> QED
    BY <2>1, <2>2
<1>3. PICK n \in Nat, q \in Seq(Segment) : Moved(e, nxt, buf, queue, n, q)
  BY <1>2, MoveReadyEffect
<1>4. Grown(q, queue, buf, nxt, n)
  BY <1>3 DEF Moved
<1>5. Ordered(e, read'[e], q, nxt + n)
  BY <1>1, <1>4, MoveKeepsOrder
<1> DEFINE rest == DOMAIN buf \ (nxt .. nxt + n - 1)
<1>6. rcv_queue'[e] = q /\ \A d \in End \ {e} : rcv_queue'[d] = rcv_queue[d]
  BY <1>3 DEF Moved
<1>7. rcv_nxt'[e] = nxt + n /\ \A d \in End \ {e} : rcv_nxt'[d] = rcv_nxt[d]
  BY <1>3 DEF Moved
<1>8. \A d \in End \ {e} : rcv_buf'[d] = rcv_buf[d]
  BY <1>3 DEF Moved
<1>9. DOMAIN rcv_buf'[e] = rest /\ \A sn \in rest : rcv_buf'[e][sn] = buf[sn]
  BY <1>3 DEF Moved
<1> HIDE DEF rest
<1>10. rest \subseteq DOMAIN buf /\ \A sn \in rest : sn >= nxt + n
  BY <1>1 DEF rest, Genuine
<1>11. \A d \in End : /\ DOMAIN rcv_buf'[d] \subseteq Nat
                     /\ \A sn \in DOMAIN rcv_buf'[d] : rcv_buf'[d][sn] \in Segment
  <2>1. /\ DOMAIN rcv_buf'[e] \subseteq Nat
        /\ \A sn \in DOMAIN rcv_buf'[e] : rcv_buf'[e][sn] \in Segment
    BY <1>2, <1>9, <1>10
  <2>2. \A d \in End : /\ DOMAIN rcv_buf[d] \subseteq Nat
                       /\ \A sn \in DOMAIN rcv_buf[d] : rcv_buf[d][sn] \in Segment
    BY DEF TypeOK
  <2> QED
    BY <2>1, <2>2, <1>8
<1>12. DOMAIN buf \subseteq Received(e)'
  <2>1. ASSUME NEW sn \in DOMAIN buf, sn \notin rest PROVE sn \in 0 .. rcv_nxt'[e] - 1
    BY <2>1, <1>1, <1>2, <1>7 DEF rest
  <2> QED
    BY <2>1, <1>9 DEF Received
<1>13. \A d \in End : rcv_nxt[d] <= rcv_nxt'[d] /\ Received(d) \subseteq Received(d)'
  <2>1. rcv_nxt[e] <= rcv_nxt'[e]
    BY <1>1, <1>7
  <2>2. 0 .. rcv_nxt[e] - 1 \subseteq 0 .. rcv_nxt'[e] - 1
    BY <1>1, <1>7
  <2>3. Received(e) \subseteq Received(e)'
    BY <2>2, <1>12 DEF Received
  <2>4. ASSUME NEW d \in End \ {e}
        PROVE  rcv_nxt[d] <= rcv_nxt'[d] /\ Received(d) \subseteq Received(d)'
    <3>1. rcv_nxt[d] \in Nat
      BY DEF TypeOK
    <3> QED
      BY <3>1, <1>7, <1>8 DEF Received
  <2> QED
    BY <2>1, <2>3, <2>4
<1>14. \A d \in End : RcvBufOK(d)'
  <2>1. RcvBufOK(e)'
    BY <1>2, <1>7, <1>9, <1>10 DEF RcvBufOK, Genuine, snd_nxt
  <2>2. ASSUME NEW d \in End \ {e} PROVE RcvBufOK(d)'
    <3>1. RcvBufOK(d) /\ rcv_buf'[d] = rcv_buf[d] /\ rcv_nxt'[d] = rcv_nxt[d]
      BY <1>7, <1>8
    <3> QED
      BY <3>1 DEF RcvBufOK, Genuine, snd_nxt
  <2> QED
    BY <2>1, <2>2
<1>15. InOrder'
  <2>1. Ordered(e, read[e], rcv_queue[e], rcv_nxt[e])'
    BY <1>5, <1>6, <1>7 DEF Ordered, snd_nxt
  <2>2. ASSUME NEW d \in End \ {e} PROVE Ordered(d, read[d], rcv_queue[d], rcv_nxt[d])'
    <3>1. Ordered(d, read[d], rcv_queue[d], rcv_nxt[d])
      BY InOrderOrdered
    <3>2. read'[d] = read[d] /\ rcv_queue'[d] = rcv_queue[d] /\ rcv_nxt'[d] = rcv_nxt[d]
      BY <1>6, <1>7
    <3> QED
      BY <3>1, <3>2 DEF Ordered, snd_nxt
  <2>3. \A d \in End : Ordered(d, read[d], rcv_queue[d], rcv_nxt[d])'
    BY <2>1, <2>2
  <2> QED
    BY <2>3 DEF InOrder, Ordered
<1>16. RcvTypes'
  BY <1>3, <1>11 DEF Moved, RcvTypes
<1> QED
  BY <1>12, <1>13, <1>14, <1>15, <1>16 DEF RcvGrows

-----------------------------------------------------------------------------
(* Every step preserves the invariant                                      *)

\* While the receivers only grow, datagrams and acknowledgements stay true.
LEMMA StaysTrue ==
  ASSUME TypeOK, RcvGrows, RcvTypes', numbered' = numbered, net' = net, PathIsTruthful
  PROVE  PathIsTruthful'
<1> SUFFICES ASSUME NEW e \in End, NEW p \in net[e], NEW d \in End, d = Peer(e)
             PROVE  /\ p.una <= rcv_nxt'[d]
                    /\ p.cmd = "PUSH" => /\ p.sn < snd_nxt(d)
                                         /\ p.seg = numbered[d][p.sn + 1]
                    /\ p.cmd = "ACK" => p.sn \in Received(d)'
  BY EndPeer DEF PathIsTruthful, snd_nxt, Received
<1>1. /\ p.una <= rcv_nxt[d]
      /\ p.cmd = "PUSH" => /\ p.sn < snd_nxt(d)
                           /\ p.seg = numbered[d][p.sn + 1]
      /\ p.cmd = "ACK" => p.sn \in Received(d)
  BY DEF PathIsTruthful
<1>2. p.una \in Nat /\ rcv_nxt[d] \in Nat /\ rcv_nxt'[d] \in Nat
  <2>1. p \in Packet
    BY DEF TypeOK
  <2> QED
    BY <2>1, PacketTypes DEF TypeOK, RcvTypes
<1> QED
  BY <1>1, <1>2 DEF RcvGrows

\* ikcp_recv preserves the inductive invariant.
LEMMA RecvPreserves ==
  ASSUME IInv, NEW e \in End, Recv(e)
  PROVE  IInv'
<1>1. /\ TypeOK /\ InOrder /\ AckedIsReceived /\ PathIsTruthful
      /\ \A d \in End : SndBufOK(d) /\ RcvBufOK(d) /\ AcksOK(d)
  BY DEF IInv
<1>2. UNCHANGED <<sndVars, ackVars, wndVars, acklist, net>>
  BY DEF Recv
<1>2a. PICK buf : buf = rcv_buf[e]
  OBVIOUS
<1>3. PICK q \in Seq(Segment), nxt \in Nat, taken \in Seq(Segment) :
        q = rcv_queue[e] /\ nxt = rcv_nxt[e] /\ taken = read[e] /\ buf = rcv_buf[e]
  BY <1>1, <1>2a DEF TypeOK
<1>4. PICK n \in 1 .. Len(q) :
        /\ read' = [read EXCEPT ![e] = taken \o SubSeq(q, 1, n)]
        /\ MoveReady(e, nxt, buf, SubSeq(q, n + 1, Len(q)))
  BY <1>3 DEF Recv
<1>5. n \in 0 .. Len(q) /\ Len(q) \in Nat /\ Len(taken) \in Nat
  BY LenProperties
<1>5a. PICK front \in Seq(Segment), rest \in Seq(Segment) : CutInto(q, n, front, rest)
  BY <1>5, Cut
<1>6. /\ front = SubSeq(q, 1, n) /\ rest = SubSeq(q, n + 1, Len(q))
      /\ Len(front) = n /\ \A i \in 1 .. n : front[i] = q[i]
      /\ Len(rest) = Len(q) - n /\ \A i \in 1 .. Len(q) - n : rest[i] = q[n + i]
  BY <1>5a DEF CutInto
<1>7. PICK all \in Seq(Segment) :
        /\ all = taken \o front /\ Len(all) = Len(taken) + n
        /\ \A i \in 1 .. Len(taken) : all[i] = taken[i]
        /\ \A i \in 1 .. n : all[Len(taken) + i] = front[i]
  <2>1. PICK all \in Seq(Segment) : JoinOf(all, taken, front)
    BY Join
  <2> QED
    BY <2>1, <1>6 DEF JoinOf
<1>8. /\ read' \in [End -> Seq(Segment)] /\ read'[e] = all
      /\ \A d \in End \ {e} : read'[d] = read[d]
  <2>1. read' = [read EXCEPT ![e] = all]
    BY <1>4, <1>6, <1>7
  <2> QED
    BY <2>1, <1>1 DEF TypeOK
<1>9. Ordered(e, taken, q, nxt)
  BY <1>1, <1>3, InOrderOrdered
<1>10. Ordered(e, all, rest, nxt)
  <2>1. nxt = Len(all) + Len(rest) /\ nxt <= snd_nxt(Peer(e))
    <3>1. nxt = Len(taken) + Len(q) /\ nxt <= snd_nxt(Peer(e))
      BY <1>9 DEF Ordered
    <3>2. Len(all) = Len(taken) + n /\ Len(rest) = Len(q) - n
      BY <1>6, <1>7
    <3> QED
      BY <3>1, <3>2, <1>5
  <2>2. ASSUME NEW i \in 1 .. Len(all) PROVE all[i] = numbered[Peer(e)][i]
    <3>1. CASE i <= Len(taken)
      BY <3>1, <1>5, <1>7, <1>9 DEF Ordered
    <3>2. CASE i > Len(taken)
      <4>1. PICK k \in 1 .. n : i = Len(taken) + k
        <5>1. i - Len(taken) \in 1 .. n /\ i = Len(taken) + (i - Len(taken))
          BY <3>2, <1>5, <1>7
        <5> QED
          BY <5>1
      <4>2. k \in 1 .. Len(q) /\ all[i] = q[k]
        BY <4>1, <1>5, <1>6, <1>7
      <4> QED
        BY <4>1, <4>2, <1>9 DEF Ordered
    <3> QED
      BY <3>1, <3>2, <1>5, <1>7
  <2>3. ASSUME NEW i \in 1 .. Len(rest)
        PROVE  rest[i] = numbered[Peer(e)][Len(all) + i]
    <3>1. n + i \in 1 .. Len(q) /\ Len(all) + i = Len(taken) + (n + i) /\ rest[i] = q[n + i]
      BY <1>5, <1>6, <1>7
    <3> QED
      BY <3>1, <1>9 DEF Ordered
  <2> QED
    BY <2>1, <2>2, <2>3 DEF Ordered
<1>11. Genuine(e, buf, nxt)
  BY <1>1, <1>3 DEF RcvBufOK
<1>12. RcvTypes' /\ RcvGrows /\ InOrder' /\ (\A d \in End : RcvBufOK(d)')
  <2>1. DOMAIN rcv_buf[e] \subseteq DOMAIN buf /\ nxt = rcv_nxt[e] /\ numbered' = numbered
    BY <1>2, <1>3 DEF sndVars
  <2>2. MoveReady(e, nxt, buf, rest) /\ Ordered(e, read'[e], rest, nxt)
    BY <1>4, <1>6, <1>8, <1>10
  <2> QED
    BY <2>1, <2>2, <1>1, <1>8, <1>11, ReceiveStep
<1>13. probe' \in [End -> SUBSET {"ask", "tell"}]
  BY <1>1 DEF Recv, TypeOK
<1>14. TypeOK'
  BY <1>1, <1>2, <1>8, <1>12, <1>13 DEF TypeOK, RcvTypes, sndVars, ackVars, wndVars
<1>15. PathIsTruthful'
  BY <1>1, <1>2, <1>12, StaysTrue DEF sndVars
<1>16. AckedIsReceived'
  BY <1>1, <1>2, <1>12, EndPeer DEF AckedIsReceived, RcvGrows, snd_nxt, sndVars, ackVars
<1>17. \A d \in End : SndBufOK(d)' /\ AcksOK(d)'
  BY <1>1, <1>2, <1>12 DEF SndBufOK, AcksOK, RcvGrows, snd_nxt, sndVars, ackVars
<1> QED
  BY <1>12, <1>14, <1>15, <1>16, <1>17 DEF IInv

\* What the header of any datagram leaves true: the numbers dropped from snd_buf
\* were received.
HeaderDone ==
  /\ UNCHANGED <<sndVars, probe_wait, net, read>>
  /\ rmt_wnd' \in [End -> Nat] /\ snd_buf' \in [End -> SUBSET Nat] /\ snd_una' \in [End -> Nat]
  /\ \A d \in End : SndBufOK(d)'
  /\ \A d \in End : \A sn \in 0 .. snd_nxt(d) - 1 :
       sn \notin snd_buf'[d] => sn \in Received(Peer(d))

\* What ikcp_input does with the header of any genuine datagram: only segments the
\* peer holds leave snd_buf, and snd_una stays a number below or at snd_nxt.
LEMMA HeaderEffect ==
  ASSUME IInv, NEW e \in End, NEW p \in net[e], NEW acked,
         acked \subseteq Received(Peer(e)), Header(e, p, acked)
  PROVE  HeaderDone
<1>1. /\ TypeOK /\ AckedIsReceived /\ PathIsTruthful
      /\ \A d \in End : SndBufOK(d)
  BY DEF IInv
<1>2. UNCHANGED <<sndVars, probe_wait, net, read>>
  BY DEF Header
<1>3. PICK nxt \in Nat : nxt = snd_nxt(e)
  <2>1. snd_nxt(e) \in Nat
    BY <1>1, LenProperties DEF TypeOK, snd_nxt
  <2> QED
    BY <2>1
<1>4. p \in Packet /\ p.una \in Nat /\ p.wnd \in Nat
  <2>1. p \in Packet
    BY <1>1 DEF TypeOK
  <2> QED
    BY <2>1, PacketTypes
<1>5. PICK buf \in SUBSET snd_buf[e] :
        buf = {sn \in snd_buf[e] : sn >= p.una} \ acked
  OBVIOUS
<1>6. PICK u \in 0 .. nxt : IsHead(u, buf, nxt) /\ snd_una' = [snd_una EXCEPT ![e] = u]
  BY <1>3, <1>5 DEF Header
<1>7. rmt_wnd' = [rmt_wnd EXCEPT ![e] = p.wnd] /\ snd_buf' = [snd_buf EXCEPT ![e] = buf]
  BY <1>5 DEF Header
<1>8. rmt_wnd' \in [End -> Nat] /\ snd_buf' \in [End -> SUBSET Nat] /\ snd_una' \in [End -> Nat]
  <2>1. u \in Nat /\ buf \in SUBSET Nat
    BY <1>1, <1>3 DEF TypeOK
  <2> QED
    BY <2>1, <1>1, <1>4, <1>6, <1>7 DEF TypeOK
<1>9. /\ snd_buf'[e] = buf /\ snd_una'[e] = u
      /\ \A d \in End \ {e} : snd_buf'[d] = snd_buf[d] /\ snd_una'[d] = snd_una[d]
  BY <1>1, <1>6, <1>7 DEF TypeOK
<1>10. ASSUME NEW d \in End PROVE SndBufOK(d)'
  <2>1. CASE d = e
    <3>1. \A sn \in buf : sn < nxt
      BY <1>1, <1>3 DEF SndBufOK
    <3> QED
      BY <2>1, <3>1, <1>2, <1>3, <1>6, <1>9 DEF SndBufOK, IsHead, snd_nxt, sndVars
  <2>2. CASE d # e
    <3>1. SndBufOK(d) /\ snd_buf'[d] = snd_buf[d] /\ snd_una'[d] = snd_una[d]
      BY <2>2, <1>1, <1>9
    <3> QED
      BY <3>1, <1>2 DEF SndBufOK, IsHead, snd_nxt, sndVars
  <2> QED
    BY <2>1, <2>2
<1>11. ASSUME NEW d \in End, NEW sn \in 0 .. snd_nxt(d) - 1, sn \notin snd_buf'[d]
       PROVE  sn \in Received(Peer(d))
  <2>1. CASE sn \notin snd_buf[d]
    BY <2>1, <1>1 DEF AckedIsReceived
  <2>2. CASE d = e /\ sn \in snd_buf[e]
    <3>1. sn < p.una \/ sn \in acked
      <4>1. sn \notin buf /\ sn \in Nat
        BY <2>2, <1>1, <1>9, <1>11 DEF TypeOK
      <4> QED
        BY <4>1, <2>2, <1>4, <1>5
    <3>2. CASE sn < p.una
      <4>1. PICK f \in End : f = Peer(e)
        BY EndPeer
      <4>2. p.una <= rcv_nxt[f] /\ rcv_nxt[f] \in Nat /\ sn \in Nat
        BY <4>1, <1>1, <2>2 DEF PathIsTruthful, TypeOK
      <4>3. sn \in 0 .. rcv_nxt[f] - 1
        BY <4>2, <3>2, <1>4
      <4> QED
        BY <4>1, <4>3, <2>2 DEF Received
    <3>3. CASE sn \in acked
      BY <3>3, <2>2
    <3> QED
      BY <3>1, <3>2, <3>3
  <2> QED
    BY <2>1, <2>2, <1>9, <1>11
<1> QED
  BY <1>2, <1>8, <1>10, <1>11 DEF HeaderDone

\* The header and then a receiver that only grows.
LEMMA InputPreserves ==
  ASSUME IInv, HeaderDone, RcvTypes', RcvGrows, InOrder', \A d \in End : RcvBufOK(d)',
         acklist' \in [End -> SUBSET Nat], \A d \in End : AcksOK(d)',
         probe' \in [End -> SUBSET {"ask", "tell"}]
  PROVE  IInv'
<1>1. TypeOK /\ PathIsTruthful
  BY DEF IInv
<1>2. UNCHANGED <<sndVars, probe_wait, net, read>>
  BY DEF HeaderDone
<1>3. TypeOK'
  BY <1>1, <1>2 DEF TypeOK, HeaderDone, RcvTypes, sndVars
<1>4. PathIsTruthful'
  BY <1>1, <1>2, StaysTrue DEF sndVars
<1>5. AckedIsReceived'
  <2>1. ASSUME NEW d \in End, NEW sn \in 0 .. snd_nxt(d) - 1, sn \notin snd_buf'[d]
        PROVE  sn \in Received(Peer(d))'
    <3>1. PICK f \in End : f = Peer(d)
      BY EndPeer
    <3>2. sn \in Received(f)
      BY <3>1, <2>1 DEF HeaderDone
    <3>3. sn \in Received(f)'
      BY <3>2 DEF RcvGrows
    <3> QED
      BY <3>1, <3>3 DEF Received
  <2> QED
    BY <2>1, <1>2 DEF AckedIsReceived, snd_nxt, sndVars
<1> QED
  BY <1>3, <1>4, <1>5 DEF IInv, HeaderDone

\* The inputs that do not touch the receive side.
LEMMA SameReceiver ==
  ASSUME IInv, HeaderDone, UNCHANGED <<rcvVars, acklist>>,
         probe' \in [End -> SUBSET {"ask", "tell"}]
  PROVE  IInv'
<1>1. /\ TypeOK /\ InOrder /\ \A d \in End : RcvBufOK(d) /\ AcksOK(d)
  BY DEF IInv
<1>2. numbered' = numbered /\ read' = read
  BY DEF HeaderDone, sndVars
<1>3. RcvTypes' /\ acklist' \in [End -> SUBSET Nat]
  BY <1>1 DEF TypeOK, RcvTypes, rcvVars
<1>4. RcvGrows
  BY <1>1 DEF TypeOK, RcvGrows, Received, rcvVars
<1>5. InOrder' /\ \A d \in End : RcvBufOK(d)' /\ AcksOK(d)'
  BY <1>1, <1>2 DEF InOrder, RcvBufOK, Genuine, AcksOK, Received, snd_nxt, rcvVars
<1> QED
  BY <1>3, <1>4, <1>5, InputPreserves

\* An acknowledgement preserves the inductive invariant.
LEMMA InputAckPreserves ==
  ASSUME IInv, NEW e \in End, NEW p \in net[e], InputAck(e, p)
  PROVE  IInv'
<1>1. TypeOK /\ PathIsTruthful
  BY DEF IInv
<1>2. {p.sn} \subseteq Received(Peer(e)) /\ Header(e, p, {p.sn})
  BY <1>1 DEF InputAck, PathIsTruthful
<1>3. HeaderDone
  BY <1>2, HeaderEffect
<1>4. UNCHANGED <<rcvVars, acklist>> /\ probe' \in [End -> SUBSET {"ask", "tell"}]
  BY <1>1 DEF InputAck, TypeOK
<1> QED
  BY <1>3, <1>4, SameReceiver

\* A window question preserves the inductive invariant.
LEMMA InputWaskPreserves ==
  ASSUME IInv, NEW e \in End, NEW p \in net[e], InputWask(e, p)
  PROVE  IInv'
<1>1. TypeOK
  BY DEF IInv
<1>2. {} \subseteq Received(Peer(e)) /\ Header(e, p, {})
  BY DEF InputWask
<1>3. HeaderDone
  BY <1>2, HeaderEffect
<1>4. UNCHANGED <<rcvVars, acklist>> /\ probe' \in [End -> SUBSET {"ask", "tell"}]
  BY <1>1 DEF InputWask, TypeOK
<1> QED
  BY <1>3, <1>4, SameReceiver

\* A window announcement preserves the inductive invariant.
LEMMA InputWinsPreserves ==
  ASSUME IInv, NEW e \in End, NEW p \in net[e], InputWins(e, p)
  PROVE  IInv'
<1>1. TypeOK
  BY DEF IInv
<1>2. {} \subseteq Received(Peer(e)) /\ Header(e, p, {})
  BY DEF InputWins
<1>3. HeaderDone
  BY <1>2, HeaderEffect
<1>4. UNCHANGED <<rcvVars, acklist>> /\ probe' \in [End -> SUBSET {"ask", "tell"}]
  BY <1>1 DEF InputWins, TypeOK
<1> QED
  BY <1>3, <1>4, SameReceiver

\* A datagram acknowledged but not stored is an old one.
LEMMA InputPushPreserves ==
  ASSUME IInv, NEW e \in End, NEW p \in net[e], InputPush(e, p)
  PROVE  IInv'
<1>1. /\ TypeOK /\ InOrder /\ PathIsTruthful
      /\ \A d \in End : RcvBufOK(d) /\ AcksOK(d)
  BY DEF IInv
<1>2. HeaderDone
  <2>1. {} \subseteq Received(Peer(e)) /\ Header(e, p, {})
    BY DEF InputPush
  <2> QED
    BY <2>1, HeaderEffect
<1>3. numbered' = numbered /\ read' = read
  BY <1>2 DEF HeaderDone, sndVars
<1>3a. PICK old : old = rcv_buf[e]
  OBVIOUS
<1>4. PICK nxt \in Nat, queue \in Seq(Segment), sn \in Nat :
        nxt = rcv_nxt[e] /\ old = rcv_buf[e] /\ queue = rcv_queue[e] /\ sn = p.sn
  <2>1. p \in Packet /\ p.cmd = "PUSH"
    BY <1>1 DEF TypeOK, InputPush
  <2>2. p.sn \in Nat
    BY <2>1, PacketTypes
  <2> QED
    BY <2>2, <1>1, <1>3a DEF TypeOK
<1>5. sn < snd_nxt(Peer(e)) /\ p.seg = numbered[Peer(e)][sn + 1]
  BY <1>1, <1>4 DEF PathIsTruthful, InputPush
<1>6. probe' \in [End -> SUBSET {"ask", "tell"}]
  BY <1>1 DEF InputPush, TypeOK
<1>7. Genuine(e, old, nxt)
  BY <1>1, <1>4 DEF RcvBufOK
<1>8. acklist' = IF AckDue(e, sn) THEN [acklist EXCEPT ![e] = @ \cup {sn}] ELSE acklist
  BY <1>4 DEF InputPush
<1>9. acklist' \in [End -> SUBSET Nat]
  BY <1>1, <1>8 DEF TypeOK
<1>10. /\ \A d \in End \ {e} : acklist'[d] = acklist[d]
       /\ acklist'[e] \subseteq acklist[e] \cup {sn}
       /\ ~ AckDue(e, sn) => acklist'[e] = acklist[e]
  BY <1>1, <1>8 DEF TypeOK
<1>11. CASE Storable(e, sn)
  <2>1. PICK buf : buf = Insert(old, sn, p.seg)
    OBVIOUS
  <2>2. /\ DOMAIN buf = DOMAIN old \cup {sn}
        /\ \A x \in DOMAIN buf : buf[x] = IF x \in DOMAIN old THEN old[x] ELSE p.seg
    BY <2>1 DEF Insert
  <2>3. MoveReady(e, nxt, buf, queue)
    BY <1>4, <1>11, <2>1 DEF InputPush
  <2>4. Genuine(e, buf, nxt)
    <3>1. nxt <= sn
      BY <1>4, <1>11 DEF Storable
    <3> QED
      BY <3>1, <1>4, <1>5, <1>7, <2>2 DEF Genuine
  <2>5. read' \in [End -> Seq(Segment)] /\ \A d \in End \ {e} : read'[d] = read[d]
    BY <1>1, <1>3 DEF TypeOK
  <2>6. Ordered(e, read'[e], queue, nxt)
    BY <1>1, <1>3, <1>4, InOrderOrdered
  <2>7. DOMAIN rcv_buf[e] \subseteq DOMAIN buf
    BY <1>4, <2>2
  <2>8. /\ RcvTypes' /\ RcvGrows /\ InOrder' /\ (\A d \in End : RcvBufOK(d)')
        /\ DOMAIN buf \subseteq Received(e)'
    BY <1>1, <1>3, <1>4, <2>3, <2>4, <2>5, <2>6, <2>7, ReceiveStep
  <2>9. \A d \in End : AcksOK(d)'
    <3>1. sn \in Received(e)'
      BY <2>2, <2>8
    <3>2. \A d \in End : \A x \in acklist[d] : x \in Received(d)'
      BY <1>1, <2>8 DEF AcksOK, RcvGrows
    <3> QED
      BY <3>1, <3>2, <1>10 DEF AcksOK
  <2> QED
    BY <1>2, <1>6, <1>9, <2>8, <2>9, InputPreserves
<1>12. CASE ~ Storable(e, sn)
  <2>1. UNCHANGED rcvVars
    BY <1>4, <1>12 DEF InputPush
  <2>2. RcvTypes'
    BY <2>1, <1>1 DEF TypeOK, RcvTypes, rcvVars
  <2>3. RcvGrows
    BY <2>1, <1>1 DEF TypeOK, RcvGrows, Received, rcvVars
  <2>4. InOrder' /\ \A d \in End : RcvBufOK(d)'
    BY <2>1, <1>1, <1>3 DEF InOrder, RcvBufOK, Genuine, snd_nxt, rcvVars
  <2>5. AckDue(e, sn) => sn \in Received(e)
    BY <1>4, <1>12 DEF AckDue, Storable, Received
  <2>6. \A d \in End : AcksOK(d)'
    <3>1. \A d \in End : \A x \in acklist'[d] : x \in Received(d)
      BY <1>1, <1>10, <2>5 DEF AcksOK
    <3> QED
      BY <3>1, <2>3 DEF AcksOK, RcvGrows
  <2> QED
    BY <1>2, <1>6, <1>9, <2>2, <2>3, <2>4, <2>6, InputPreserves
<1> QED
  BY <1>11, <1>12

-----------------------------------------------------------------------------
(* ikcp_send                                                               *)

\* Multiplication by a segment size keeps order.
LEMMA TimesMonotone ==
  ASSUME NEW a \in Nat, NEW b \in Nat, NEW c \in Nat, a <= b
  PROVE  a * c <= b * c /\ a * c \in Nat
OBVIOUS

\* The number of fragments is the least that holds the message.
LEMMA FragCountBounds ==
  ASSUME NEW m \in Seq(Nat), m # <<>>
  PROVE  /\ FragCount(Len(m)) \in Nat /\ FragCount(Len(m)) >= 1
         /\ (FragCount(Len(m)) - 1) * Mss < Len(m)
         /\ Len(m) <= FragCount(Len(m)) * Mss
<1> DEFINE c == FragCount(Len(m))
<1>1. Mss \in Nat \ {0} /\ Len(m) \in Nat \ {0}
  BY KcpAssumption, LenProperties, EmptySeq
<1>2. CASE Len(m) <= Mss
  <2>1. c = 1
    BY <1>2, <1>1 DEF FragCount
  <2> HIDE DEF c
  <2>2. c \in Nat /\ c >= 1 /\ (c - 1) * Mss < Len(m) /\ Len(m) <= c * Mss
    BY <2>1, <1>1, <1>2
  <2> QED
    BY <2>2 DEF c
<1>3. CASE Len(m) > Mss
  <2>1. c = (Len(m) + Mss - 1) \div Mss
    BY <1>3, <1>1 DEF FragCount
  <2>2. PICK k \in Nat : k = Len(m) + Mss - 1
    <3>1. Len(m) + Mss - 1 \in Nat
      BY <1>1
    <3> QED
      BY <3>1
  <2>3. k \div Mss \in Nat /\ (k \div Mss) * Mss <= k /\ k < (k \div Mss) * Mss + Mss
    BY <1>1
  <2> HIDE DEF c
  <2>4. c \in Nat /\ c * Mss <= k /\ k < c * Mss + Mss
    BY <2>1, <2>2, <2>3
  <2>5. c # 0
    BY <2>2, <2>4, <1>1, <1>3
  <2>6. (c - 1) * Mss = c * Mss - Mss /\ c * Mss \in Nat
    BY <2>4, <1>1
  <2>7. c >= 1 /\ (c - 1) * Mss < Len(m) /\ Len(m) <= c * Mss
    BY <2>2, <2>4, <2>5, <2>6, <1>1
  <2> QED
    BY <2>4, <2>7 DEF c
<1> QED
  BY <1>1, <1>2, <1>3

\* The bytes of m that its first i fragments carry.
Begun(m, i) == SubSeq(m, 1, AtMost(i * Mss, Len(m)))

\* Fragments cuts a message that is not empty into pieces that put together are the
\* message, and numbers them down to 0.
CutUp(m, frags) ==
  LET c == FragCount(Len(m)) IN
  /\ frags = Fragments(m) /\ frags \in Seq(Segment) /\ Len(frags) = c
  /\ \A i \in 1 .. c : /\ frags[i].frg = IF StreamMode THEN 0 ELSE c - i
                       /\ Begun(m, i - 1) \in Seq(Nat)
                       /\ Begun(m, i) = Begun(m, i - 1) \o frags[i].data
  /\ Begun(m, 0) = <<>> /\ Begun(m, c) = m

LEMMA FragmentsCut ==
  ASSUME NEW m \in Seq(Nat), m # <<>>
  PROVE  \E frags \in Seq(Segment) : CutUp(m, frags)
<1> DEFINE c == FragCount(Len(m))
           At(i) == AtMost(i * Mss, Len(m))
           piece(i) == SubSeq(m, (i - 1) * Mss + 1, At(i))
<1>1. Mss \in Nat \ {0} /\ Len(m) \in Nat \ {0} /\ \A k \in 1 .. Len(m) : m[k] \in Nat
  BY KcpAssumption, LenProperties, ElementOfSeq, EmptySeq
<1>2. c \in Nat /\ c >= 1 /\ (c - 1) * Mss < Len(m) /\ Len(m) <= c * Mss
  BY FragCountBounds
<1> HIDE DEF c
<1>3. ASSUME NEW i \in 1 .. c
      PROVE  piece(i) \in Seq(Nat) /\ Begun(m, i - 1) \in Seq(Nat)
               /\ Begun(m, i) = Begun(m, i - 1) \o piece(i)
  <2>1. PICK lo \in Nat, hi \in Nat :
          /\ lo = (i - 1) * Mss /\ hi = At(i)
          /\ lo <= hi /\ hi <= Len(m) /\ AtMost((i - 1) * Mss, Len(m)) = lo
    <3>1. /\ i - 1 \in Nat /\ i \in Nat /\ i - 1 <= c - 1 /\ c - 1 \in Nat
          /\ (i - 1) * Mss \in Nat /\ (c - 1) * Mss \in Nat /\ i * Mss = (i - 1) * Mss + Mss
      BY <1>1, <1>2, TimesMonotone
    <3>2. (i - 1) * Mss <= (c - 1) * Mss
      BY <3>1, <1>1, TimesMonotone
    <3>3. (i - 1) * Mss < Len(m) /\ i * Mss \in Nat
      BY <3>1, <3>2, <1>1, <1>2
    <3>4. /\ At(i) \in Nat /\ At(i) <= Len(m) /\ (i - 1) * Mss <= At(i)
          /\ AtMost((i - 1) * Mss, Len(m)) = (i - 1) * Mss
      BY <3>1, <3>3, <1>1 DEF AtMost
    <3> QED
      BY <3>1, <3>4
  <2>2. piece(i) = SubSeq(m, lo + 1, hi) /\ Begun(m, i - 1) = SubSeq(m, 1, lo)
          /\ Begun(m, i) = SubSeq(m, 1, hi)
    BY <2>1 DEF Begun
  <2>3. /\ \A k \in lo + 1 .. hi : m[k] \in Nat
        /\ \A k \in 1 .. lo : m[k] \in Nat
    <3>1. lo <= hi /\ hi <= Len(m) /\ Len(m) \in Nat
      BY <1>1, <2>1
    <3>2. (lo + 1 .. hi) \subseteq 1 .. Len(m) /\ (1 .. lo) \subseteq 1 .. Len(m)
      BY <3>1
    <3> QED
      BY <1>1, <3>2
  <2>4. SubSeq(m, lo + 1, hi) \in Seq(Nat) /\ SubSeq(m, 1, lo) \in Seq(Nat)
    BY <2>1, <2>3, SubSeqProperties
  <2>5. SubSeq(m, 1, lo) \o SubSeq(m, lo + 1, hi) = SubSeq(m, 1, hi)
    <3>1. 1 \in 1 .. Len(m) + 1 /\ lo \in 1 - 1 .. Len(m) /\ hi \in lo .. Len(m)
      BY <1>1, <2>1
    <3> QED
      BY <3>1, ConcatAdjacentSubSeq
  <2> QED
    BY <2>2, <2>4, <2>5
<1>4. Begun(m, 0) = <<>> /\ Begun(m, c) = m
  <2>1. AtMost(0 * Mss, Len(m)) = 0 /\ AtMost(c * Mss, Len(m)) = Len(m)
    <3>1. 0 * Mss = 0 /\ c * Mss \in Nat
      BY <1>1, <1>2
    <3> QED
      BY <3>1, <1>1, <1>2 DEF AtMost
  <2> QED
    BY <2>1, SubSeqFull, SubSeqEmpty DEF Begun
<1>5. ASSUME NEW i \in 1 .. c
      PROVE  [frg  |-> IF StreamMode THEN 0 ELSE c - i, data |-> piece(i)] \in Segment
  <2>1. (IF StreamMode THEN 0 ELSE c - i) \in Nat
    BY <1>2
  <2> HIDE DEF piece
  <2> QED
    BY <2>1, <1>3 DEF Segment
<1>6. Fragments(m) = [i \in 1 .. c |->
                        [frg  |-> IF StreamMode THEN 0 ELSE c - i, data |-> piece(i)]]
  BY DEF Fragments, c
<1> HIDE DEF piece
<1>7. Fragments(m) \in [1 .. c -> Segment]
  BY <1>5, <1>6
<1>8. Fragments(m) \in Seq(Segment) /\ Len(Fragments(m)) = c
  BY <1>2, <1>7, FunctionIsSeq
<1>9. ASSUME NEW i \in 1 .. c
      PROVE  /\ Fragments(m)[i].frg = (IF StreamMode THEN 0 ELSE c - i)
             /\ Fragments(m)[i].data = piece(i)
  BY <1>6
<1>10. CutUp(m, Fragments(m))
  BY <1>3, <1>4, <1>8, <1>9 DEF CutUp, c
<1> QED
  BY <1>8, <1>10

\* So its result is a sequence of segments.
LEMMA FragmentsType ==
  ASSUME NEW m \in Seq(Nat), m # <<>>
  PROVE  Fragments(m) \in Seq(Segment)
BY FragmentsCut DEF CutUp

\* q with the bytes x behind its last segment.
Filled(q, x, filled) ==
  /\ Len(filled) = Len(q)
  /\ \A i \in 1 .. Len(q) :
       IF i = Len(q) THEN filled[i].frg = 0 /\ filled[i].data = q[i].data \o x
                     ELSE filled[i] = q[i]

\* A queue whose tail ikcp_send filled with n bytes of m is still a queue of
\* segments; only its last segment changed.

LEMMA FillTailEffect ==
  ASSUME NEW q \in Seq(Segment), NEW m \in Seq(Nat), NEW n \in Nat, n = TailRoom(q, m), n # 0
  PROVE  /\ q # <<>> /\ n <= Len(m)
         /\ \E filled \in Seq(Segment), x \in Seq(Nat) :
              x = SubSeq(m, 1, n) /\ filled = FillTail(q, m, n) /\ Filled(q, x, filled)
<1>1. q # <<>> /\ n = AtMost(Len(m), Mss - Len(q[Len(q)].data))
  BY DEF TailRoom
<1>2. Len(q) \in Nat \ {0} /\ Len(m) \in Nat
  BY <1>1, LenProperties, EmptySeq
<1>3. q[Len(q)] \in Segment
  BY <1>2, ElementOfSeq
<1>4. q[Len(q)].data \in Seq(Nat) /\ Len(q[Len(q)].data) \in Nat
  BY <1>3, LenProperties DEF Segment
<1>5. n <= Len(m)
  BY <1>1, <1>2, <1>4, KcpAssumption DEF AtMost
<1>6. PICK x \in Seq(Nat) : x = SubSeq(m, 1, n)
  BY <1>2, <1>5, Cut DEF CutInto
<1>7. PICK seg \in Segment : seg = [frg |-> 0, data |-> q[Len(q)].data \o x]
  <2>1. q[Len(q)].data \o x \in Seq(Nat)
    BY <1>4, ConcatProperties
  <2> QED
    BY <2>1 DEF Segment
<1>8. FillTail(q, m, n) = [q EXCEPT ![Len(q)] = seg]
  BY <1>6, <1>7 DEF FillTail
<1>9. PICK filled \in Seq(Segment) :
        /\ filled = FillTail(q, m, n) /\ Len(filled) = Len(q)
        /\ \A i \in 1 .. Len(q) : filled[i] = IF i = Len(q) THEN seg ELSE q[i]
  <2>1. PICK l \in 1 .. Len(q) : l = Len(q)
    BY <1>2
  <2>2. /\ [q EXCEPT ![l] = seg] \in Seq(Segment)
        /\ Len([q EXCEPT ![l] = seg]) = Len(q)
        /\ \A i \in 1 .. Len(q) : [q EXCEPT ![l] = seg][i] = IF i = l THEN seg ELSE q[i]
    BY ExceptSeq
  <2>3. FillTail(q, m, n) = [q EXCEPT ![l] = seg]
    BY <1>8, <2>1
  <2> QED
    BY <2>1, <2>2, <2>3
<1>10. seg.frg = 0 /\ seg.data = q[Len(q)].data \o x
  BY <1>7
<1>11. Filled(q, x, filled)
  BY <1>9, <1>10 DEF Filled
<1> QED
  BY <1>1, <1>5, <1>6, <1>9, <1>11

LEMMA FillTailType ==
  ASSUME NEW q \in Seq(Segment), NEW m \in Seq(Nat), NEW n \in Nat, n = TailRoom(q, m)
  PROVE  FillTail(q, m, n) \in Seq(Segment)
<1>1. CASE n = 0
  BY <1>1 DEF FillTail
<1>2. CASE n # 0
  BY <1>2, FillTailEffect
<1> QED
  BY <1>1, <1>2

\* What ikcp_send adds behind the filled tail: the fragments of what did not fit.
Accepted(rest) == rest = <<>> \/ FragCount(Len(rest)) <= MaxFrag
Added(rest) == IF Accepted(rest) /\ rest # <<>> THEN Fragments(rest) ELSE <<>>

\* What one ikcp_send of m does: n bytes of it fill the tail, the rest is cut.
Sends(e, m, n, rest) ==
  /\ m # <<>> /\ Len(m) \in Lengths
  /\ n <= Len(m) /\ n = TailRoom(snd_queue[e], m)
  /\ rest = SubSeq(m, n + 1, Len(m))
  /\ snd_queue' = [snd_queue EXCEPT ![e] = FillTail(snd_queue[e], m, n) \o Added(rest)]
  /\ sent' = IF Accepted(rest) THEN [sent EXCEPT ![e] = Append(@, m)] ELSE sent
  /\ written' = [written EXCEPT ![e] = @ + Len(m)]
  /\ UNCHANGED <<numbered, ackVars, rcvVars, wndVars, acklist, probe, net, read>>

\* The application sends a sequence of bytes that is not empty.
LEMMA SendEffect ==
  ASSUME IInv, NEW e \in End, AppSend(e)
  PROVE  \E m \in Seq(Nat), n \in Nat, rest \in Seq(Nat) : Sends(e, m, n, rest)
<1>1. TypeOK
  BY DEF IInv
<1>2. PICK l \in Lengths : Send(e, NextBytes(e, l))
  BY DEF AppSend
<1>3. l \in Nat \ {0} /\ written[e] \in Nat
  BY <1>1, KcpAssumption DEF TypeOK
<1>4. PICK m \in Seq(Nat) : m = NextBytes(e, l) /\ m # <<>> /\ Len(m) = l
  <2>1. NextBytes(e, l) \in [1 .. l -> Nat]
    BY <1>3 DEF NextBytes
  <2>2. NextBytes(e, l) \in Seq(Nat) /\ Len(NextBytes(e, l)) = l
    BY <2>1, <1>3, FunctionIsSeq
  <2> QED
    BY <2>2, <1>3, EmptySeq
<1>5. PICK q \in Seq(Segment) : q = snd_queue[e]
  BY <1>1 DEF TypeOK
<1>6. PICK n \in 0 .. Len(m) : n = TailRoom(q, m)
  <2>1. CASE StreamMode /\ q # <<>> /\ Len(q[Len(q)].data) < Mss
    <3>1. Len(q) \in Nat \ {0} /\ Len(m) \in Nat
      BY <2>1, LenProperties, EmptySeq
    <3>2. q[Len(q)] \in Segment
      BY <3>1, ElementOfSeq
    <3>3. Len(q[Len(q)].data) \in Nat
      BY <3>2, LenProperties DEF Segment
    <3>4. TailRoom(q, m) \in 0 .. Len(m)
      <4> DEFINE t == Len(q[Len(q)].data)   c == Len(m)
      <4>1. t \in Nat /\ t < Mss /\ Mss \in Nat /\ c \in Nat
        BY <2>1, <3>1, <3>3, KcpAssumption
      <4>2. TailRoom(q, m) = AtMost(c, Mss - t)
        BY <2>1, Zenon DEF TailRoom
      <4> HIDE DEF t, c
      <4>3. AtMost(c, Mss - t) \in 0 .. c
        BY <4>1 DEF AtMost
      <4> QED
        BY <4>2, <4>3 DEF c
    <3> QED
      BY <3>4
  <2>2. CASE ~ (StreamMode /\ q # <<>> /\ Len(q[Len(q)].data) < Mss)
    BY <2>2, LenProperties DEF TailRoom
  <2> QED
    BY <2>1, <2>2
<1>7. PICK rest \in Seq(Nat) : rest = SubSeq(m, n + 1, Len(m))
  BY Cut DEF CutInto
<1>8. Sends(e, m, n, rest)
  BY <1>2, <1>4, <1>5, <1>6, <1>7 DEF Send, Sends, Accepted, Added
<1> QED
  BY <1>8, LenProperties

\* ikcp_send preserves the inductive invariant.
LEMMA AppSendPreserves ==
  ASSUME IInv, NEW e \in End, AppSend(e)
  PROVE  IInv'
<1>1. TypeOK
  BY DEF IInv
<1>2. PICK m \in Seq(Nat), n \in Nat, rest \in Seq(Nat) : Sends(e, m, n, rest)
  BY SendEffect
<1>3. PICK q \in Seq(Segment) : q = snd_queue[e]
  BY <1>1 DEF TypeOK
<1> DEFINE new == FillTail(q, m, n) \o Added(rest)
<1>8. /\ snd_queue' = [snd_queue EXCEPT ![e] = new]
      /\ sent' = IF Accepted(rest) THEN [sent EXCEPT ![e] = Append(@, m)] ELSE sent
      /\ written' = [written EXCEPT ![e] = @ + Len(m)]
      /\ UNCHANGED <<numbered, ackVars, rcvVars, wndVars, acklist, probe, net, read>>
  BY <1>2, <1>3 DEF Sends
<1>9. new \in Seq(Segment)
  <2>1. FillTail(q, m, n) \in Seq(Segment)
    BY <1>2, <1>3, LenProperties, FillTailType DEF Sends
  <2>2. Added(rest) \in Seq(Segment)
    BY FragmentsType, EmptySeq DEF Added
  <2> QED
    BY <2>1, <2>2, ConcatProperties
<1> HIDE DEF new
<1>10. snd_queue' \in [End -> Seq(Segment)]
  BY <1>1, <1>8, <1>9 DEF TypeOK
<1>11. sent' \in [End -> Seq(Seq(Nat))]
  BY <1>1, <1>8 DEF TypeOK
<1>12. written' \in [End -> Nat]
  BY <1>1, <1>8, LenProperties DEF TypeOK
<1>13. TypeOK'
  BY <1>1, <1>8, <1>10, <1>11, <1>12 DEF TypeOK, ackVars, rcvVars, wndVars
<1>14. InOrder' /\ AckedIsReceived' /\ PathIsTruthful'
  BY <1>8 DEF IInv, InOrder, AckedIsReceived, PathIsTruthful, Received, snd_nxt, ackVars, rcvVars
<1>15. \A d \in End : SndBufOK(d)' /\ RcvBufOK(d)' /\ AcksOK(d)'
  BY <1>8 DEF IInv, SndBufOK, IsHead, RcvBufOK, Genuine, AcksOK, Received, snd_nxt, ackVars, rcvVars
<1> QED
  BY <1>13, <1>14, <1>15 DEF IInv

-----------------------------------------------------------------------------
(* ikcp_flush                                                              *)

\* Numbers once given keep their segment.
LogGrows ==
  /\ numbered' \in [End -> Seq(Segment)]
  /\ \A d \in End : /\ snd_nxt(d) <= Len(numbered'[d])
                    /\ \A i \in 1 .. snd_nxt(d) : numbered'[d][i] = numbered[d][i]

\* A receiver that a flush of its peer does not touch keeps its order and its
\* genuine segments while the log grows.
LEMMA ReceiverKeeps ==
  ASSUME TypeOK, InOrder, \A d \in End : RcvBufOK(d), LogGrows, UNCHANGED <<rcvVars, read>>
  PROVE  InOrder' /\ \A d \in End : RcvBufOK(d)'
<1> SUFFICES ASSUME NEW d \in End, NEW f \in End, f = Peer(d)
             PROVE  Ordered(d, read[d], rcv_queue[d], rcv_nxt[d])' /\ RcvBufOK(d)'
  BY EndPeer DEF InOrder, Ordered
<1>1. /\ snd_nxt(f) \in Nat /\ Len(numbered'[f]) \in Nat /\ rcv_nxt[d] \in Nat
      /\ Len(read[d]) \in Nat /\ Len(rcv_queue[d]) \in Nat
  BY LenProperties DEF TypeOK, LogGrows, snd_nxt
<1>2. /\ snd_nxt(f) <= Len(numbered'[f])
      /\ \A i \in 1 .. snd_nxt(f) : numbered'[f][i] = numbered[f][i]
  BY DEF LogGrows
<1>3. rcv_buf' = rcv_buf /\ rcv_nxt' = rcv_nxt /\ rcv_queue' = rcv_queue /\ read' = read
  BY DEF rcvVars
<1>4. Ordered(d, read[d], rcv_queue[d], rcv_nxt[d])
  BY InOrderOrdered
<1>5. Ordered(d, read[d], rcv_queue[d], rcv_nxt[d])'
  <2>0. PICK rd \in Seq(Segment), q \in Seq(Segment), nxt \in Nat, k \in Nat :
          rd = read[d] /\ q = rcv_queue[d] /\ nxt = rcv_nxt[d] /\ k = snd_nxt(f)
    BY <1>1 DEF TypeOK
  <2>1. /\ nxt = Len(rd) + Len(q) /\ nxt <= k /\ Len(rd) \in Nat /\ Len(q) \in Nat
        /\ \A i \in 1 .. Len(rd) : rd[i] = numbered[f][i]
        /\ \A i \in 1 .. Len(q) : q[i] = numbered[f][Len(rd) + i]
    BY <1>1, <1>4, <2>0 DEF Ordered
  <2>1a. Len(rd) \in Nat /\ Len(q) \in Nat /\ Len(rd) + Len(q) <= k
    BY <2>1
  <2>2. ASSUME NEW i \in 1 .. Len(rd) PROVE rd[i] = numbered'[f][i]
    <3>1. i \in 1 .. k
      BY <2>1a
    <3> QED
      BY <3>1, <1>2, <2>0, <2>1
  <2>3. ASSUME NEW i \in 1 .. Len(q)
        PROVE  q[i] = numbered'[f][Len(rd) + i]
    <3>1. Len(rd) + i \in 1 .. k
      BY <2>1a
    <3> QED
      BY <3>1, <1>2, <2>0, <2>1
  <2>4. nxt <= Len(numbered'[f])
    <3>1. nxt <= k /\ k <= Len(numbered'[f])
      BY <1>2, <2>0, <2>1
    <3> QED
      BY <3>1, <1>1
  <2> QED
    BY <1>3, <2>0, <2>1, <2>2, <2>3, <2>4 DEF Ordered, snd_nxt
<1>6. RcvBufOK(d)'
  <2>1. Genuine(d, rcv_buf[d], rcv_nxt[d])
    BY DEF RcvBufOK
  <2>2. ASSUME NEW sn \in DOMAIN rcv_buf[d]
        PROVE  sn < Len(numbered'[f]) /\ rcv_buf[d][sn] = numbered'[f][sn + 1]
    <3>1. sn \in Nat /\ sn < snd_nxt(f) /\ rcv_buf[d][sn] = numbered[f][sn + 1]
      BY <2>1 DEF Genuine
    <3>2. sn + 1 \in 1 .. snd_nxt(f)
      BY <3>1, <1>1
    <3> QED
      BY <3>1, <3>2, <1>1, <1>2
  <2> QED
    BY <1>3, <2>1, <2>2 DEF RcvBufOK, Genuine, snd_nxt
<1> QED
  BY <1>5, <1>6

\* A datagram stays true when the log grows.
TrueOf(d, p) ==
  /\ p.una <= rcv_nxt[d]
  /\ p.cmd = "PUSH" => p.sn < snd_nxt(d) /\ p.seg = numbered[d][p.sn + 1]
  /\ p.cmd = "ACK" => p.sn \in Received(d)

\* A datagram true of its sender stays true while only the log grows.
LEMMA StaysTrueOf ==
  ASSUME TypeOK, LogGrows, UNCHANGED rcvVars, NEW d \in End, NEW p \in Packet, TrueOf(d, p)
  PROVE  TrueOf(d, p)'
<1>1. snd_nxt(d) \in Nat /\ Len(numbered'[d]) \in Nat
  BY LenProperties DEF TypeOK, LogGrows, snd_nxt
<1>2. ASSUME p.cmd = "PUSH"
      PROVE  p.sn < Len(numbered'[d]) /\ p.seg = numbered'[d][p.sn + 1]
  <2>1. p.sn \in Nat /\ p.sn < snd_nxt(d) /\ p.seg = numbered[d][p.sn + 1]
    BY <1>2, PacketTypes DEF TrueOf
  <2>2. p.sn + 1 \in 1 .. snd_nxt(d)
    BY <1>1, <2>1
  <2> QED
    BY <1>1, <2>1, <2>2 DEF LogGrows
<1> QED
  BY <1>2 DEF TrueOf, rcvVars, Received, snd_nxt

\* The advertised window and the windows a flush may use are numbers.
LEMMA WindowTypes ==
  ASSUME TypeOK, NEW e \in End
  PROVE  WndUnused(e) \in Nat /\ Windows(e) \subseteq Nat
<1>1. Len(rcv_queue[e]) \in Nat /\ rmt_wnd[e] \in Nat
  BY LenProperties DEF TypeOK
<1>2. PICK k \in Nat : k = IF Len(rcv_queue[e]) < RcvWnd THEN RcvWnd - Len(rcv_queue[e]) ELSE 0
  <2>1. (IF Len(rcv_queue[e]) < RcvWnd THEN RcvWnd - Len(rcv_queue[e]) ELSE 0) \in Nat
    BY <1>1, KcpAssumption
  <2> QED
    BY <2>1
<1>3. k % WndMod \in Nat
  BY KcpAssumption
<1>4. AtMost(SndWnd, rmt_wnd[e]) \in Nat
  BY <1>1, KcpAssumption DEF AtMost
<1> QED
  BY <1>2, <1>3, <1>4 DEF WndUnused, Windows

\* A flush numbers no more segments than the queue has.
LEMMA NewCountRange ==
  ASSUME TypeOK, NEW e \in End, NEW w \in Nat
  PROVE  NewCount(e, w) \in 0 .. Len(snd_queue[e])
<1>1. Len(snd_queue[e]) \in Nat /\ Len(numbered[e]) \in Nat /\ snd_una[e] \in Nat
  BY LenProperties DEF TypeOK
<1> QED
  BY <1>1 DEF NewCount, AtMost, snd_nxt

\* The datagrams of a flush are true of the log it leaves.
LEMMA OutputTrue ==
  ASSUME IInv, NEW e \in End, NEW log \in Seq(Segment), NEW resend \in SUBSET Nat,
         NEW asks \in SUBSET {"ask", "tell"}, NEW p \in Output(e, log, resend, asks),
         numbered'[e] = log, \A sn \in resend : sn < Len(log), UNCHANGED rcvVars
  PROVE  p \in Packet /\ TrueOf(e, p)'
<1>1. TypeOK /\ AcksOK(e)
  BY DEF IInv
<1>2. /\ rcv_nxt[e] \in Nat /\ WndUnused(e) \in Nat /\ acklist[e] \subseteq Nat
      /\ Len(log) \in Nat
  BY <1>1, WindowTypes, LenProperties DEF TypeOK
<1>3. rcv_nxt'[e] = rcv_nxt[e] /\ Received(e)' = Received(e)
  BY DEF rcvVars, Received
<1>4. CASE \E sn \in acklist[e] : p = Ack(e, sn)
  <2>1. PICK sn \in acklist[e] : p = Ack(e, sn)
    BY <1>4
  <2>2. sn \in Nat /\ sn \in Received(e)
    BY <1>1, <1>2 DEF AcksOK
  <2>3. p \in Packet
    BY <1>2, <2>1, <2>2 DEF Ack, Packet
  <2>4. p.una = rcv_nxt[e] /\ p.cmd = "ACK" /\ p.sn = sn
    BY <2>1 DEF Ack
  <2> QED
    BY <1>2, <1>3, <2>2, <2>3, <2>4 DEF TrueOf
<1>5. CASE \E sn \in resend : p = Push(e, sn, log[sn + 1])
  <2>1. PICK sn \in resend : p = Push(e, sn, log[sn + 1])
    BY <1>5
  <2>2. sn \in Nat /\ sn < Len(log) /\ sn + 1 \in 1 .. Len(log)
    BY <1>2
  <2>3. log[sn + 1] \in Segment
    BY <2>2, ElementOfSeq
  <2>4. p \in Packet
    BY <1>2, <2>1, <2>2, <2>3 DEF Push, Packet
  <2>5. p.una = rcv_nxt[e] /\ p.cmd = "PUSH" /\ p.sn = sn /\ p.seg = log[sn + 1]
    BY <2>1 DEF Push
  <2> QED
    BY <1>2, <1>3, <2>2, <2>4, <2>5 DEF TrueOf, snd_nxt
<1>6. CASE \E x \in asks : p = Probe(e, IF x = "ask" THEN "WASK" ELSE "WINS")
  <2>1. PICK cmd \in {"WASK", "WINS"} : p = Probe(e, cmd)
    BY <1>6
  <2>2. p \in Packet
    BY <1>2, <2>1 DEF Probe, Packet
  <2>3. p.una = rcv_nxt[e] /\ p.cmd \notin {"PUSH", "ACK"}
    BY <2>1 DEF Probe
  <2> QED
    BY <1>2, <1>3, <2>2, <2>3 DEF TrueOf
<1> QED
  BY <1>4, <1>5, <1>6 DEF Output

\* ikcp_flush preserves the inductive invariant.
LEMMA FlushPreserves ==
  ASSUME IInv, NEW e \in End, Flush(e)
  PROVE  IInv'
<1>1. /\ TypeOK /\ InOrder /\ AckedIsReceived /\ PathIsTruthful
      /\ \A d \in End : SndBufOK(d) /\ RcvBufOK(d) /\ AcksOK(d)
  BY DEF IInv
<1>2. PICK w \in Nat, again \in SUBSET snd_buf[e], due \in BOOLEAN : FlushWith(e, w, again, due)
  BY <1>1, WindowTypes DEF Flush
<1>3. PICK q \in Seq(Segment), old \in Seq(Segment), nxt \in Nat :
        q = snd_queue[e] /\ old = numbered[e] /\ nxt = snd_nxt(e) /\ nxt = Len(old)
  <2>1. snd_queue[e] \in Seq(Segment) /\ numbered[e] \in Seq(Segment)
    BY <1>1 DEF TypeOK
  <2>2. Len(numbered[e]) \in Nat
    BY <2>1, LenProperties
  <2> QED
    BY <2>1, <2>2 DEF snd_nxt
<1>4. PICK n \in 0 .. Len(q) : n = NewCount(e, w)
  BY <1>1, <1>3, NewCountRange
<1>5. n \in Nat /\ Len(q) \in Nat
  BY LenProperties
<1>6. PICK front \in Seq(Segment), rest \in Seq(Segment) : CutInto(q, n, front, rest)
  BY Cut
<1>7. front = SubSeq(q, 1, n) /\ rest = SubSeq(q, n + 1, Len(q)) /\ Len(front) = n
  BY <1>6 DEF CutInto
<1>8. PICK log \in Seq(Segment) :
        /\ log = old \o front /\ Len(log) = nxt + n
        /\ \A i \in 1 .. nxt : log[i] = old[i]
  <2>1. PICK log \in Seq(Segment) : JoinOf(log, old, front)
    BY Join
  <2>2. log = old \o front /\ Len(log) = Len(old) + Len(front)
    BY <2>1 DEF JoinOf
  <2>3. \A i \in 1 .. Len(old) : log[i] = old[i]
    BY <2>1 DEF JoinOf
  <2> QED
    BY <2>2, <2>3, <1>3, <1>7
<1>9. PICK new : new = nxt .. nxt + n - 1
  OBVIOUS
<1>10. PICK asks \in SUBSET {"ask", "tell"} :
         asks = probe[e] \cup IF rmt_wnd[e] = 0 /\ probe_wait[e] /\ due THEN {"ask"} ELSE {}
  <2>1. probe[e] \subseteq {"ask", "tell"}
    BY <1>1 DEF TypeOK
  <2> QED
    BY <2>1
<1>11. /\ numbered' = [numbered EXCEPT ![e] = log]
       /\ snd_queue' = [snd_queue EXCEPT ![e] = rest]
       /\ snd_buf' = [snd_buf EXCEPT ![e] = @ \cup new]
       /\ acklist' = [acklist EXCEPT ![e] = {}]
       /\ probe' = [probe EXCEPT ![e] = {}]
       /\ probe_wait' = [probe_wait EXCEPT ![e] = (rmt_wnd[e] = 0)]
       /\ Transmit(Peer(e), Output(e, log, again \cup new, asks))
       /\ UNCHANGED <<snd_una, rcvVars, rmt_wnd, sent, written, read>>
  BY <1>2, <1>3, <1>4, <1>7, <1>8, <1>9, <1>10 DEF FlushWith
<1>12. new \subseteq Nat /\ again \subseteq Nat
  BY <1>1, <1>5, <1>9 DEF TypeOK
<1>13. \A sn \in again \cup new : sn < Len(log)
  <2>1. ASSUME NEW sn \in again PROVE sn < Len(log)
    <3>1. sn < nxt /\ sn \in Nat /\ Len(log) = nxt + n
      BY <1>1, <1>3, <1>8, <1>12 DEF SndBufOK
    <3> QED
      BY <3>1, <1>5
  <2>2. ASSUME NEW sn \in new PROVE sn < Len(log)
    BY <1>5, <1>8, <1>9
  <2> QED
    BY <2>1, <2>2
<1>14. /\ numbered' \in [End -> Seq(Segment)] /\ numbered'[e] = log
       /\ \A d \in End \ {e} : numbered'[d] = numbered[d]
  BY <1>1, <1>11 DEF TypeOK
<1>15. LogGrows
  <2>1. ASSUME NEW d \in End
        PROVE  /\ snd_nxt(d) <= Len(numbered'[d])
               /\ \A i \in 1 .. snd_nxt(d) : numbered'[d][i] = numbered[d][i]
    <3>1. CASE d = e
      BY <3>1, <1>3, <1>5, <1>8, <1>14
    <3>2. CASE d # e
      <4>1. Len(numbered[d]) \in Nat
        BY <1>1, LenProperties DEF TypeOK
      <4> QED
        BY <3>2, <4>1, <1>14 DEF snd_nxt
    <3> QED
      BY <3>1, <3>2
  <2> QED
    BY <2>1, <1>14 DEF LogGrows
<1>16. UNCHANGED <<rcvVars, read>>
  BY <1>11
<1>17. InOrder' /\ \A d \in End : RcvBufOK(d)'
  BY <1>1, <1>15, <1>16, ReceiverKeeps
<1>18. PICK to \in End : to = Peer(e) /\ Peer(to) = e /\ to # e
  BY EndPeer
<1>19. PICK kept \in SUBSET (net[to] \cup Output(e, log, again \cup new, asks)) :
         net' = [net EXCEPT ![to] = kept]
  BY <1>11, <1>18 DEF Transmit
<1>20. ASSUME NEW p \in kept PROVE p \in Packet /\ TrueOf(e, p)'
  <2>1. CASE p \in net[to]
    <3>1. p \in Packet
      BY <2>1, <1>1 DEF TypeOK
    <3>2. TrueOf(e, p)
      BY <2>1, <1>1, <1>18 DEF PathIsTruthful, TrueOf
    <3> QED
      BY <3>1, <3>2, <1>1, <1>15, <1>16, StaysTrueOf
  <2>2. CASE p \in Output(e, log, again \cup new, asks)
    <3>1. again \cup new \in SUBSET Nat
      BY <1>12
    <3> QED
      BY <3>1, <2>2, <1>13, <1>14, <1>16, OutputTrue
  <2> QED
    BY <2>1, <2>2
<1>21. net' \in [End -> SUBSET Packet]
  BY <1>1, <1>19, <1>20 DEF TypeOK
<1>22. PathIsTruthful'
  <2>1. ASSUME NEW d \in End, NEW p \in net'[d] PROVE TrueOf(Peer(d), p)'
    <3>1. CASE d = to
      BY <3>1, <1>1, <1>18, <1>19, <1>20 DEF TypeOK, TrueOf, snd_nxt, Received
    <3>2. CASE d # to
      <4>1. PICK f \in End : f = Peer(d)
        BY EndPeer
      <4>2. p \in net[d]
        BY <3>2, <1>1, <1>19 DEF TypeOK
      <4>3. p \in Packet /\ TrueOf(f, p)
        BY <4>1, <4>2, <1>1 DEF TypeOK, PathIsTruthful, TrueOf
      <4>4. TrueOf(f, p)'
        BY <4>3, <1>1, <1>15, <1>16, StaysTrueOf
      <4> QED
        BY <4>1, <4>4 DEF TrueOf, snd_nxt, Received
    <3> QED
      BY <3>1, <3>2
  <2> QED
    BY <2>1 DEF PathIsTruthful, TrueOf
<1>23. /\ snd_buf' \in [End -> SUBSET Nat] /\ snd_buf'[e] = snd_buf[e] \cup new
       /\ \A d \in End \ {e} : snd_buf'[d] = snd_buf[d]
  BY <1>1, <1>11, <1>12 DEF TypeOK
<1>24. /\ snd_queue' \in [End -> Seq(Segment)]
       /\ acklist' \in [End -> SUBSET Nat] /\ acklist'[e] = {}
       /\ \A d \in End \ {e} : acklist'[d] = acklist[d]
       /\ probe' \in [End -> SUBSET {"ask", "tell"}]
       /\ probe_wait' \in [End -> BOOLEAN]
  BY <1>1, <1>11 DEF TypeOK
<1>25. TypeOK'
  BY <1>1, <1>11, <1>14, <1>21, <1>23, <1>24 DEF TypeOK, rcvVars
<1>26. AckedIsReceived'
  <2>1. ASSUME NEW d \in End, NEW sn \in 0 .. Len(numbered'[d]) - 1, sn \notin snd_buf'[d]
        PROVE  sn \in Received(Peer(d))
    <3>1. CASE d = e
      <4>1. sn \in 0 .. nxt + n - 1 /\ sn \notin snd_buf[e] /\ sn \notin new
        BY <2>1, <3>1, <1>8, <1>14, <1>23
      <4>2. sn \in 0 .. nxt - 1
        BY <4>1, <1>5, <1>9
      <4> QED
        BY <3>1, <4>1, <4>2, <1>1, <1>3 DEF AckedIsReceived
    <3>2. CASE d # e
      BY <2>1, <3>2, <1>1, <1>14, <1>23 DEF AckedIsReceived, snd_nxt
    <3> QED
      BY <3>1, <3>2
  <2> QED
    BY <2>1, <1>16 DEF AckedIsReceived, Received, snd_nxt, rcvVars
<1>27. ASSUME NEW d \in End PROVE SndBufOK(d)'
  <2>1. snd_una' = snd_una /\ snd_una[e] \in Nat /\ SndBufOK(e)
    BY <1>1, <1>11 DEF TypeOK
  <2>2. CASE d = e
    <3>1. /\ \A sn \in snd_buf[e] : sn < nxt /\ sn \in Nat
          /\ IsHead(snd_una[e], snd_buf[e], nxt)
      BY <1>1, <1>3, <2>1 DEF SndBufOK, TypeOK
    <3>2. \A sn \in snd_buf[e] \cup new : sn < nxt + n
      BY <3>1, <1>5, <1>9
    <3>3. IsHead(snd_una[e], snd_buf[e] \cup new, nxt + n)
      <4>1. CASE snd_buf[e] = {} /\ n = 0
        BY <4>1, <3>1, <1>9 DEF IsHead
      <4>2. CASE snd_buf[e] = {} /\ n # 0
        <5>1. snd_una[e] = nxt /\ snd_buf[e] \cup new = new
          BY <4>2, <3>1 DEF IsHead
        <5>2. nxt \in new /\ \A sn \in new : nxt <= sn
          BY <4>2, <1>5, <1>9
        <5> QED
          BY <5>1, <5>2 DEF IsHead
      <4>3. CASE snd_buf[e] # {}
        <5>1. snd_una[e] \in snd_buf[e] /\ \A sn \in snd_buf[e] : snd_una[e] <= sn
          BY <4>3, <3>1 DEF IsHead
        <5>2. snd_una[e] < nxt
          BY <5>1, <3>1
        <5>3. \A sn \in new : snd_una[e] <= sn
          BY <5>2, <2>1, <1>9
        <5> QED
          BY <5>1, <5>3 DEF IsHead
      <4> QED
        BY <4>1, <4>2, <4>3
    <3> QED
      BY <2>1, <2>2, <3>2, <3>3, <1>8, <1>14, <1>23 DEF SndBufOK, IsHead, snd_nxt
  <2>3. CASE d # e
    <3>1. /\ SndBufOK(d) /\ snd_buf'[d] = snd_buf[d] /\ numbered'[d] = numbered[d]
          /\ snd_una'[d] = snd_una[d]
      BY <2>1, <2>3, <1>1, <1>14, <1>23
    <3> QED
      BY <3>1 DEF SndBufOK, IsHead, snd_nxt
  <2> QED
    BY <2>2, <2>3
<1>28. \A d \in End : AcksOK(d)'
  BY <1>1, <1>16, <1>24 DEF AcksOK, Received, rcvVars
<1> QED
  BY <1>17, <1>22, <1>25, <1>26, <1>27, <1>28 DEF IInv

-----------------------------------------------------------------------------
(* The theorems                                                            *)

\* Every operation of either endpoint, and every stutter, preserves the inductive
\* invariant.
THEOREM StepIInv == IInv /\ [Next]_vars => IInv'
<1> SUFFICES ASSUME IInv, [Next]_vars PROVE IInv'
  OBVIOUS
<1>1. ASSUME NEW e \in End, AppSend(e) \/ Recv(e) \/ Flush(e) \/ Input(e) PROVE IInv'
  <2>1. CASE AppSend(e)
    BY <2>1, AppSendPreserves
  <2>2. CASE Recv(e)
    BY <2>2, RecvPreserves
  <2>3. CASE Flush(e)
    BY <2>3, FlushPreserves
  <2>4. CASE Input(e)
    <3>1. PICK p \in net[e] :
            InputAck(e, p) \/ InputPush(e, p) \/ InputWask(e, p) \/ InputWins(e, p)
      BY <2>4 DEF Input
    <3>2. CASE InputAck(e, p)
      BY <3>2, InputAckPreserves
    <3>3. CASE InputPush(e, p)
      BY <3>3, InputPushPreserves
    <3>4. CASE InputWask(e, p)
      BY <3>4, InputWaskPreserves
    <3>5. CASE InputWins(e, p)
      BY <3>5, InputWinsPreserves
    <3> QED
      BY <3>1, <3>2, <3>3, <3>4, <3>5
  <2> QED
    BY <1>1, <2>1, <2>2, <2>3, <2>4
<1>2. CASE UNCHANGED vars
  <2>1. UNCHANGED <<sndVars, ackVars, rcvVars, wndVars, acklist, probe, net, read>>
    BY <1>2 DEF vars
  <2>2. TypeOK'
    BY <2>1 DEF IInv, TypeOK, sndVars, ackVars, rcvVars, wndVars
  <2>3. InOrder' /\ AckedIsReceived' /\ PathIsTruthful'
    BY <2>1 DEF IInv, InOrder, AckedIsReceived, PathIsTruthful, Received, snd_nxt,
                sndVars, ackVars, rcvVars
  <2>4. \A d \in End : SndBufOK(d)' /\ RcvBufOK(d)' /\ AcksOK(d)'
    BY <2>1 DEF IInv, SndBufOK, IsHead, RcvBufOK, Genuine, AcksOK, Received, snd_nxt,
                sndVars, ackVars, rcvVars
  <2> QED
    BY <2>2, <2>3, <2>4 DEF IInv
<1> QED
  BY <1>1, <1>2 DEF Next

\* The inductive invariant holds in every reachable state.
THEOREM Invariance == Spec => []IInv
BY InitIInv, StepIInv, PTL DEF Spec

\* Every field of the control block keeps its type.
THEOREM TypeCorrect == Spec => []TypeOK
<1>1. IInv => TypeOK
  BY DEF IInv
<1> QED
  BY <1>1, Invariance, PTL

\* Whatever the path loses, repeats or reorders, the receiver reads the segments
\* its peer numbered, each once and in order.
THEOREM ReadsInOrder == Spec => []InOrder
<1>1. IInv => InOrder
  BY DEF IInv
<1> QED
  BY <1>1, Invariance, PTL

\* ikcp_input never acknowledges a segment that it does not hold.
THEOREM NothingAckedIsLost == Spec => []AckedIsReceived
<1>1. IInv => AckedIsReceived
  BY DEF IInv
<1> QED
  BY <1>1, Invariance, PTL

\* A datagram remains true however late it arrives.
THEOREM LateDatagramsAreTrue == Spec => []PathIsTruthful
<1>1. IInv => PathIsTruthful
  BY DEF IInv
<1> QED
  BY <1>1, Invariance, PTL

-----------------------------------------------------------------------------
(* The connection implements ReliableChannel                               *)

\* A flush either numbers nothing or accepts items into the channel.
LEMMA FlushAccepts ==
  ASSUME IInv, NEW e \in End, Flush(e)
  PROVE  read' = read /\ (numbered' = numbered \/ Channel!Accept(e))
<1>1. TypeOK
  BY DEF IInv
<1>2. PICK w \in Nat, again \in SUBSET snd_buf[e], due \in BOOLEAN : FlushWith(e, w, again, due)
  BY <1>1, WindowTypes DEF Flush
<1>3. PICK q \in Seq(Segment), old \in Seq(Segment) : q = snd_queue[e] /\ old = numbered[e]
  BY <1>1 DEF TypeOK
<1>4. PICK n \in 0 .. Len(q) : n = NewCount(e, w)
  BY <1>1, <1>3, NewCountRange
<1>5. PICK front \in Seq(Segment), rest \in Seq(Segment) : CutInto(q, n, front, rest)
  BY Cut
<1>6. front = SubSeq(q, 1, n) /\ Len(front) = n /\ n \in Nat /\ Len(old) \in Nat
  BY <1>5, LenProperties DEF CutInto
<1>7. PICK log \in Seq(Segment) : JoinOf(log, old, front)
  BY Join
<1>8. numbered' = [numbered EXCEPT ![e] = log] /\ read' = read
  BY <1>2, <1>3, <1>4, <1>6, <1>7 DEF FlushWith, JoinOf
<1>9. numbered'[e] = log /\ numbered' = [numbered EXCEPT ![e] = numbered'[e]]
  BY <1>1, <1>8 DEF TypeOK
<1>10. CASE n = 0
  <2>1. front = <<>>
    BY <1>6, <1>10, EmptySeq
  <2>2. log = old
    BY <2>1, <1>7, ConcatEmptySeq DEF JoinOf
  <2> QED
    BY <2>2, <1>1, <1>3, <1>8 DEF TypeOK
<1>11. CASE n # 0
  <2>1. Len(old) < Len(log)
    <3>1. Len(log) = Len(old) + Len(front)
      BY <1>7 DEF JoinOf
    <3> QED
      BY <3>1, <1>6, <1>11
  <2>2. Channel!Extends(numbered[e], numbered'[e])
    BY <2>1, <1>3, <1>7, <1>9 DEF Channel!Extends, JoinOf
  <2> QED
    BY <2>2, <1>8, <1>9 DEF Channel!Accept
<1> QED
  BY <1>10, <1>11

\* ikcp_recv delivers the next items of the channel.
LEMMA RecvDelivers ==
  ASSUME IInv, IInv', NEW e \in End, Recv(e)
  PROVE  Channel!Deliver(e)
<1>1. TypeOK /\ InOrder' /\ TypeOK'
  BY DEF IInv
<1>2. numbered' = numbered
  BY DEF Recv, sndVars
<1>3. PICK q \in Seq(Segment), taken \in Seq(Segment) : q = rcv_queue[e] /\ taken = read[e]
  BY <1>1 DEF TypeOK
<1>4. PICK n \in 1 .. Len(q) : read' = [read EXCEPT ![e] = taken \o SubSeq(q, 1, n)]
  BY <1>3 DEF Recv
<1>5. n \in 0 .. Len(q) /\ n \in Nat /\ n >= 1 /\ Len(taken) \in Nat
  BY LenProperties
<1>6. PICK front \in Seq(Segment), rest \in Seq(Segment) : CutInto(q, n, front, rest)
  BY <1>5, Cut
<1>7. front = SubSeq(q, 1, n) /\ Len(front) = n
  BY <1>6 DEF CutInto
<1>8. PICK all \in Seq(Segment) : JoinOf(all, taken, front)
  BY Join
<1>9. read' = [read EXCEPT ![e] = all] /\ Len(all) = Len(taken) + n
  BY <1>4, <1>7, <1>8 DEF JoinOf
<1>10. read'[e] = all /\ read' = [read EXCEPT ![e] = read'[e]]
  BY <1>1, <1>9 DEF TypeOK
<1>11. Channel!Extends(read[e], read'[e])
  <2>1. Len(taken) < Len(all)
    BY <1>5, <1>9
  <2> QED
    BY <2>1, <1>3, <1>8, <1>10 DEF Channel!Extends, JoinOf
<1>12. PICK f \in End : f = Peer(e)
  BY EndPeer
<1>13. PICK log \in Seq(Segment) : log = numbered[f]
  BY <1>1, <1>12 DEF TypeOK
<1>14. Len(all) <= Len(log) /\ Len(log) \in Nat /\ Len(all) \in Nat
  <2>1. Ordered(e, read[e], rcv_queue[e], rcv_nxt[e])'
    BY <1>1 DEF InOrder, Ordered
  <2>2. rcv_nxt'[e] = Len(all) + Len(rcv_queue'[e]) /\ rcv_nxt'[e] <= Len(log)
    BY <2>1, <1>2, <1>10, <1>12, <1>13 DEF Ordered, snd_nxt
  <2>3. Len(all) \in Nat /\ Len(rcv_queue'[e]) \in Nat /\ Len(log) \in Nat
    BY <1>1, LenProperties DEF TypeOK
  <2> QED
    BY <2>2, <2>3
<1>15. \A i \in 1 .. Len(all) : log[i] = all[i]
  BY <1>1, <1>2, <1>10, <1>12, <1>13 DEF InOrder
<1>16. all = log \/ Channel!Extends(all, log)
  <2>1. CASE Len(all) = Len(log)
    BY <2>1, <1>15, SeqEqual
  <2>2. CASE Len(all) # Len(log)
    BY <2>2, <1>14, <1>15 DEF Channel!Extends
  <2> QED
    BY <2>1, <2>2
<1>17. numbered[[d \in End |-> Peer(d)][e]] = log
  BY <1>12, <1>13
<1> QED
  BY <1>2, <1>10, <1>11, <1>16, <1>17 DEF Channel!Deliver

\* A pair of reliable channels is what a KCP connection amounts to: the segments a
\* flush numbers are accepted, those an ikcp_recv takes are delivered.
THEOREM ImplementsChannel == Spec => ChannelSpec
<1>1. Init => Channel!Init
  BY DEF Init, Channel!Init
<1>2. ASSUME IInv, IInv', [Next]_vars
      PROVE  [Channel!Next]_<<numbered, read>>
  <2>1. ASSUME NEW e \in End, AppSend(e) \/ Recv(e) \/ Flush(e) \/ Input(e)
        PROVE  [Channel!Next]_<<numbered, read>>
    <3>1. CASE AppSend(e)
      BY <3>1 DEF AppSend, Send
    <3>2. CASE Recv(e)
      BY <3>2, <1>2, RecvDelivers DEF Channel!Next
    <3>3. CASE Flush(e)
      BY <3>3, <1>2, FlushAccepts DEF Channel!Next
    <3>4. CASE Input(e)
      BY <3>4 DEF Input, InputAck, InputPush, InputWask, InputWins, Header, sndVars
    <3> QED
      BY <2>1, <3>1, <3>2, <3>3, <3>4
  <2>2. CASE UNCHANGED vars
    BY <2>2 DEF vars, sndVars
  <2> QED
    BY <1>2, <2>1, <2>2 DEF Next
<1> QED
  BY <1>1, <1>2, Invariance, PTL DEF Spec, ChannelSpec, Channel!Spec, Channel!vars

-----------------------------------------------------------------------------
(* The windows: the receiver                                               *)

\* buf holds only numbers of the receive window that begins at nxt.
Within(buf, nxt) == DOMAIN buf \subseteq nxt .. nxt + RcvWnd - 1

\* The receiver's side of both properties.
ReceiverFits(e) ==
  /\ Len(rcv_queue[e]) <= RcvWnd
  /\ Within(rcv_buf[e], rcv_nxt[e])
  /\ rcv_nxt[e] \in DOMAIN rcv_buf[e] => Len(rcv_queue[e]) >= RcvWnd

\* The sender's side: at most snd_wnd numbers are outstanding.
SenderFits(e) == snd_nxt(e) <= snd_una[e] + SndWnd

Fits == \A e \in End : ReceiverFits(e) /\ SenderFits(e)

\* The loop from rcv_buf to rcv_queue stops at the end of the queue or of a run: the
\* queue stays within rcv_wnd, what is left within the window that has moved on with
\* rcv_nxt, and the number it waits for is left only if the queue is full.
LEMMA MoveFits ==
  ASSUME TypeOK, NEW e \in End, NEW nxt \in Nat, NEW buf, NEW queue \in Seq(Segment),
         \A sn \in DOMAIN buf : buf[sn] \in Segment,
         Within(buf, nxt), Len(queue) <= RcvWnd,
         \A d \in End \ {e} : ReceiverFits(d),
         MoveReady(e, nxt, buf, queue)
  PROVE  \A d \in End : ReceiverFits(d)'
<1>1. PICK n \in 0 .. RcvWnd :
        /\ Moves(n, nxt, buf, queue)
        /\ rcv_queue' = [rcv_queue EXCEPT ![e] =
                           queue \o [i \in 1 .. n |-> buf[nxt + i - 1]]]
        /\ rcv_buf' = [rcv_buf EXCEPT ![e] =
                         Restrict(buf, DOMAIN buf \ (nxt .. nxt + n - 1))]
        /\ rcv_nxt' = [rcv_nxt EXCEPT ![e] = nxt + n]
  BY DEF MoveReady
<1>2. n \in Nat /\ RcvWnd \in Nat /\ Len(queue) \in Nat
  BY KcpAssumption, LenProperties
<1>3. \A i \in 0 .. n - 1 : nxt + i \in DOMAIN buf /\ Len(queue) + i < RcvWnd
  BY <1>1 DEF Moves
<1>4. nxt + n \in DOMAIN buf => Len(queue) + n >= RcvWnd
  BY <1>1, <1>2 DEF Moves
<1>5. Len(queue) + n <= RcvWnd
  <2>1. CASE n = 0
    BY <2>1, <1>2
  <2>2. CASE n # 0
    <3>1. n - 1 \in 0 .. n - 1
      BY <2>2, <1>2
    <3>2. Len(queue) + (n - 1) < RcvWnd
      BY <3>1, <1>3
    <3> QED
      BY <3>2, <1>2
  <2> QED
    BY <2>1, <2>2
<1> DEFINE moved == [i \in 1 .. n |-> buf[nxt + i - 1]]
           rest == DOMAIN buf \ (nxt .. nxt + n - 1)
<1>6. moved \in Seq(Segment) /\ Len(moved) = n
  <2>1. ASSUME NEW i \in 1 .. n PROVE nxt + i - 1 \in DOMAIN buf
    <3>1. i - 1 \in 0 .. n - 1 /\ nxt + (i - 1) = nxt + i - 1
      BY <1>2
    <3> QED
      BY <3>1, <1>3
  <2>2. moved \in [1 .. n -> Segment]
    BY <2>1
  <2> QED
    BY <2>2, <1>2, FunctionIsSeq
<1>7. /\ rcv_queue' = [rcv_queue EXCEPT ![e] = queue \o moved]
      /\ rcv_buf' = [rcv_buf EXCEPT ![e] = Restrict(buf, rest)]
  BY <1>1
<1>8. rest \subseteq nxt + n .. nxt + n + RcvWnd - 1
  BY <1>2 DEF Within
<1>9. nxt + n \in rest => Len(queue) + n >= RcvWnd
  BY <1>4
<1> HIDE DEF moved, rest
<1>10. /\ Len(rcv_queue'[e]) = Len(queue) + n
       /\ rcv_nxt'[e] = nxt + n
       /\ DOMAIN rcv_buf'[e] = rest
  <2>1. rcv_queue'[e] = queue \o moved /\ Len(queue \o moved) = Len(queue) + Len(moved)
    BY <1>6, <1>7, ConcatProperties DEF TypeOK
  <2>2. rcv_nxt'[e] = nxt + n
    BY <1>1 DEF TypeOK
  <2>3. rcv_buf'[e] = Restrict(buf, rest)
    BY <1>7 DEF TypeOK
  <2> QED
    BY <1>6, <2>1, <2>2, <2>3 DEF Restrict
<1>11. ReceiverFits(e)'
  BY <1>5, <1>8, <1>9, <1>10 DEF ReceiverFits, Within
<1>12. \A d \in End \ {e} : /\ rcv_queue'[d] = rcv_queue[d]
                            /\ rcv_nxt'[d] = rcv_nxt[d]
                            /\ rcv_buf'[d] = rcv_buf[d]
  BY <1>1, <1>7 DEF TypeOK
<1>13. \A d \in End \ {e} : ReceiverFits(d)'
  BY <1>12 DEF ReceiverFits, Within
<1> QED
  BY <1>11, <1>13

\* An operation that does not touch the receive queue and buffer leaves them fitting.
LEMMA ReceiverUntouched ==
  ASSUME Fits, UNCHANGED rcvVars
  PROVE  \A d \in End : ReceiverFits(d)'
BY DEF Fits, ReceiverFits, Within, rcvVars

\* ikcp_recv takes at least one segment and refills the queue it left.
LEMMA RecvFits ==
  ASSUME IInv, Fits, NEW e \in End, Recv(e)
  PROVE  \A d \in End : ReceiverFits(d)'
<1>1. TypeOK
  BY DEF IInv
<1>2. PICK q \in Seq(Segment) : q = rcv_queue[e]
  BY <1>1 DEF TypeOK
<1>3. PICK n \in 1 .. Len(q) :
        MoveReady(e, rcv_nxt[e], rcv_buf[e], SubSeq(q, n + 1, Len(q)))
  BY <1>2 DEF Recv
<1>4. Len(q) \in Nat /\ n \in 0 .. Len(q)
  BY LenProperties
<1>5. PICK front \in Seq(Segment), rest \in Seq(Segment) : CutInto(q, n, front, rest)
  BY <1>4, Cut
<1>6. rest = SubSeq(q, n + 1, Len(q)) /\ Len(rest) = Len(q) - n
  BY <1>5 DEF CutInto
<1>7. Len(q) <= RcvWnd /\ Within(rcv_buf[e], rcv_nxt[e]) /\ RcvWnd \in Nat
  BY <1>2, KcpAssumption DEF Fits, ReceiverFits
<1>8. Len(rest) <= RcvWnd
  BY <1>4, <1>6, <1>7
<1>9. rcv_nxt[e] \in Nat /\ \A sn \in DOMAIN rcv_buf[e] : rcv_buf[e][sn] \in Segment
  BY <1>1 DEF TypeOK
<1>10. \A d \in End \ {e} : ReceiverFits(d)
  BY DEF Fits
<1>11. MoveReady(e, rcv_nxt[e], rcv_buf[e], rest)
  BY <1>3, <1>6
<1> QED
  BY <1>1, <1>7, <1>8, <1>9, <1>10, <1>11, MoveFits

\* ikcp_input stores a segment only if its number lies in the window, then moves.
LEMMA PushFits ==
  ASSUME IInv, Fits, NEW e \in End, NEW p \in net[e], InputPush(e, p)
  PROVE  \A d \in End : ReceiverFits(d)'
<1>1. TypeOK
  BY DEF IInv
<1>2. CASE ~ Storable(e, p.sn)
  BY <1>2, ReceiverUntouched DEF InputPush
<1>3. CASE Storable(e, p.sn)
  <2>1. p.cmd = "PUSH" /\ p \in Packet
    BY <1>1 DEF TypeOK, InputPush
  <2>2. p.sn \in Nat /\ p.seg \in Segment
    <3>1. p \in [cmd : {"PUSH"}, sn : Nat, seg : Segment, wnd : Nat, una : Nat]
      BY <2>1 DEF Packet
    <3> QED
      BY <3>1
  <2>3. PICK buf : buf = Insert(rcv_buf[e], p.sn, p.seg)
    OBVIOUS
  <2>4. DOMAIN buf = DOMAIN rcv_buf[e] \cup {p.sn}
    BY <2>3 DEF Insert
  <2>5. \A sn \in DOMAIN buf : buf[sn] \in Segment
    BY <1>1, <2>2, <2>3 DEF Insert, TypeOK
  <2>6. /\ rcv_nxt[e] \in Nat /\ rcv_queue[e] \in Seq(Segment) /\ RcvWnd \in Nat
        /\ Len(rcv_queue[e]) <= RcvWnd /\ Within(rcv_buf[e], rcv_nxt[e])
    BY <1>1, KcpAssumption DEF TypeOK, Fits, ReceiverFits
  <2>7. p.sn \in rcv_nxt[e] .. rcv_nxt[e] + RcvWnd - 1
    BY <1>3, <2>2, <2>6 DEF Storable
  <2>8. Within(buf, rcv_nxt[e])
    BY <2>4, <2>6, <2>7 DEF Within
  <2>9. MoveReady(e, rcv_nxt[e], buf, rcv_queue[e])
    BY <1>3, <2>3 DEF InputPush
  <2>10. \A d \in End \ {e} : ReceiverFits(d)
    BY DEF Fits
  <2> QED
    BY <1>1, <2>5, <2>6, <2>8, <2>9, <2>10, MoveFits
<1> QED
  BY <1>2, <1>3

-----------------------------------------------------------------------------
(* The windows: the sender                                                 *)

\* What ikcp_input acknowledges moves snd_una forwards only.
LEMMA HeaderFits ==
  ASSUME IInv, Fits, NEW e \in End, NEW p, NEW acked, Header(e, p, acked)
  PROVE  \A d \in End : SenderFits(d)'
<1>1. TypeOK /\ SndBufOK(e)
  BY DEF IInv
<1>2. numbered' = numbered
  BY DEF Header, sndVars
<1>3. PICK nxt \in Nat : nxt = snd_nxt(e)
  <2>1. snd_nxt(e) \in Nat
    BY <1>1, LenProperties DEF TypeOK, snd_nxt
  <2> QED
    BY <2>1
<1>4. PICK buf \in SUBSET snd_buf[e] : buf = {sn \in snd_buf[e] : sn >= p.una} \ acked
  OBVIOUS
<1>5. PICK u \in 0 .. nxt : IsHead(u, buf, nxt) /\ snd_una' = [snd_una EXCEPT ![e] = u]
  BY <1>3, <1>4 DEF Header
<1>6. snd_una[e] <= u
  <2>1. /\ IsHead(snd_una[e], snd_buf[e], nxt) /\ snd_una[e] \in Nat /\ u \in Nat
        /\ snd_buf[e] \subseteq Nat /\ \A sn \in snd_buf[e] : sn < nxt
    BY <1>1, <1>3, <1>5 DEF SndBufOK, TypeOK
  <2>2. CASE buf = {}
    <3>1. u = nxt
      BY <2>2, <1>5 DEF IsHead
    <3>2. snd_una[e] <= nxt
      BY <2>1 DEF IsHead
    <3> QED
      BY <3>1, <3>2
  <2>3. CASE buf # {}
    BY <2>1, <2>3, <1>4, <1>5 DEF IsHead
  <2> QED
    BY <2>2, <2>3
<1>7. ASSUME NEW d \in End PROVE SenderFits(d)'
  <2>1. SenderFits(d) /\ snd_una[d] \in Nat /\ Len(numbered[d]) \in Nat /\ SndWnd \in Nat
    BY <1>1, LenProperties, KcpAssumption DEF Fits, TypeOK
  <2>2. snd_una[d] <= snd_una'[d] /\ snd_una'[d] \in Nat
    <3>1. snd_una \in [End -> Nat] /\ u \in Nat
      BY <1>1, <1>3, <1>5 DEF TypeOK
    <3>2. snd_una' = [snd_una EXCEPT ![e] = u]
      BY <1>5
    <3>3. CASE d = e
      <4>1. snd_una'[d] = u
        BY <3>1, <3>2, <3>3
      <4> QED
        BY <4>1, <3>1, <1>6, <3>3
    <3>4. CASE d # e
      <4>1. snd_una'[d] = snd_una[d]
        BY <3>1, <3>2, <3>4
      <4> QED
        BY <4>1, <2>1
    <3> QED
      BY <3>3, <3>4
  <2> QED
    BY <2>1, <2>2, <1>2 DEF SenderFits, snd_nxt
<1> QED
  BY <1>7

\* A flush numbers segments only up to the window it uses, which is never more than
\* snd_wnd, however far the peer's window or the congestion window is open.
LEMMA FlushFits ==
  ASSUME IInv, Fits, NEW e \in End, Flush(e)
  PROVE  \A d \in End : SenderFits(d)'
<1>1. TypeOK
  BY DEF IInv
<1>2. PICK w \in Windows(e), again \in SUBSET snd_buf[e], due \in BOOLEAN :
        FlushWith(e, w, again, due)
  BY DEF Flush
<1>3. SndWnd \in Nat /\ rmt_wnd[e] \in Nat /\ NoCwnd \in BOOLEAN
  BY <1>1, KcpAssumption DEF TypeOK
<1>4. w \in Nat /\ w <= SndWnd
  <2>1. PICK m \in Nat : m = AtMost(SndWnd, rmt_wnd[e]) /\ m <= SndWnd
    BY <1>3 DEF AtMost
  <2>2. w \in IF NoCwnd THEN {m} ELSE 0 .. m
    BY <1>2, <2>1 DEF Windows
  <2> QED
    BY <2>1, <2>2, <1>3
<1>5. PICK q \in Seq(Segment), old \in Seq(Segment) : q = snd_queue[e] /\ old = numbered[e]
  BY <1>1 DEF TypeOK
<1>6. PICK n \in 0 .. Len(q) : n = NewCount(e, w)
  BY <1>1, <1>4, <1>5, NewCountRange
<1>7. PICK front \in Seq(Segment), rest \in Seq(Segment) : CutInto(q, n, front, rest)
  BY Cut
<1>8. front = SubSeq(q, 1, n) /\ Len(front) = n
  BY <1>7 DEF CutInto
<1>9. numbered' = [numbered EXCEPT ![e] = old \o front] /\ snd_una' = snd_una
  BY <1>2, <1>5, <1>6, <1>8 DEF FlushWith
<1>10. Len(old \o front) = Len(old) + n /\ Len(old) \in Nat /\ n \in Nat /\ Len(q) \in Nat
  BY <1>8, ConcatProperties, LenProperties
<1>11. Len(old) + n <= snd_una[e] + SndWnd
  <2>1. SenderFits(e) /\ snd_una[e] \in Nat
    BY <1>1 DEF Fits, TypeOK
  <2>2. Len(old) <= snd_una[e] + SndWnd
    BY <2>1, <1>5 DEF SenderFits, snd_nxt
  <2>3. n = IF snd_una[e] + w - Len(old) <= 0 THEN 0
            ELSE IF snd_una[e] + w - Len(old) <= Len(q)
                 THEN snd_una[e] + w - Len(old) ELSE Len(q)
    BY <1>5, <1>6 DEF NewCount, AtMost, snd_nxt
  <2> QED
    BY <2>1, <2>2, <2>3, <1>3, <1>4, <1>10
<1>12. ASSUME NEW d \in End PROVE SenderFits(d)'
  <2>1. CASE d = e
    <3>1. numbered'[e] = old \o front /\ snd_una'[e] = snd_una[e]
      BY <1>1, <1>9 DEF TypeOK
    <3> QED
      BY <2>1, <3>1, <1>10, <1>11 DEF SenderFits, snd_nxt
  <2>2. CASE d # e
    <3>1. numbered'[d] = numbered[d] /\ snd_una'[d] = snd_una[d] /\ SenderFits(d)
      BY <2>2, <1>1, <1>9 DEF TypeOK, Fits
    <3> QED
      BY <3>1 DEF SenderFits, snd_nxt
  <2> QED
    BY <2>1, <2>2
<1> QED
  BY <1>12

\* An operation that numbers and acknowledges nothing leaves the send window alone.
LEMMA SenderUntouched ==
  ASSUME Fits, UNCHANGED <<numbered, snd_una>>
  PROVE  \A d \in End : SenderFits(d)'
BY DEF Fits, SenderFits, snd_nxt

-----------------------------------------------------------------------------
(* The windows: the theorems                                               *)

\* Two control blocks fresh from ikcp_create fit their windows.
THEOREM InitFits == Init => Fits
BY KcpAssumption
   DEF Init, Fits, ReceiverFits, SenderFits, Within, NoSegments, snd_nxt

\* Every operation of either endpoint, and every stutter, keeps both to their windows.
THEOREM StepFits == IInv /\ Fits /\ [Next]_vars => Fits'
<1> SUFFICES ASSUME IInv, Fits, [Next]_vars
             PROVE  \A d \in End : ReceiverFits(d)' /\ SenderFits(d)'
  BY DEF Fits
<1>1. ASSUME NEW e \in End, AppSend(e)
      PROVE  \A d \in End : ReceiverFits(d)' /\ SenderFits(d)'
  <2>1. UNCHANGED rcvVars /\ UNCHANGED <<numbered, snd_una>>
    BY <1>1 DEF AppSend, Send, ackVars
  <2> QED
    BY <2>1, ReceiverUntouched, SenderUntouched
<1>2. ASSUME NEW e \in End, Recv(e)
      PROVE  \A d \in End : ReceiverFits(d)' /\ SenderFits(d)'
  <2>1. UNCHANGED <<numbered, snd_una>>
    BY <1>2 DEF Recv, sndVars, ackVars
  <2> QED
    BY <1>2, <2>1, RecvFits, SenderUntouched
<1>3. ASSUME NEW e \in End, Flush(e)
      PROVE  \A d \in End : ReceiverFits(d)' /\ SenderFits(d)'
  <2>1. UNCHANGED rcvVars
    BY <1>3 DEF Flush, FlushWith
  <2> QED
    BY <1>3, <2>1, FlushFits, ReceiverUntouched
<1>4. ASSUME NEW e \in End, Input(e)
      PROVE  \A d \in End : ReceiverFits(d)' /\ SenderFits(d)'
  <2>1. PICK p \in net[e] :
          InputAck(e, p) \/ InputPush(e, p) \/ InputWask(e, p) \/ InputWins(e, p)
    BY <1>4 DEF Input
  <2>2. \A d \in End : SenderFits(d)'
    BY <2>1, HeaderFits DEF InputAck, InputPush, InputWask, InputWins
  <2>3. CASE InputPush(e, p)
    BY <2>2, <2>3, PushFits
  <2>4. CASE InputAck(e, p) \/ InputWask(e, p) \/ InputWins(e, p)
    <3>1. UNCHANGED rcvVars
      BY <2>4 DEF InputAck, InputWask, InputWins
    <3> QED
      BY <2>2, <3>1, ReceiverUntouched
  <2> QED
    BY <2>1, <2>3, <2>4
<1>5. CASE UNCHANGED vars
  <2>1. UNCHANGED rcvVars /\ UNCHANGED <<numbered, snd_una>>
    BY <1>5 DEF vars, sndVars, ackVars
  <2> QED
    BY <2>1, ReceiverUntouched, SenderUntouched
<1> QED
  BY <1>1, <1>2, <1>3, <1>4, <1>5 DEF Next

\* Both endpoints fit their windows in every reachable state.
THEOREM AlwaysFits == Spec => []Fits
BY InitFits, StepFits, Invariance, PTL DEF Spec

\* The receiver holds at most rcv_wnd segments in order and rcv_wnd ahead of them, and
\* at most snd_wnd numbers are outstanding.
THEOREM BuffersStayInWindows == Spec => []WindowsHold
<1>1. Fits => WindowsHold
  BY DEF Fits, ReceiverFits, SenderFits, Within, WindowsHold
<1> QED
  BY <1>1, AlwaysFits, PTL

\* The segment the receive queue waits for is never left behind in rcv_buf while the
\* queue has room.
THEOREM ReceiverNeverStalls == Spec => []NoStall
<1>1. Fits => NoStall
  BY DEF Fits, ReceiverFits, NoStall
<1> QED
  BY <1>1, AlwaysFits, PTL

-----------------------------------------------------------------------------
(* What was sent: the log and its fragment numbers                         *)

\* All segments that ikcp_send made of e's messages, numbered or not.
Log(e) == numbered[e] \o snd_queue[e]

\* Cutting a queue in two loses nothing.
LEMMA CutWhole ==
  ASSUME NEW S, NEW q \in Seq(S), NEW n \in 0 .. Len(q)
  PROVE  SubSeq(q, 1, n) \o SubSeq(q, n + 1, Len(q)) = q
<1>1. Len(q) \in Nat
  BY LenProperties
<1>2. 1 \in 1 .. Len(q) + 1 /\ n \in 1 - 1 .. Len(q) /\ Len(q) \in n .. Len(q)
  BY <1>1
<1>3. SubSeq(q, 1, n) \o SubSeq(q, n + 1, Len(q)) = SubSeq(q, 1, Len(q))
  BY <1>2, ConcatAdjacentSubSeq
<1> QED
  BY <1>3, SubSeqFull

\* A log is a sequence of segments that begins with the numbered ones.
LEMMA LogType ==
  ASSUME TypeOK, NEW e \in End
  PROVE  \E log \in Seq(Segment) : log = Log(e) /\ JoinOf(log, numbered[e], snd_queue[e])
<1>1. numbered[e] \in Seq(Segment) /\ snd_queue[e] \in Seq(Segment)
  BY DEF TypeOK
<1>2. PICK log \in Seq(Segment) : JoinOf(log, numbered[e], snd_queue[e])
  BY <1>1, Join
<1> QED
  BY <1>2 DEF Log, JoinOf

\* ikcp_flush moves segments within the log.
LEMMA FlushKeepsLog ==
  ASSUME IInv, NEW e \in End, Flush(e)
  PROVE  \A d \in End : Log(d)' = Log(d)
<1>1. TypeOK
  BY DEF IInv
<1>2. PICK w \in Nat, again \in SUBSET snd_buf[e], due \in BOOLEAN : FlushWith(e, w, again, due)
  BY <1>1, WindowTypes DEF Flush
<1>3. PICK q \in Seq(Segment), old \in Seq(Segment) : q = snd_queue[e] /\ old = numbered[e]
  BY <1>1 DEF TypeOK
<1>4. PICK n \in 0 .. Len(q) : n = NewCount(e, w)
  BY <1>1, <1>3, NewCountRange
<1>5. PICK front \in Seq(Segment), rest \in Seq(Segment) : CutInto(q, n, front, rest)
  BY Cut
<1>6. front = SubSeq(q, 1, n) /\ rest = SubSeq(q, n + 1, Len(q)) /\ front \o rest = q
  BY <1>5, CutWhole DEF CutInto
<1>7. /\ numbered' = [numbered EXCEPT ![e] = old \o front]
      /\ snd_queue' = [snd_queue EXCEPT ![e] = rest]
  BY <1>2, <1>3, <1>4, <1>6 DEF FlushWith
<1>8. (old \o front) \o rest = old \o q
  <2>1. (old \o front) \o rest = old \o (front \o rest)
    <3>1. Then(Then(old, front), rest) = Then(old, Then(front, rest))
      BY ThenIs
    <3> QED
      BY <3>1, Zenon DEF Then
  <2> QED
    BY <1>6, <2>1
<1>9. numbered'[e] = old \o front /\ snd_queue'[e] = rest
  BY <1>1, <1>7 DEF TypeOK
<1>10. Log(e)' = Log(e)
  BY <1>3, <1>8, <1>9 DEF Log
<1>11. ASSUME NEW d \in End \ {e} PROVE Log(d)' = Log(d)
  BY <1>1, <1>7 DEF TypeOK, Log
<1> QED
  BY <1>10, <1>11

\* The fragment numbers of a message are less than MaxFrag.
Small(segs) == \A i \in 1 .. Len(segs) : segs[i].frg < MaxFrag
AllSmall == \A e \in End : Small(Log(e))

\* Two sequences of small fragment numbers, one after the other.
LEMMA SmallJoin ==
  ASSUME NEW s \in Seq(Segment), NEW t \in Seq(Segment), NEW all, JoinOf(all, s, t)
  PROVE  Small(all) <=> Small(s) /\ Small(t)
<1>1. Len(s) \in Nat /\ Len(t) \in Nat /\ Len(all) = Len(s) + Len(t)
  BY LenProperties DEF JoinOf
<1>2. ASSUME Small(all) PROVE Small(s) /\ Small(t)
  <2>1. ASSUME NEW i \in 1 .. Len(s) PROVE s[i].frg < MaxFrag
    <3>1. i \in 1 .. Len(all) /\ all[i] = s[i]
      BY <1>1 DEF JoinOf
    <3> QED
      BY <3>1, <1>2 DEF Small
  <2>2. ASSUME NEW i \in 1 .. Len(t) PROVE t[i].frg < MaxFrag
    <3>1. Len(s) + i \in 1 .. Len(all) /\ all[Len(s) + i] = t[i]
      BY <1>1 DEF JoinOf
    <3> QED
      BY <3>1, <1>2 DEF Small
  <2> QED
    BY <2>1, <2>2 DEF Small
<1>3. ASSUME Small(s), Small(t) PROVE Small(all)
  <2>1. ASSUME NEW i \in 1 .. Len(all) PROVE all[i].frg < MaxFrag
    <3>1. CASE i <= Len(s)
      <4>1. i \in 1 .. Len(s) /\ all[i] = s[i]
        BY <3>1, <1>1 DEF JoinOf
      <4> QED
        BY <4>1, <1>3 DEF Small
    <3>2. CASE i > Len(s)
      <4>1. i - Len(s) \in 1 .. Len(t) /\ i = Len(s) + (i - Len(s))
        BY <3>2, <1>1
      <4>2. all[i] = t[i - Len(s)]
        BY <4>1 DEF JoinOf
      <4> QED
        BY <4>1, <4>2, <1>3 DEF Small
    <3> QED
      BY <3>1, <3>2, <1>1
  <2> QED
    BY <2>1 DEF Small
<1> QED
  BY <1>2, <1>3

\* ikcp_send queues a message only if it has at most MaxFrag fragments; the tail it
\* fills is a segment of its own.
LEMMA SendSmall ==
  ASSUME TypeOK, NEW e \in End, NEW m \in Seq(Nat), NEW n \in Nat, NEW rest \in Seq(Nat),
         Small(snd_queue[e]), Sends(e, m, n, rest)
  PROVE  Small(snd_queue'[e])
<1>1. PICK q \in Seq(Segment) : q = snd_queue[e] /\ Small(q) /\ Len(q) \in Nat
  BY LenProperties DEF TypeOK
<1>2. PICK filled \in Seq(Segment) : filled = FillTail(q, m, n)
  BY <1>1, FillTailType DEF Sends
<1>3. Small(filled)
  <2>1. CASE n = 0
    BY <2>1, <1>1, <1>2 DEF FillTail
  <2>2. CASE n # 0
    <3>1. PICK x \in Seq(Nat) : Filled(q, x, filled)
      <4>1. n = TailRoom(q, m)
        BY <1>1 DEF Sends
      <4> QED
        BY <2>2, <1>2, <4>1, FillTailEffect
    <3>2. ASSUME NEW i \in 1 .. Len(q) PROVE filled[i].frg < MaxFrag
      <4>1. filled[i].frg = 0 \/ filled[i] = q[i]
        BY <3>1 DEF Filled
      <4>2. q[i].frg < MaxFrag /\ MaxFrag \in Nat \ {0}
        BY <1>1, KcpAssumption DEF Small
      <4> QED
        BY <4>1, <4>2
    <3> QED
      BY <3>1, <3>2 DEF Small, Filled
  <2> QED
    BY <2>1, <2>2
<1>4. PICK more \in Seq(Segment) : more = Added(rest) /\ Small(more)
  <2>1. CASE Accepted(rest) /\ rest # <<>>
    <3>1. PICK frags \in Seq(Segment) : CutUp(rest, frags)
      BY <2>1, FragmentsCut
    <3>2. PICK c \in Nat : c = FragCount(Len(rest)) /\ c <= MaxFrag
      BY <2>1, FragCountBounds DEF Accepted
    <3>3. /\ frags = Fragments(rest) /\ Len(frags) = c
          /\ \A i \in 1 .. c : frags[i].frg = IF StreamMode THEN 0 ELSE c - i
      BY <3>1, <3>2 DEF CutUp
    <3>4. ASSUME NEW i \in 1 .. c PROVE frags[i].frg < MaxFrag
      <4>1. frags[i].frg = IF StreamMode THEN 0 ELSE c - i
        BY <3>3
      <4> QED
        BY <3>2, <4>1, KcpAssumption
    <3>5. Small(frags)
      BY <3>3, <3>4 DEF Small
    <3> QED
      BY <2>1, <3>3, <3>5 DEF Added
  <2>2. CASE ~ (Accepted(rest) /\ rest # <<>>)
    <3>1. Added(rest) = <<>> /\ <<>> \in Seq(Segment) /\ Len(<<>>) = 0
      BY <2>2, EmptySeq DEF Added
    <3>2. Small(<<>>)
      BY <3>1 DEF Small
    <3> QED
      BY <3>1, <3>2
  <2> QED
    BY <2>1, <2>2
<1>5. snd_queue'[e] = filled \o more
  BY <1>1, <1>2, <1>4 DEF Sends, TypeOK
<1>6. PICK all \in Seq(Segment) : JoinOf(all, filled, more)
  BY Join
<1>7. Small(all) /\ all = filled \o more
  <2>1. all = filled \o more
    BY <1>6 DEF JoinOf
  <2> QED
    BY <1>3, <1>4, <1>6, <2>1, SmallJoin
<1> QED
  BY <1>5, <1>7

\* What no operation but ikcp_send and ikcp_flush touches.
LEMMA LogUntouched ==
  ASSUME UNCHANGED sndVars
  PROVE  sent' = sent /\ \A d \in End : Log(d)' = Log(d)
BY DEF sndVars, Log

\* Every operation keeps the fragment numbers below MaxFrag.
LEMMA StepSmall == IInv /\ AllSmall /\ [Next]_vars => AllSmall'
<1> SUFFICES ASSUME IInv, AllSmall, [Next]_vars PROVE AllSmall'
  OBVIOUS
<1>1. ASSUME NEW e \in End, AppSend(e) PROVE AllSmall'
  <2>1. TypeOK /\ TypeOK'
    BY <1>1, AppSendPreserves DEF IInv
  <2>2. PICK m \in Seq(Nat), n \in Nat, rest \in Seq(Nat) : Sends(e, m, n, rest)
    BY <1>1, SendEffect
  <2>3. ASSUME NEW d \in End PROVE Small(Log(d)')
    <3>1. PICK log \in Seq(Segment) : log = Log(d) /\ JoinOf(log, numbered[d], snd_queue[d])
      BY <2>1, LogType
    <3>2. Small(numbered[d]) /\ Small(snd_queue[d])
      BY <2>1, <3>1, SmallJoin DEF AllSmall, TypeOK
    <3>3. Small(snd_queue'[d])
      <4>1. CASE d = e
        BY <4>1, <2>1, <2>2, <3>2, SendSmall
      <4>2. CASE d # e
        <5>1. snd_queue'[d] = snd_queue[d]
          BY <4>2, <2>1, <2>2 DEF Sends, TypeOK
        <5> QED
          BY <5>1, <3>2
      <4> QED
        BY <4>1, <4>2
    <3>4. /\ numbered'[d] = numbered[d]
          /\ numbered'[d] \in Seq(Segment) /\ snd_queue'[d] \in Seq(Segment)
      BY <2>1, <2>2 DEF Sends, TypeOK
    <3>5. PICK all \in Seq(Segment) : JoinOf(all, numbered'[d], snd_queue'[d])
      BY <3>4, Join
    <3>6. Small(numbered'[d])
      BY <3>2, <3>4
    <3>7. Small(all)
      BY <3>3, <3>4, <3>5, <3>6, SmallJoin
    <3>8. all = Log(d)'
      BY <3>5 DEF JoinOf, Log
    <3> QED
      BY <3>7, <3>8
  <2> QED
    BY <2>3 DEF AllSmall
<1>2. ASSUME NEW e \in End, Flush(e) PROVE AllSmall'
  BY <1>2, FlushKeepsLog DEF AllSmall
<1>3. ASSUME NEW e \in End, Recv(e) \/ Input(e) PROVE AllSmall'
  <2>1. UNCHANGED sndVars
    BY <1>3 DEF Recv, Input, InputAck, InputPush, InputWask, InputWins, Header
  <2> QED
    BY <2>1, LogUntouched DEF AllSmall
<1>4. CASE UNCHANGED vars
  <2>1. UNCHANGED sndVars
    BY <1>4 DEF vars
  <2> QED
    BY <2>1, LogUntouched DEF AllSmall
<1> QED
  BY <1>1, <1>2, <1>3, <1>4 DEF Next

\* If the receive window holds the longest message that ikcp_send accepts, a full
\* receive queue can be read.  (Otherwise it may not: run kcp_wedge.)
THEOREM WideWindowNeverWedges == MaxFrag <= RcvWnd => (Spec => []NeverWedged)
<1> SUFFICES ASSUME MaxFrag <= RcvWnd PROVE Spec => []NeverWedged
  OBVIOUS
<1>1. Init => AllSmall
  <2>1. ASSUME Init, NEW e \in End PROVE Small(Log(e))
    <3>1. Log(e) = <<>> \o <<>> /\ <<>> \in Seq(Segment) /\ Len(<<>>) = 0
      BY <2>1, EmptySeq DEF Init, Log
    <3>2. Log(e) = <<>>
      BY <3>1, ConcatEmptySeq
    <3> QED
      BY <3>1, <3>2 DEF Small
  <2> QED
    BY <2>1 DEF AllSmall
<1>2. ASSUME IInv, AllSmall PROVE NeverWedged
  <2> SUFFICES ASSUME NEW e \in End, Len(rcv_queue[e]) >= RcvWnd PROVE Readable(rcv_queue[e])
    BY DEF NeverWedged
  <2>1. TypeOK /\ InOrder
    BY <1>2 DEF IInv
  <2>2. PICK q \in Seq(Segment) : q = rcv_queue[e] /\ Len(q) \in Nat /\ Len(q) >= RcvWnd
    BY <2>1, LenProperties DEF TypeOK
  <2>3. {MaxFrag, RcvWnd} \subseteq Nat \ {0} /\ 1 \in 1 .. Len(q) /\ q # <<>>
    BY <2>2, KcpAssumption, EmptySeq
  <2>4. PICK d \in End : d = Peer(e)
    BY EndPeer
  <2>5. PICK k \in 1 .. Len(numbered[d]) : q[1] = numbered[d][k]
    <3>1. Ordered(e, read[e], q, rcv_nxt[e])
      BY <2>1, <2>2, InOrderOrdered
    <3>2. Len(read[e]) \in Nat /\ Len(numbered[d]) \in Nat /\ rcv_nxt[e] \in Nat
      BY <2>1, LenProperties DEF TypeOK
    <3>3. Len(read[e]) + 1 \in 1 .. Len(numbered[d])
      <4>1. rcv_nxt[e] = Len(read[e]) + Len(q) /\ rcv_nxt[e] <= Len(numbered[d])
        BY <3>1, <2>4 DEF Ordered, snd_nxt
      <4>2. Len(q) >= 1
        BY <2>3, <2>2
      <4>3. PICK a \in Nat, b \in Nat, c \in Nat :
              a = Len(read[e]) /\ b = Len(q) /\ c = Len(numbered[d])
        BY <3>2, <2>2
      <4>4. b >= 1 /\ a + b <= c
        BY <4>1, <4>2, <4>3
      <4>5. a + 1 \in 1 .. c
        BY <4>4
      <4> QED
        BY <4>3, <4>5
    <3>4. q[1] = numbered[d][Len(read[e]) + 1]
      BY <3>1, <2>3, <2>4 DEF Ordered
    <3> QED
      BY <3>3, <3>4
  <2>6. PICK log \in Seq(Segment) : log = Log(d) /\ JoinOf(log, numbered[d], snd_queue[d])
    BY <2>1, LogType
  <2>7. Small(numbered[d])
    BY <1>2, <2>1, <2>6, SmallJoin DEF AllSmall, TypeOK
  <2>8. q[1].frg < MaxFrag /\ q[1].frg \in Nat
    <3>1. q[1] \in Segment
      BY <2>3, ElementOfSeq
    <3>2. numbered[d][k].frg < MaxFrag
      BY <2>7 DEF Small
    <3> QED
      BY <3>1, <3>2, <2>5 DEF Segment
  <2>9. Len(q) >= q[1].frg + 1
    BY <2>2, <2>3, <2>8
  <2> QED
    BY <2>2, <2>3, <2>9 DEF Readable
<1> QED
  BY <1>1, <1>2, StepSmall, Invariance, PTL DEF Spec

-----------------------------------------------------------------------------
(* Message mode: fragment numbers count down to 0 within the log           *)

Counts(segs) ==
  \A i \in 1 .. Len(segs) :
    segs[i].frg > 0 => i < Len(segs) /\ segs[i + 1].frg = segs[i].frg - 1

\* One log after another: each ends with a fragment number 0.
LEMMA CountsJoin ==
  ASSUME NEW s \in Seq(Segment), NEW t \in Seq(Segment), NEW all, JoinOf(all, s, t),
         Counts(s), Counts(t)
  PROVE  Counts(all)
<1>1. PICK a \in Nat, b \in Nat : a = Len(s) /\ b = Len(t) /\ Len(all) = a + b
  BY LenProperties DEF JoinOf
<1>2. /\ \A i \in 1 .. a : all[i] = s[i]
      /\ \A i \in 1 .. b : all[a + i] = t[i]
  BY <1>1 DEF JoinOf
<1>3. ASSUME NEW i \in 1 .. a + b, all[i].frg > 0
      PROVE  i < a + b /\ all[i + 1].frg = all[i].frg - 1
  <2>1. CASE i <= a
    <3>1. i \in 1 .. a /\ all[i] = s[i]
      BY <1>2, <2>1
    <3>2. i < a /\ s[i + 1].frg = s[i].frg - 1
      BY <1>1, <1>3, <3>1 DEF Counts
    <3>3. i + 1 \in 1 .. a
      BY <3>1, <3>2
    <3>4. all[i + 1] = s[i + 1]
      BY <1>2, <3>3
    <3> QED
      BY <3>1, <3>2, <3>4
  <2>2. CASE i > a
    <3>1. PICK j \in 1 .. b : i = a + j
      <4>1. i - a \in 1 .. b /\ i = a + (i - a)
        BY <2>2
      <4> QED
        BY <4>1
    <3>2. all[i] = t[j]
      BY <1>2, <3>1
    <3>3. j < b /\ t[j + 1].frg = t[j].frg - 1
      BY <1>1, <1>3, <3>2 DEF Counts
    <3>4. j + 1 \in 1 .. b /\ i + 1 = a + (j + 1)
      BY <3>1, <3>3
    <3>5. all[i + 1] = t[j + 1]
      <4>1. all[a + (j + 1)] = t[j + 1]
        BY <1>2, <3>4
      <4> QED
        BY <3>4, <4>1
    <3> QED
      BY <3>1, <3>2, <3>3, <3>5
  <2> QED
    BY <2>1, <2>2
<1> QED
  BY <1>1, <1>3 DEF Counts

\* The fragments of one message count down.
LEMMA FragmentsCount ==
  ASSUME ~ StreamMode, NEW m \in Seq(Nat), m # <<>>, NEW frags, CutUp(m, frags)
  PROVE  Counts(frags)
<1>1. PICK c \in Nat : c = FragCount(Len(m))
  BY FragCountBounds
<1>2. Len(frags) = c /\ \A i \in 1 .. c : frags[i].frg = c - i
  BY <1>1 DEF CutUp
<1>3. ASSUME NEW i \in 1 .. c, frags[i].frg > 0
      PROVE  i < c /\ frags[i + 1].frg = frags[i].frg - 1
  <2>1. frags[i].frg = c - i
    BY <1>2
  <2>2. i + 1 \in 1 .. c
    BY <1>3, <2>1
  <2>3. frags[i + 1].frg = c - (i + 1)
    BY <1>2, <2>2
  <2> QED
    BY <2>1, <2>2, <2>3
<1> QED
  BY <1>2, <1>3 DEF Counts

\* A run of such numbers that ends above 0 is as long as the first number says.
LEMMA CountDown ==
  ASSUME NEW n \in Nat, NEW frg \in [1 .. n -> Nat], n # 0,
         \A i \in 1 .. n : frg[i] # 0,
         \A i \in 1 .. n - 1 : frg[i + 1] = frg[i] - 1
  PROVE  n < frg[1] + 1
<1> DEFINE T == {i \in 1 .. n : frg[i] # frg[1] - (i - 1)}
<1>0. 1 \in 1 .. n /\ n \in 1 .. n
  OBVIOUS
<1>1. ASSUME T # {} PROVE FALSE
  <2>1. T \subseteq Nat
    OBVIOUS
  <2>2. \E k \in T : \A j \in T : k <= j
    <3> HIDE DEF T
    <3> QED
      BY <1>1, <2>1, Least
  <2>3. PICK k \in T : \A j \in T : k <= j
    BY <2>2
  <2>4. k \in 1 .. n /\ frg[k] # frg[1] - (k - 1)
    OBVIOUS
  <2>5. k # 1
    BY <2>4, <1>0
  <2>6. PICK j \in 1 .. n - 1 : k = j + 1
    <3>1. k - 1 \in 1 .. n - 1 /\ k = (k - 1) + 1
      BY <2>4, <2>5
    <3> QED
      BY <3>1
  <2>7. j \in 1 .. n /\ ~ (k <= j)
    BY <2>6
  <2>8. frg[j] = frg[1] - (j - 1)
    BY <2>3, <2>7
  <2>9. frg[k] = frg[j] - 1
    BY <2>6
  <2>10. frg[1] \in Nat
    BY <1>0
  <2> QED
    BY <2>4, <2>6, <2>8, <2>9, <2>10
<1>2. frg[n] = frg[1] - (n - 1)
  BY <1>0, <1>1
<1>3. frg[n] \in Nat /\ frg[n] # 0 /\ frg[1] \in Nat
  BY <1>0
<1> QED
  BY <1>2, <1>3

-----------------------------------------------------------------------------
(* Message mode: the segments of the log, put together                     *)

Progress == [done : Seq(Seq(Nat)), part : Seq(Nat)]

\* acc tells what the first i segments put together are.
Collects(acc, segs) ==
  /\ acc \in [0 .. Len(segs) -> Progress]
  /\ acc[0] = NoMessages
  /\ \A i \in 1 .. Len(segs) : acc[i] = Gather(acc[i - 1], segs[i])

\* The step of the definition of Messages.
IsCollect(f, segs) ==
  f = [i \in 0 .. Len(segs) |->
         IF i = 0 THEN NoMessages ELSE Gather(f[i - 1], segs[i])]

\* Messages is what the segments put together are.
LEMMA MessagesOf ==
  ASSUME NEW segs \in Seq(Segment), NEW acc, Collects(acc, segs)
  PROVE  Messages(segs) = acc[Len(segs)].done
<1>1. PICK n \in Nat : n = Len(segs)
  BY LenProperties
<1>2. /\ acc \in [0 .. n -> Progress] /\ acc[0] = NoMessages
      /\ \A i \in 1 .. n : acc[i] = Gather(acc[i - 1], segs[i])
  BY <1>1 DEF Collects
<1> DEFINE f == CHOOSE f : IsCollect(f, segs)
<1>3. Messages(segs) = f[Len(segs)].done
  BY DEF Messages, IsCollect
<1>4. IsCollect(acc, segs)
  <2>1. ASSUME NEW i \in 0 .. n
        PROVE  acc[i] = IF i = 0 THEN NoMessages ELSE Gather(acc[i - 1], segs[i])
    <3>1. CASE i = 0
      BY <1>2, <3>1
    <3>2. CASE i # 0
      <4>1. i \in 1 .. n
        BY <3>2
      <4> QED
        BY <1>2, <3>2, <4>1
    <3> QED
      BY <3>1, <3>2
  <2> QED
    BY <1>1, <1>2, <2>1 DEF IsCollect
<1>5. IsCollect(f, segs)
  BY <1>4
<1> HIDE DEF f
<1>6. \A i \in 0 .. n : f[i] = IF i = 0 THEN NoMessages ELSE Gather(f[i - 1], segs[i])
  BY <1>1, <1>5 DEF IsCollect
<1> DEFINE T == {i \in 0 .. n : f[i] # acc[i]}
<1>7. ASSUME T # {} PROVE FALSE
  <2>1. T \subseteq Nat
    OBVIOUS
  <2>2. \E k \in T : \A j \in T : k <= j
    <3> HIDE DEF T
    <3> QED
      BY <1>7, <2>1, Least
  <2>3. PICK k \in T : \A j \in T : k <= j
    BY <2>2
  <2>4. k \in 0 .. n /\ f[k] # acc[k]
    OBVIOUS
  <2>5. k # 0
    BY <1>2, <1>6, <2>4
  <2>6. k - 1 \in 0 .. n /\ k \in 1 .. n /\ ~ (k <= k - 1)
    BY <2>4, <2>5
  <2>7. f[k - 1] = acc[k - 1]
    BY <2>3, <2>6
  <2>8. f[k] = Gather(f[k - 1], segs[k]) /\ acc[k] = Gather(acc[k - 1], segs[k])
    BY <1>2, <1>6, <2>5, <2>6
  <2> QED
    BY <2>4, <2>7, <2>8
<1>8. n \in 0 .. n
  OBVIOUS
<1> QED
  BY <1>1, <1>3, <1>7, <1>8

\* One segment more leaves what is complete complete, and in the same order.
LEMMA GatherMore ==
  ASSUME NEW acc \in Progress, NEW seg \in Segment
  PROVE  /\ Gather(acc, seg) \in Progress
         /\ Len(acc.done) <= Len(Gather(acc, seg).done)
         /\ \A i \in 1 .. Len(acc.done) : Gather(acc, seg).done[i] = acc.done[i]
<1>1. acc.done \in Seq(Seq(Nat)) /\ acc.part \in Seq(Nat) /\ seg.data \in Seq(Nat)
  BY DEF Progress, Segment
<1>2. PICK whole \in Seq(Nat) : whole = acc.part \o seg.data
  BY <1>1, ConcatProperties
<1>3. PICK more \in Seq(Seq(Nat)) : more = Append(acc.done, whole)
  BY <1>1, AppendProperties
<1>4. Len(more) = Len(acc.done) + 1 /\ \A i \in 1 .. Len(acc.done) : more[i] = acc.done[i]
  BY <1>1, <1>3, AppendProperties
<1>5. Len(acc.done) \in Nat
  BY <1>1, LenProperties
<1>6. Gather(acc, seg) = IF seg.frg = 0 THEN [done |-> more, part |-> <<>>]
                                        ELSE [done |-> acc.done, part |-> whole]
  BY <1>2, <1>3 DEF Gather
<1>7. [done |-> more, part |-> <<>>] \in Progress /\ [done |-> acc.done, part |-> whole] \in Progress
  BY <1>1, EmptySeq DEF Progress
<1> QED
  BY <1>4, <1>5, <1>6, <1>7

\* What the first k segments complete is the beginning of what all complete.
LEMMA DoneGrows ==
  ASSUME NEW segs \in Seq(Segment), NEW acc, Collects(acc, segs), NEW k \in 0 .. Len(segs)
  PROVE  LET s == acc[k].done
             t == acc[Len(segs)].done
         IN Len(s) <= Len(t) /\ \A i \in 1 .. Len(s) : t[i] = s[i]
<1>1. PICK n \in Nat : n = Len(segs) /\ k \in 0 .. n
  BY LenProperties
<1>2. /\ acc \in [0 .. n -> Progress]
      /\ \A i \in 1 .. n : acc[i] = Gather(acc[i - 1], segs[i]) /\ segs[i] \in Segment
  BY <1>1, ElementOfSeq DEF Collects
<1>3. PICK s \in Seq(Seq(Nat)) : s = acc[k].done
  BY <1>1, <1>2 DEF Progress
<1>4. Len(s) \in Nat
  BY LenProperties
<1> DEFINE Begins(j) == Len(s) <= Len(acc[j].done) /\ \A i \in 1 .. Len(s) : acc[j].done[i] = s[i]
           T == {j \in k .. n : ~ Begins(j)}
<1>5. Begins(k)
  BY <1>3, <1>4
<1>6. ASSUME T # {} PROVE FALSE
  <2>1. T \subseteq Nat
    BY <1>1
  <2>2. \E j \in T : \A i \in T : j <= i
    <3> HIDE DEF T
    <3> QED
      BY <1>6, <2>1, Least
  <2>3. PICK j \in T : \A i \in T : j <= i
    BY <2>2
  <2>4. j \in k .. n /\ ~ Begins(j)
    OBVIOUS
  <2>5. j # k
    BY <1>5, <2>4
  <2>6. PICK p \in k .. n : j = p + 1 /\ p \in 0 .. n /\ j \in 1 .. n
    <3>1. j - 1 \in k .. n /\ j = (j - 1) + 1 /\ j - 1 \in 0 .. n /\ j \in 1 .. n
      BY <1>1, <2>4, <2>5
    <3> QED
      BY <3>1
  <2>7. ~ (j <= p)
    BY <1>1, <2>6
  <2>8. Begins(p)
    BY <2>3, <2>6, <2>7
  <2>9. acc[j] = Gather(acc[p], segs[j]) /\ acc[p] \in Progress /\ segs[j] \in Segment
    <3>1. j - 1 = p
      BY <2>6
    <3> QED
      BY <1>2, <2>6, <3>1
  <2>10. PICK old \in Nat, new \in Nat :
           /\ old = Len(acc[p].done) /\ new = Len(acc[j].done) /\ old <= new
           /\ \A i \in 1 .. old : acc[j].done[i] = acc[p].done[i]
    <3>1. acc[j] \in Progress /\ Len(acc[p].done) <= Len(acc[j].done)
            /\ \A i \in 1 .. Len(acc[p].done) : acc[j].done[i] = acc[p].done[i]
      BY <2>9, GatherMore
    <3>2. Len(acc[p].done) \in Nat /\ Len(acc[j].done) \in Nat
      BY <2>9, <3>1, LenProperties DEF Progress
    <3> QED
      BY <3>1, <3>2
  <2>11. Begins(j)
    BY <1>4, <2>8, <2>10
  <2> QED
    BY <2>4, <2>11
<1>7. Begins(n)
  <2>1. n \in k .. n
    BY <1>1
  <2> QED
    BY <1>6, <2>1
<1> QED
  BY <1>1, <1>3, <1>7

-----------------------------------------------------------------------------
(* Message mode: the invariant                                             *)

\* segs put together are the messages done, with nothing left over.
Completes(acc, segs, done) ==
  Collects(acc, segs) /\ acc[Len(segs)] = [done |-> done, part |-> <<>>]

\* The log, put together, is the messages that ikcp_send accepted.
Whole(e) == \E acc : Completes(acc, Log(e), sent[e])

\* What was read ends with the last fragment of a message.
ReadEnds(e) == read[e] # <<>> => Last(read[e]).frg = 0

MessageInv == \A e \in End : Counts(Log(e)) /\ Whole(e) /\ ReadEnds(e)

\* In message mode ikcp_send leaves the tail alone.
LEMMA SendExtendsLog ==
  ASSUME TypeOK, ~ StreamMode, NEW e \in End, NEW m \in Seq(Nat), NEW n \in Nat,
         NEW rest \in Seq(Nat), Sends(e, m, n, rest)
  PROVE  rest = m /\ Added(m) \in Seq(Segment) /\ Log(e)' = Log(e) \o Added(m)
<1>1. n = 0
  BY DEF Sends, TailRoom
<1>2. rest = m
  BY <1>1, SubSeqFull DEF Sends
<1>3. PICK q \in Seq(Segment), old \in Seq(Segment) : q = snd_queue[e] /\ old = numbered[e]
  BY DEF TypeOK
<1>4. PICK more \in Seq(Segment) : more = Added(m)
  <2>1. Added(m) \in Seq(Segment)
    BY FragmentsType, EmptySeq DEF Added
  <2> QED
    BY <2>1
<1>5. snd_queue'[e] = q \o more /\ numbered'[e] = old
  BY <1>1, <1>2, <1>3, <1>4 DEF Sends, FillTail, TypeOK
<1>6. old \o (q \o more) = (old \o q) \o more
  <2>1. Then(old, Then(q, more)) = Then(Then(old, q), more)
    BY ThenIs
  <2> QED
    BY <2>1, Zenon DEF Then
<1> QED
  BY <1>2, <1>3, <1>4, <1>5, <1>6 DEF Log

\* The fragments of a message complete it, and nothing before.
LEMMA CollectsMore ==
  ASSUME ~ StreamMode, NEW log \in Seq(Segment), NEW done \in Seq(Seq(Nat)),
         NEW acc, Completes(acc, log, done),
         NEW m \in Seq(Nat), m # <<>>, NEW frags \in Seq(Segment), CutUp(m, frags),
         NEW all \in Seq(Segment), JoinOf(all, log, frags)
  PROVE  \E more : Completes(more, all, Append(done, m))
<1>1. PICK c \in Nat, k \in Nat :
        c = FragCount(Len(m)) /\ c >= 1 /\ k = Len(log) /\ Len(all) = k + c
  BY FragCountBounds, LenProperties DEF CutUp, JoinOf
<1>2. /\ acc \in [0 .. k -> Progress] /\ acc[0] = NoMessages
      /\ \A i \in 1 .. k : acc[i] = Gather(acc[i - 1], log[i])
      /\ acc[k] = [done |-> done, part |-> <<>>]
  BY <1>1 DEF Completes, Collects
<1>3. /\ \A j \in 1 .. c : /\ frags[j].frg = c - j
                           /\ Begun(m, j - 1) \in Seq(Nat)
                           /\ Begun(m, j) = Begun(m, j - 1) \o frags[j].data
      /\ Begun(m, 0) = <<>> /\ Begun(m, c) = m
  BY <1>1 DEF CutUp
<1>4. /\ \A i \in 1 .. k : all[i] = log[i]
      /\ \A j \in 1 .. c : all[k + j] = frags[j]
  BY <1>1 DEF JoinOf, CutUp
<1> DEFINE end == [done |-> Append(done, m), part |-> <<>>]
           mid(j) == [done |-> done, part |-> Begun(m, j)]
           more == [i \in 0 .. k + c |->
                      IF i <= k THEN acc[i] ELSE IF i = k + c THEN end ELSE mid(i - k)]
<1>5. end \in Progress
  <2>1. Append(done, m) \in Seq(Seq(Nat)) /\ <<>> \in Seq(Nat)
    BY AppendProperties, EmptySeq
  <2> QED
    BY <2>1 DEF Progress
<1>6. ASSUME NEW j \in 0 .. c - 1 PROVE mid(j) \in Progress
  <2>1. j + 1 \in 1 .. c /\ (j + 1) - 1 = j
    BY <1>1
  <2>2. Begun(m, (j + 1) - 1) \in Seq(Nat)
    BY <1>3, <2>1
  <2> QED
    BY <2>1, <2>2 DEF Progress
<1>7. mid(0) = acc[k]
  BY <1>2, <1>3
<1>8. ASSUME NEW j \in 1 .. c
      PROVE  Gather(mid(j - 1), frags[j]) = IF j = c THEN end ELSE mid(j)
  <2>1. frags[j].frg = c - j /\ Begun(m, j) = Begun(m, j - 1) \o frags[j].data
    BY <1>3
  <2>2. CASE j = c
    <3>1. frags[j].frg = 0
      BY <1>1, <2>1, <2>2
    <3> QED
      BY <1>3, <2>1, <2>2, <3>1 DEF Gather
  <2>3. CASE j # c
    <3>1. frags[j].frg # 0
      BY <1>1, <2>1, <2>3
    <3> QED
      BY <2>1, <2>3, <3>1 DEF Gather
  <2> QED
    BY <2>2, <2>3
<1> HIDE DEF end, mid
<1>9. more \in [0 .. k + c -> Progress]
  <2>1. ASSUME NEW i \in 0 .. k + c
        PROVE  (IF i <= k THEN acc[i] ELSE IF i = k + c THEN end ELSE mid(i - k)) \in Progress
    <3>1. CASE i <= k
      BY <1>2, <3>1
    <3>2. CASE i > k /\ i = k + c
      BY <1>5, <3>2
    <3>3. CASE i > k /\ i # k + c
      <4>1. i - k \in 0 .. c - 1
        BY <3>3
      <4> QED
        BY <1>6, <3>3, <4>1
    <3> QED
      BY <3>1, <3>2, <3>3
  <2> QED
    BY <2>1
<1>10. more[0] = NoMessages /\ more[k + c] = end
  <2>1. 0 \in 0 .. k + c /\ 0 <= k /\ k + c \in 0 .. k + c /\ ~ (k + c <= k)
    BY <1>1
  <2> QED
    BY <1>2, <2>1
<1>11. ASSUME NEW j \in 0 .. c - 1 PROVE more[k + j] = mid(j)
  <2>1. k + j \in 0 .. k + c /\ k + j # k + c /\ (k + j) - k = j
    BY <1>1
  <2>2. CASE j = 0
    BY <1>7, <2>1, <2>2
  <2>3. CASE j # 0
    <3>1. ~ (k + j <= k)
      BY <2>3
    <3> QED
      BY <2>1, <3>1
  <2> QED
    BY <2>2, <2>3
<1>12. \A i \in 0 .. k : more[i] = acc[i]
  BY <1>1
<1> HIDE DEF more
<1>13. ASSUME NEW i \in 1 .. k + c PROVE more[i] = Gather(more[i - 1], all[i])
  <2>1. CASE i <= k
    <3>1. i \in 0 .. k /\ i - 1 \in 0 .. k /\ i \in 1 .. k
      BY <2>1
    <3> QED
      BY <1>2, <1>4, <1>12, <3>1
  <2>2. CASE i > k
    <3>1. PICK j \in 1 .. c : i = k + j
      <4>1. i - k \in 1 .. c /\ i = k + (i - k)
        BY <2>2
      <4> QED
        BY <4>1
    <3>2. j - 1 \in 0 .. c - 1 /\ k + (j - 1) = i - 1
      BY <3>1
    <3>3. more[i - 1] = mid(j - 1)
      BY <1>11, <3>2
    <3>4. more[i] = IF j = c THEN end ELSE mid(j)
      <4>1. CASE j = c
        BY <1>10, <3>1, <4>1
      <4>2. CASE j # c
        <5>1. j \in 0 .. c - 1
          BY <4>2
        <5> QED
          BY <1>11, <3>1, <4>2, <5>1
      <4> QED
        BY <4>1, <4>2
    <3>5. all[i] = frags[j]
      BY <1>4, <3>1
    <3> QED
      BY <1>8, <3>3, <3>4, <3>5
  <2> QED
    BY <2>1, <2>2
<1>14. Completes(more, all, Append(done, m))
  <2>1. more[Len(all)] = [done |-> Append(done, m), part |-> <<>>]
    BY <1>1, <1>10 DEF end
  <2> QED
    BY <1>1, <1>9, <1>10, <1>13, <2>1 DEF Completes, Collects
<1> QED
  BY <1>14

\* An accepted message is completed behind the others, a refused one adds nothing.
LEMMA SendKeepsMessages ==
  ASSUME IInv, IInv', ~ StreamMode, MessageInv, NEW e \in End, AppSend(e)
  PROVE  \A d \in End : Counts(Log(d)') /\ Whole(d)'
<1>1. TypeOK /\ TypeOK'
  BY DEF IInv
<1>2. PICK m \in Seq(Nat), n \in Nat, rest \in Seq(Nat) : Sends(e, m, n, rest)
  BY SendEffect
<1>3. PICK log \in Seq(Segment) : log = Log(e)
  BY <1>1, LogType
<1>4. rest = m /\ Added(m) \in Seq(Segment) /\ Log(e)' = log \o Added(m)
  BY <1>1, <1>2, <1>3, SendExtendsLog
<1>5. m # <<>> /\ sent' = IF Accepted(m) THEN [sent EXCEPT ![e] = Append(@, m)] ELSE sent
  BY <1>2, <1>4 DEF Sends
<1>6. Counts(log) /\ Whole(e)
  BY <1>3 DEF MessageInv
<1>7. CASE Accepted(m)
  <2>1. PICK frags \in Seq(Segment) : CutUp(m, frags) /\ frags = Added(m)
    <3>1. PICK frags \in Seq(Segment) : CutUp(m, frags)
      BY <1>5, FragmentsCut
    <3> QED
      BY <1>5, <1>7, <3>1 DEF CutUp, Added
  <2>2. PICK all \in Seq(Segment) : JoinOf(all, log, frags)
    BY Join
  <2>3. Log(e)' = all
    BY <1>4, <2>1, <2>2 DEF JoinOf
  <2>4. Counts(all)
    <3>1. Counts(frags)
      BY <1>5, <2>1, FragmentsCount
    <3> QED
      BY <1>6, <2>2, <3>1, CountsJoin
  <2>5. PICK done \in Seq(Seq(Nat)) : done = sent[e]
    BY <1>1 DEF TypeOK
  <2>6. sent'[e] = Append(done, m)
    BY <1>1, <1>5, <1>7, <2>5 DEF TypeOK
  <2>7. PICK acc : Completes(acc, log, done)
    BY <1>3, <1>6, <2>5 DEF Whole
  <2>8. PICK more : Completes(more, all, Append(done, m))
    <3>1. m # <<>> /\ ~ StreamMode
      BY <1>5
    <3>2. CutUp(m, frags) /\ JoinOf(all, log, frags)
      BY <2>1, <2>2
    <3> QED
      BY <2>7, <3>1, <3>2, CollectsMore
  <2>9. Whole(e)'
    BY <2>3, <2>6, <2>8 DEF Whole
  <2> QED
    <3>1. ASSUME NEW d \in End \ {e} PROVE Counts(Log(d)') /\ Whole(d)'
      <4>1. Log(d)' = Log(d) /\ sent'[d] = sent[d]
        BY <1>1, <1>2, <1>5 DEF Sends, Log, TypeOK
      <4> QED
        BY <4>1 DEF MessageInv, Whole
    <3> QED
      BY <2>3, <2>4, <2>9, <3>1
<1>8. CASE ~ Accepted(m)
  <2>1. Added(m) = <<>> /\ sent' = sent
    BY <1>5, <1>8 DEF Added
  <2>2. Log(e)' = log
    BY <1>4, <2>1, ConcatEmptySeq
  <2>3. ASSUME NEW d \in End \ {e} PROVE Log(d)' = Log(d)
    BY <1>1, <1>2 DEF Sends, Log, TypeOK
  <2>4. ASSUME NEW d \in End PROVE Counts(Log(d)') /\ Whole(d)'
    <3>1. Log(d)' = Log(d) /\ sent'[d] = sent[d]
      BY <1>3, <2>1, <2>2, <2>3
    <3> QED
      BY <3>1 DEF MessageInv, Whole
  <2> QED
    BY <2>4
<1> QED
  BY <1>7, <1>8

\* The receive queue continues the log, so ikcp_recv, which reads only what is whole,
\* stops at the last fragment of a message.
LEMMA RecvEnds ==
  ASSUME IInv, MessageInv, NEW e \in End, Recv(e)
  PROVE  ReadEnds(e)'
<1>1. TypeOK /\ InOrder
  BY DEF IInv
<1>2. PICK q \in Seq(Segment), taken \in Seq(Segment) : q = rcv_queue[e] /\ taken = read[e]
  BY <1>1 DEF TypeOK
<1>3. PICK n \in 1 .. Len(q) :
        Merges(n, q) /\ read' = [read EXCEPT ![e] = taken \o SubSeq(q, 1, n)]
  BY <1>2 DEF Recv
<1>4. Readable(q)
  BY <1>2 DEF Recv
<1>5. PICK l \in Nat, r \in Nat : l = Len(q) /\ r = Len(taken) /\ n \in 1 .. l
  BY <1>3, LenProperties
<1>6. PICK d \in End : d = Peer(e)
  BY EndPeer
<1>7. PICK log \in Seq(Segment) : log = Log(d) /\ JoinOf(log, numbered[d], snd_queue[d])
  BY <1>1, LogType
<1>8. PICK a \in Nat, b \in Nat : a = Len(numbered[d]) /\ b = Len(log) /\ a <= b
  <2>1. numbered[d] \in Seq(Segment) /\ snd_queue[d] \in Seq(Segment)
    BY <1>1 DEF TypeOK
  <2>2. Len(numbered[d]) \in Nat /\ Len(snd_queue[d]) \in Nat
    BY <2>1, LenProperties
  <2>3. Len(log) = Len(numbered[d]) + Len(snd_queue[d])
    BY <1>7 DEF JoinOf
  <2>4. PICK a \in Nat, c \in Nat : a = Len(numbered[d]) /\ c = Len(snd_queue[d])
    BY <2>2
  <2>5. a + c \in Nat /\ a <= a + c
    OBVIOUS
  <2> QED
    BY <2>3, <2>4, <2>5
<1>9. r + l <= a /\ \A i \in 1 .. l : q[i] = log[r + i]
  <2>1. Ordered(e, taken, q, rcv_nxt[e])
    BY <1>1, <1>2, InOrderOrdered
  <2>2. r + l <= a /\ \A i \in 1 .. l : q[i] = numbered[d][r + i]
    BY <2>1, <1>5, <1>6, <1>8 DEF Ordered, snd_nxt
  <2>3. \A i \in 1 .. a : log[i] = numbered[d][i]
    BY <1>7, <1>8 DEF JoinOf
  <2>4. \A i \in 1 .. l : r + i \in 1 .. a
    BY <2>2
  <2> QED
    BY <2>2, <2>3, <2>4
<1>10. \A i \in 1 .. l : q[i] \in Segment /\ q[i].frg \in Nat
  <2>1. \A i \in 1 .. l : q[i] \in Segment
    BY <1>5, ElementOfSeq
  <2> QED
    BY <2>1 DEF Segment
<1>11. ASSUME q[n].frg # 0 PROVE FALSE
  <2>1. n = l /\ \A i \in 1 .. n - 1 : q[i].frg # 0
    BY <1>3, <1>5, <1>11 DEF Merges
  <2> DEFINE frg == [i \in 1 .. n |-> q[i].frg]
  <2>2. frg \in [1 .. n -> Nat] /\ n \in Nat /\ n # 0
    BY <1>5, <1>10
  <2>3. \A i \in 1 .. n : frg[i] # 0
    BY <1>5, <1>11, <2>1
  <2>4. ASSUME NEW i \in 1 .. n - 1 PROVE frg[i + 1] = frg[i] - 1
    <3>1. i \in 1 .. l /\ i + 1 \in 1 .. l /\ i \in 1 .. n /\ i + 1 \in 1 .. n
      BY <1>5, <2>1
    <3>2. q[i] = log[r + i] /\ q[i + 1] = log[r + (i + 1)] /\ q[i].frg > 0
      BY <1>9, <1>10, <2>1, <3>1
    <3>3. r + i \in 1 .. b /\ r + (i + 1) = (r + i) + 1
      BY <1>8, <1>9, <3>1
    <3>4. Counts(log)
      BY <1>7 DEF MessageInv
    <3>5. log[(r + i) + 1].frg = log[r + i].frg - 1
      BY <1>8, <3>2, <3>3, <3>4 DEF Counts
    <3>6. q[i + 1].frg = q[i].frg - 1
      BY <3>2, <3>3, <3>5
    <3> QED
      BY <3>1, <3>6
  <2> HIDE DEF frg
  <2>5. n < frg[1] + 1
    BY <2>2, <2>3, <2>4, CountDown
  <2>6. frg[1] = q[1].frg /\ q[1].frg # 0
    <3>1. 1 \in 1 .. n
      BY <1>5
    <3> QED
      BY <2>3, <3>1 DEF frg
  <2>7. l >= q[1].frg + 1
    BY <1>4, <1>5, <2>6 DEF Readable
  <2>8. PICK x \in Nat : x = q[1].frg
    <3>1. 1 \in 1 .. l
      BY <1>5
    <3> QED
      BY <1>10, <3>1
  <2> QED
    BY <1>5, <2>1, <2>5, <2>6, <2>7, <2>8
<1>12. PICK front \in Seq(Segment), rest \in Seq(Segment) : CutInto(q, n, front, rest)
  <2>1. n \in 0 .. Len(q)
    BY <1>5
  <2> QED
    BY <2>1, Cut
<1>13. PICK all \in Seq(Segment) : JoinOf(all, taken, front)
  BY Join
<1>14. read'[e] = all /\ Len(all) = r + n /\ all[r + n] = q[n]
  <2>1. front = SubSeq(q, 1, n) /\ Len(front) = n /\ front[n] = q[n]
    BY <1>5, <1>12 DEF CutInto
  <2>2. all = taken \o front /\ Len(all) = r + n /\ all[r + n] = front[n]
    BY <1>5, <1>13, <2>1 DEF JoinOf
  <2> QED
    BY <1>1, <1>3, <2>1, <2>2 DEF TypeOK
<1> QED
  BY <1>11, <1>14 DEF ReadEnds, Last

\* Every operation keeps the messages whole.
LEMMA StepMessages ==
  ASSUME ~ StreamMode
  PROVE  IInv /\ MessageInv /\ [Next]_vars => MessageInv'
<1> SUFFICES ASSUME IInv, MessageInv, [Next]_vars PROVE MessageInv'
  OBVIOUS
<1>1. IInv'
  BY StepIInv
<1>2. ASSUME sent' = sent, \A d \in End : Log(d)' = Log(d)
      PROVE  \A d \in End : Counts(Log(d)') /\ Whole(d)'
  BY <1>2 DEF MessageInv, Whole
<1>3. ASSUME read' = read PROVE \A d \in End : ReadEnds(d)'
  BY <1>3 DEF MessageInv, ReadEnds
<1>4. ASSUME NEW e \in End, AppSend(e) PROVE MessageInv'
  <2>1. read' = read
    BY <1>4, SendEffect DEF Sends
  <2>2. \A d \in End : Counts(Log(d)') /\ Whole(d)'
    BY <1>1, <1>4, SendKeepsMessages
  <2> QED
    BY <1>3, <2>1, <2>2 DEF MessageInv
<1>5. ASSUME NEW e \in End, Flush(e) PROVE MessageInv'
  <2>1. read' = read /\ sent' = sent
    BY <1>5 DEF Flush, FlushWith
  <2>2. \A d \in End : Log(d)' = Log(d)
    BY <1>5, FlushKeepsLog
  <2> QED
    BY <1>2, <1>3, <2>1, <2>2 DEF MessageInv
<1>6. ASSUME NEW e \in End, Recv(e) PROVE MessageInv'
  <2>1. UNCHANGED sndVars
    BY <1>6 DEF Recv
  <2>2. ReadEnds(e)'
    BY <1>6, RecvEnds
  <2>3. ASSUME NEW d \in End \ {e} PROVE ReadEnds(d)'
    <3>1. PICK n \in 1 .. Len(rcv_queue[e]) :
            read' = [read EXCEPT ![e] = @ \o SubSeq(rcv_queue[e], 1, n)]
      BY <1>6 DEF Recv
    <3>2. read'[d] = read[d]
      BY <3>1 DEF IInv, TypeOK
    <3> QED
      BY <3>2 DEF MessageInv, ReadEnds
  <2> QED
    BY <1>2, <2>1, <2>2, <2>3, LogUntouched DEF MessageInv
<1>7. ASSUME NEW e \in End, Input(e) PROVE MessageInv'
  <2>1. UNCHANGED sndVars /\ read' = read
    BY <1>7 DEF Input, InputAck, InputPush, InputWask, InputWins, Header
  <2> QED
    BY <1>2, <1>3, <2>1, LogUntouched DEF MessageInv
<1>8. CASE UNCHANGED vars
  <2>1. UNCHANGED sndVars /\ read' = read
    BY <1>8 DEF vars
  <2> QED
    BY <1>2, <1>3, <2>1, LogUntouched DEF MessageInv
<1> QED
  BY <1>4, <1>5, <1>6, <1>7, <1>8 DEF Next

\* Nothing was sent yet.
LEMMA InitMessages == Init => MessageInv
<1> SUFFICES ASSUME Init, NEW e \in End PROVE Counts(Log(e)) /\ Whole(e) /\ ReadEnds(e)
  BY DEF MessageInv
<1>1. <<>> \in Seq(Segment) /\ Len(<<>>) = 0
  BY EmptySeq
<1>2. Log(e) = <<>>
  <2>1. Log(e) = <<>> \o <<>>
    BY DEF Init, Log
  <2> QED
    BY <1>1, <2>1, ConcatEmptySeq
<1>3. Counts(<<>>)
  BY <1>1 DEF Counts
<1>4. Collects([i \in 0 .. 0 |-> NoMessages], <<>>)
  <2>1. NoMessages \in Progress
    BY EmptySeq DEF NoMessages, Progress
  <2> QED
    BY <1>1, <2>1 DEF Collects
<1>5. [i \in 0 .. 0 |-> NoMessages][0] = [done |-> sent[e], part |-> <<>>]
  BY DEF Init, NoMessages
<1>6. Whole(e)
  BY <1>1, <1>2, <1>4, <1>5 DEF Whole, Completes
<1> QED
  BY <1>2, <1>3, <1>6 DEF Init, ReadEnds

\* What an endpoint read begins its peer's log.
LEMMA ReadIsLog ==
  ASSUME TypeOK, InOrder, NEW e \in End
  PROVE  \E log \in Seq(Segment) :
           /\ log = Log(Peer(e)) /\ Len(read[e]) \in 0 .. Len(log)
           /\ \A i \in 1 .. Len(read[e]) : read[e][i] = log[i]
<1>1. PICK d \in End : d = Peer(e)
  BY EndPeer
<1>2. PICK log \in Seq(Segment) : log = Log(d) /\ JoinOf(log, numbered[d], snd_queue[d])
  BY LogType
<1>3. PICK r \in Nat, l \in Nat, a \in Nat, b \in Nat :
        r = Len(read[e]) /\ l = Len(rcv_queue[e]) /\ a = Len(numbered[d]) /\ b = Len(snd_queue[d])
  BY LenProperties DEF TypeOK
<1>4. Ordered(e, read[e], rcv_queue[e], rcv_nxt[e])
  BY InOrderOrdered
<1>5. r + l <= a /\ \A i \in 1 .. r : read[e][i] = numbered[d][i]
  BY <1>1, <1>3, <1>4 DEF Ordered, snd_nxt
<1>6. Len(log) = a + b /\ \A i \in 1 .. a : log[i] = numbered[d][i]
  BY <1>2, <1>3 DEF JoinOf
<1>7. r \in 0 .. a + b /\ \A i \in 1 .. r : i \in 1 .. a
  BY <1>5
<1> QED
  BY <1>1, <1>2, <1>3, <1>5, <1>6, <1>7

\* Message mode: the reader gets whole messages, each exactly what one ikcp_send was
\* given, in order, whatever the windows, the fragment size and the path.
THEOREM MessagesStayIntact == ~ StreamMode => (Spec => []MessagesIntact)
<1> SUFFICES ASSUME ~ StreamMode PROVE Spec => []MessagesIntact
  OBVIOUS
<1>1. ASSUME IInv, MessageInv PROVE MessagesIntact
  <2> SUFFICES ASSUME NEW e \in End
               PROVE  /\ IsPrefix(Messages(read[e]), sent[Peer(e)])
                      /\ read[e] # <<>> => Last(read[e]).frg = 0
    BY DEF MessagesIntact
  <2>1. TypeOK /\ InOrder
    BY <1>1 DEF IInv
  <2>2. PICK d \in End : d = Peer(e)
    BY EndPeer
  <2>3. PICK log \in Seq(Segment) :
          /\ log = Log(d) /\ Len(read[e]) \in 0 .. Len(log)
          /\ \A i \in 1 .. Len(read[e]) : read[e][i] = log[i]
    BY <2>1, <2>2, ReadIsLog
  <2>4. PICK r \in Seq(Segment) : r = read[e]
    BY <2>1 DEF TypeOK
  <2>5. PICK k \in Nat, l \in Nat : k = Len(r) /\ l = Len(log) /\ k \in 0 .. l
    BY <2>3, <2>4, LenProperties
  <2>6. PICK acc : Collects(acc, log) /\ acc[l] = [done |-> sent[d], part |-> <<>>]
    BY <1>1, <2>3, <2>5 DEF MessageInv, Whole, Completes
  <2>7. /\ acc \in [0 .. l -> Progress] /\ acc[0] = NoMessages
        /\ \A i \in 1 .. l : acc[i] = Gather(acc[i - 1], log[i])
    BY <2>5, <2>6 DEF Collects
  <2> DEFINE part == [i \in 0 .. k |-> acc[i]]
  <2>8. Collects(part, r)
    <3>1. part \in [0 .. k -> Progress] /\ part[0] = NoMessages
      BY <2>5, <2>7
    <3>2. ASSUME NEW i \in 1 .. k PROVE part[i] = Gather(part[i - 1], r[i])
      <4>1. i \in 1 .. l /\ i \in 0 .. k /\ i - 1 \in 0 .. k /\ r[i] = log[i]
        BY <2>3, <2>4, <2>5
      <4> QED
        BY <2>7, <4>1
    <3> QED
      BY <2>5, <3>1, <3>2 DEF Collects
  <2>9. Messages(r) = acc[k].done
    <3>1. Messages(r) = part[k].done
      BY <2>5, <2>8, MessagesOf
    <3> QED
      BY <2>5, <3>1
  <2>10. /\ Len(acc[k].done) <= Len(acc[l].done)
         /\ \A i \in 1 .. Len(acc[k].done) : acc[l].done[i] = acc[k].done[i]
    BY <2>5, <2>6, DoneGrows
  <2>11. acc[k].done \in Seq(Seq(Nat)) /\ acc[l].done \in Seq(Seq(Nat)) /\ acc[l].done = sent[d]
    <3>1. k \in 0 .. l /\ l \in 0 .. l
      BY <2>5
    <3>2. acc[k] \in Progress /\ acc[l] \in Progress
      BY <2>7, <3>1
    <3> QED
      BY <2>6, <3>2 DEF Progress
  <2>12. IsPrefix(Messages(r), sent[d])
    BY <2>9, <2>10, <2>11, PrefixByElements
  <2> QED
    BY <1>1, <2>2, <2>4, <2>12 DEF MessageInv, ReadEnds
<1> QED
  BY <1>1, InitMessages, StepMessages, Invariance, PTL DEF Spec

-----------------------------------------------------------------------------
(* Stream mode: the bytes of the log                                       *)

\* The payloads of segments.
Data(segs) == [i \in DOMAIN segs |-> segs[i].data]

\* g tells what the first i of seqs are, one after the other; all are bytes.
Runs(g, seqs, bytes) ==
  /\ g \in [0 .. Len(seqs) -> Seq(Nat)]
  /\ g[0] = <<>>
  /\ \A i \in 1 .. Len(seqs) : g[i] = g[i - 1] \o seqs[i]
  /\ g[Len(seqs)] = bytes
Carries(seqs, bytes) == \E g : Runs(g, seqs, bytes)

LEMMA DataType ==
  ASSUME NEW segs \in Seq(Segment)
  PROVE  /\ Data(segs) \in Seq(Seq(Nat)) /\ Len(Data(segs)) = Len(segs)
         /\ \A i \in 1 .. Len(segs) : Data(segs)[i] = segs[i].data
<1>1. PICK n \in Nat : n = Len(segs)
  BY LenProperties
<1>2. DOMAIN segs = 1 .. n /\ \A i \in 1 .. n : segs[i] \in Segment
  BY <1>1, LenProperties, ElementOfSeq
<1>3. \A i \in 1 .. n : segs[i].data \in Seq(Nat)
  BY <1>2 DEF Segment
<1>4. Data(segs) \in [1 .. n -> Seq(Nat)]
  BY <1>2, <1>3 DEF Data
<1>5. Data(segs) \in Seq(Seq(Nat)) /\ Len(Data(segs)) = n
  BY <1>4, FunctionIsSeq
<1>6. \A i \in 1 .. n : Data(segs)[i] = segs[i].data
  BY <1>2 DEF Data
<1> QED
  BY <1>1, <1>5, <1>6

\* What is carried is a sequence of bytes.
LEMMA CarriedType ==
  ASSUME NEW seqs \in Seq(Seq(Nat)), NEW bytes, Carries(seqs, bytes)
  PROVE  bytes \in Seq(Nat)
<1>1. PICK n \in Nat : n = Len(seqs)
  BY LenProperties
<1>2. PICK g : Runs(g, seqs, bytes)
  BY DEF Carries
<1>3. g \in [0 .. n -> Seq(Nat)] /\ g[n] = bytes
  BY <1>1, <1>2 DEF Runs
<1>4. n \in 0 .. n
  OBVIOUS
<1> QED
  BY <1>3, <1>4

\* What sequences carry is what FlattenSeq makes of them.
LEMMA CarriedIsFlat ==
  ASSUME NEW seqs \in Seq(Seq(Nat)), NEW bytes, Carries(seqs, bytes)
  PROVE  FlattenSeq(seqs) = bytes
<1>1. PICK g : Runs(g, seqs, bytes)
  BY DEF Carries
<1>2. Partial(seqs, g) /\ g[Len(seqs)] = bytes
  BY <1>1 DEF Runs, Partial
<1> QED
  BY <1>2, Flattening

\* Two sequences of sequences, one after the other, carry the bytes of both.
LEMMA CarriesJoin ==
  ASSUME NEW s \in Seq(Seq(Nat)), NEW t \in Seq(Seq(Nat)), NEW all, JoinOf(all, s, t),
         NEW x, NEW y, Carries(s, x), Carries(t, y)
  PROVE  Carries(all, x \o y)
<1>1. PICK a \in Nat, b \in Nat : a = Len(s) /\ b = Len(t) /\ Len(all) = a + b
  BY LenProperties DEF JoinOf
<1>2. /\ \A i \in 1 .. a : all[i] = s[i]
      /\ \A i \in 1 .. b : all[a + i] = t[i]
  BY <1>1 DEF JoinOf
<1>3. PICK g : Runs(g, s, x)
  BY DEF Carries
<1>4. PICK h : Runs(h, t, y)
  BY DEF Carries
<1>5. /\ g \in [0 .. a -> Seq(Nat)] /\ g[0] = <<>> /\ g[a] = x
      /\ \A i \in 1 .. a : g[i] = g[i - 1] \o s[i]
  BY <1>1, <1>3 DEF Runs
<1>6. /\ h \in [0 .. b -> Seq(Nat)] /\ h[0] = <<>> /\ h[b] = y
      /\ \A i \in 1 .. b : h[i] = h[i - 1] \o t[i]
  BY <1>1, <1>4 DEF Runs
<1>7. x \in Seq(Nat) /\ \A i \in 1 .. b : t[i] \in Seq(Nat)
  BY <1>1, CarriedType, ElementOfSeq
<1> DEFINE f == [i \in 0 .. a + b |-> IF i <= a THEN g[i] ELSE x \o h[i - a]]
<1>8. ASSUME NEW j \in 0 .. b PROVE f[a + j] = x \o h[j] /\ x \o h[j] \in Seq(Nat)
  <2>1. a + j \in 0 .. a + b /\ (a + j) - a = j /\ h[j] \in Seq(Nat)
    BY <1>6
  <2>2. x \o h[j] \in Seq(Nat)
    BY <1>7, <2>1, ConcatProperties
  <2>3. CASE j = 0
    <3>1. f[a + j] = x
      BY <1>5, <2>1, <2>3
    <3>2. x \o h[j] = x
      BY <1>6, <1>7, <2>3, ConcatEmptySeq
    <3> QED
      BY <2>2, <3>1, <3>2
  <2>4. CASE j # 0
    <3>1. ~ (a + j <= a)
      BY <2>4
    <3> QED
      BY <2>1, <2>2, <3>1
  <2> QED
    BY <2>3, <2>4
<1>9. \A i \in 0 .. a : f[i] = g[i]
  OBVIOUS
<1>10. DOMAIN f = 0 .. a + b
  OBVIOUS
<1>11. f = [i \in 0 .. a + b |-> f[i]]
  OBVIOUS
<1> HIDE DEF f
<1>12. ASSUME NEW i \in 0 .. a + b PROVE f[i] \in Seq(Nat)
  <2>1. CASE i <= a
    BY <1>5, <1>9, <2>1
  <2>2. CASE i > a
    <3>1. i - a \in 0 .. b /\ a + (i - a) = i
      BY <2>2
    <3> QED
      BY <1>8, <3>1
  <2> QED
    BY <2>1, <2>2
<1>13. f \in [0 .. a + b -> Seq(Nat)]
  BY <1>11, <1>12
<1>14. ASSUME NEW i \in 1 .. a + b PROVE f[i] = f[i - 1] \o all[i]
  <2>1. CASE i <= a
    <3>1. i \in 1 .. a /\ i \in 0 .. a /\ i - 1 \in 0 .. a
      BY <2>1
    <3> QED
      BY <1>2, <1>5, <1>9, <3>1
  <2>2. CASE ~ (i <= a)
    <3>1. PICK j \in 1 .. b : i = a + j
      <4>1. i - a \in 1 .. b /\ i = a + (i - a)
        BY <2>2
      <4> QED
        BY <4>1
    <3>2. j \in 0 .. b /\ j - 1 \in 0 .. b /\ i - 1 = a + (j - 1)
      BY <3>1
    <3>3. f[i] = x \o h[j] /\ f[i - 1] = x \o h[j - 1]
      BY <1>8, <3>1, <3>2
    <3>4. all[i] = t[j] /\ t[j] \in Seq(Nat) /\ h[j - 1] \in Seq(Nat) /\ h[j] = h[j - 1] \o t[j]
      BY <1>2, <1>6, <1>7, <3>1, <3>2
    <3>5. (x \o h[j - 1]) \o t[j] = x \o (h[j - 1] \o t[j])
      <4>1. PICK u \in Seq(Nat), v \in Seq(Nat) : u = h[j - 1] /\ v = t[j]
        BY <3>4
      <4>2. (x \o u) \o v = x \o (u \o v)
        <5>1. Then(Then(x, u), v) = Then(x, Then(u, v))
          BY <1>7, ThenIs
        <5> QED
          BY <5>1, Zenon DEF Then
      <4> QED
        BY <4>1, <4>2
    <3> QED
      BY <3>3, <3>4, <3>5
  <2> QED
    BY <2>1, <2>2
<1>15. f[0] = <<>> /\ f[a + b] = x \o y
  <2>1. 0 \in 0 .. a /\ b \in 0 .. b
    OBVIOUS
  <2>2. f[0] = g[0] /\ f[a + b] = x \o h[b]
    BY <1>8, <1>9, <2>1
  <2> QED
    BY <1>5, <1>6, <2>2
<1>16. Runs(f, all, x \o y)
  BY <1>1, <1>13, <1>14, <1>15 DEF Runs
<1> QED
  BY <1>16 DEF Carries

\* The first k of the sequences carry the beginning of what all carry.
LEMMA CarriesPrefix ==
  ASSUME NEW seqs \in Seq(Seq(Nat)), NEW bytes, Carries(seqs, bytes),
         NEW first \in Seq(Seq(Nat)), Len(first) \in 0 .. Len(seqs),
         \A i \in 1 .. Len(first) : first[i] = seqs[i]
  PROVE  \E part : Carries(first, part) /\ IsPrefix(part, bytes)
<1>1. PICK n \in Nat, k \in Nat : n = Len(seqs) /\ k = Len(first) /\ k \in 0 .. n
  BY LenProperties
<1>2. PICK g : Runs(g, seqs, bytes)
  BY DEF Carries
<1>3. /\ g \in [0 .. n -> Seq(Nat)] /\ g[0] = <<>> /\ g[n] = bytes
      /\ \A i \in 1 .. n : g[i] = g[i - 1] \o seqs[i]
  BY <1>1, <1>2 DEF Runs
<1>4. \A i \in 1 .. n : seqs[i] \in Seq(Nat)
  BY <1>1, ElementOfSeq
<1> DEFINE h == [i \in 0 .. k |-> g[i]]
<1>5. Runs(h, first, g[k])
  <2>1. h \in [0 .. k -> Seq(Nat)] /\ h[0] = <<>> /\ h[k] = g[k]
    BY <1>1, <1>3
  <2>2. ASSUME NEW i \in 1 .. k PROVE h[i] = h[i - 1] \o first[i]
    <3>1. i \in 1 .. n /\ i \in 0 .. k /\ i - 1 \in 0 .. k /\ first[i] = seqs[i]
      BY <1>1
    <3> QED
      BY <1>3, <3>1
  <2> HIDE DEF h
  <2> QED
    BY <1>1, <2>1, <2>2 DEF Runs
<1>6. PICK s \in Seq(Nat), l \in Nat : s = g[k] /\ l = Len(s)
  BY <1>1, <1>3, LenProperties
<1> DEFINE Begins(j) == l <= Len(g[j]) /\ \A i \in 1 .. l : g[j][i] = s[i]
           T == {j \in k .. n : ~ Begins(j)}
<1>7. Begins(k)
  BY <1>6
<1>8. ASSUME T # {} PROVE FALSE
  <2>1. T \subseteq Nat
    BY <1>1
  <2>2. \E j \in T : \A i \in T : j <= i
    <3> HIDE DEF T
    <3> QED
      BY <1>8, <2>1, Least
  <2>3. PICK j \in T : \A i \in T : j <= i
    BY <2>2
  <2>4. j \in k .. n /\ ~ Begins(j)
    OBVIOUS
  <2>5. j # k
    BY <1>7, <2>4
  <2>6. PICK p \in k .. n : j = p + 1 /\ p \in 0 .. n /\ j \in 1 .. n
    <3>1. j - 1 \in k .. n /\ j = (j - 1) + 1 /\ j - 1 \in 0 .. n /\ j \in 1 .. n
      BY <1>1, <2>4, <2>5
    <3> QED
      BY <3>1
  <2>7. ~ (j <= p)
    BY <1>1, <2>6
  <2>8. Begins(p)
    BY <2>3, <2>6, <2>7
  <2>9. PICK u \in Seq(Nat), v \in Seq(Nat) : u = g[p] /\ v = seqs[j] /\ g[j] = u \o v
    <3>1. j - 1 = p
      BY <2>6
    <3> QED
      BY <1>3, <1>4, <2>6, <3>1
  <2>10. PICK all \in Seq(Nat) : JoinOf(all, u, v)
    BY Join
  <2>11. PICK c \in Nat, d \in Nat : c = Len(u) /\ d = Len(v) /\ Len(all) = c + d
    BY <2>10, LenProperties DEF JoinOf
  <2>12. g[j] = all /\ \A i \in 1 .. c : all[i] = u[i]
    BY <2>9, <2>10, <2>11 DEF JoinOf
  <2>13. l <= c /\ \A i \in 1 .. l : u[i] = s[i]
    BY <2>8, <2>9, <2>11
  <2>14. Begins(j)
    BY <1>6, <2>11, <2>12, <2>13
  <2> QED
    BY <2>4, <2>14
<1>9. Begins(n)
  <2>1. n \in k .. n
    BY <1>1
  <2> QED
    BY <1>8, <2>1
<1>10. IsPrefix(s, bytes)
  <2>1. bytes \in Seq(Nat)
    BY CarriedType
  <2> QED
    BY <1>3, <1>6, <1>9, <2>1, PrefixByElements
<1> QED
  BY <1>5, <1>6, <1>10 DEF Carries

\* The fragments of a message carry the message.
LEMMA FragmentsCarry ==
  ASSUME NEW m \in Seq(Nat), m # <<>>, NEW frags \in Seq(Segment), CutUp(m, frags)
  PROVE  Carries(Data(frags), m)
<1>1. PICK c \in Nat : c = FragCount(Len(m)) /\ c >= 1
  BY FragCountBounds
<1>2. /\ \A i \in 1 .. c : /\ Begun(m, i - 1) \in Seq(Nat)
                           /\ Begun(m, i) = Begun(m, i - 1) \o frags[i].data
      /\ Begun(m, 0) = <<>> /\ Begun(m, c) = m /\ Len(frags) = c
  BY <1>1 DEF CutUp
<1>3. Len(Data(frags)) = c /\ \A i \in 1 .. c : Data(frags)[i] = frags[i].data
  BY <1>2, DataType
<1>4. ASSUME NEW i \in 0 .. c PROVE Begun(m, i) \in Seq(Nat)
  <2>1. CASE i = c
    BY <1>2, <2>1
  <2>2. CASE i # c
    <3>1. i + 1 \in 1 .. c /\ (i + 1) - 1 = i
      BY <2>2
    <3>2. Begun(m, (i + 1) - 1) \in Seq(Nat)
      BY <1>2, <3>1
    <3> QED
      BY <3>1, <3>2
  <2> QED
    BY <2>1, <2>2
<1> DEFINE g == [i \in 0 .. c |-> Begun(m, i)]
<1>5. g \in [0 .. c -> Seq(Nat)] /\ g[0] = <<>> /\ g[c] = m
  <2>1. 0 \in 0 .. c /\ c \in 0 .. c
    OBVIOUS
  <2> QED
    BY <1>2, <1>4, <2>1
<1>6. ASSUME NEW i \in 1 .. c PROVE g[i] = g[i - 1] \o Data(frags)[i]
  <2>1. i \in 0 .. c /\ i - 1 \in 0 .. c
    OBVIOUS
  <2> QED
    BY <1>2, <1>3, <2>1
<1> HIDE DEF g
<1>7. Runs(g, Data(frags), m)
  BY <1>3, <1>5, <1>6 DEF Runs
<1> QED
  BY <1>7 DEF Carries

\* Concatenation of bytes, and of segments, is associative.
LEMMA ConcatThree ==
  ASSUME NEW u \in Seq(Nat), NEW v \in Seq(Nat), NEW x \in Seq(Nat)
  PROVE  (u \o v) \o x = u \o (v \o x)
<1>1. Then(Then(u, v), x) = Then(u, Then(v, x))
  BY ThenIs
<1> QED
  BY <1>1, Zenon DEF Then

LEMMA ConcatSegments ==
  ASSUME NEW u \in Seq(Segment), NEW v \in Seq(Segment), NEW x \in Seq(Segment)
  PROVE  (u \o v) \o x = u \o (v \o x)
<1>1. Then(Then(u, v), x) = Then(u, Then(v, x))
  BY ThenIs
<1> QED
  BY <1>1, Zenon DEF Then

\* Bytes appended to the last segment are carried behind the others.
LEMMA FillCarries ==
  ASSUME NEW old \in Seq(Segment), NEW q \in Seq(Segment), q # <<>>,
         NEW x \in Seq(Nat), NEW filled \in Seq(Segment), Filled(q, x, filled),
         NEW log \in Seq(Segment), JoinOf(log, old, q),
         NEW more \in Seq(Segment), JoinOf(more, old, filled),
         NEW bytes, Carries(Data(log), bytes)
  PROVE  Carries(Data(more), bytes \o x)
<1>1. PICK a \in Nat, b \in Nat :
        a = Len(old) /\ b = Len(q) /\ b = Len(filled) /\ b # 0
  BY LenProperties, EmptySeq DEF Filled
<1>2. /\ Len(log) = a + b /\ Len(more) = a + b
      /\ \A i \in 1 .. a : log[i] = old[i] /\ more[i] = old[i]
      /\ \A i \in 1 .. b : log[a + i] = q[i] /\ more[a + i] = filled[i]
  BY <1>1 DEF JoinOf
<1>3. /\ Data(log) \in Seq(Seq(Nat)) /\ Len(Data(log)) = a + b /\ Len(Data(more)) = a + b
      /\ \A i \in 1 .. a + b : Data(log)[i] = log[i].data /\ Data(more)[i] = more[i].data
  BY <1>2, DataType
<1>4. PICK last \in 1 .. a + b : last = a + b /\ last \in Nat
  BY <1>1
<1>5. more[last].data = log[last].data \o x /\ log[last].data \in Seq(Nat)
  <2>1. b \in 1 .. b
    BY <1>1
  <2>2. filled[b].data = q[b].data \o x /\ log[last] = q[b] /\ more[last] = filled[b]
    BY <1>1, <1>2, <1>4, <2>1 DEF Filled
  <2>3. q[b] \in Segment
    BY <1>1, <2>1, ElementOfSeq
  <2> QED
    BY <2>2, <2>3 DEF Segment
<1>6. ASSUME NEW i \in 1 .. last - 1 PROVE more[i] = log[i]
  <2>1. CASE i <= a
    <3>1. i \in 1 .. a
      BY <2>1
    <3> QED
      BY <1>2, <3>1
  <2>2. CASE ~ (i <= a)
    <3>1. PICK j \in 1 .. b : i = a + j /\ j # b
      <4>1. i - a \in 1 .. b /\ i = a + (i - a) /\ i - a # b
        BY <1>4, <2>2
      <4> QED
        BY <4>1
    <3>2. filled[j] = q[j]
      BY <1>1, <3>1 DEF Filled
    <3> QED
      BY <1>2, <3>1, <3>2
  <2> QED
    BY <2>1, <2>2
<1>7. PICK g : Runs(g, Data(log), bytes)
  BY DEF Carries
<1>8. /\ g \in [0 .. last -> Seq(Nat)] /\ g[0] = <<>> /\ g[last] = bytes
      /\ \A i \in 1 .. last : g[i] = g[i - 1] \o log[i].data
  BY <1>3, <1>4, <1>7 DEF Runs
<1>9. bytes \in Seq(Nat)
  BY <1>3, CarriedType
<1>10. PICK both \in Seq(Nat) : both = bytes \o x
  BY <1>9, ConcatProperties
<1> DEFINE f == [i \in 0 .. last |-> IF i = last THEN both ELSE g[i]]
<1>11. f \in [0 .. last -> Seq(Nat)] /\ f[0] = <<>> /\ f[last] = both
  <2>1. last # 0 /\ 0 \in 0 .. last /\ last \in 0 .. last
    BY <1>4
  <2> QED
    BY <1>8, <1>10, <2>1
<1>12. \A i \in 0 .. last - 1 : f[i] = g[i]
  BY <1>4
<1> HIDE DEF f
<1>13. ASSUME NEW i \in 1 .. last PROVE f[i] = f[i - 1] \o more[i].data
  <2>1. i - 1 \in 0 .. last - 1 /\ i - 1 \in 0 .. last
    BY <1>4
  <2>2. f[i - 1] = g[i - 1]
    BY <1>12, <2>1
  <2>3. CASE i = last
    <3>1. PICK u \in Seq(Nat), v \in Seq(Nat) : u = g[i - 1] /\ v = log[i].data
      BY <1>5, <1>8, <2>1, <2>3
    <3>2. bytes = u \o v /\ more[i].data = v \o x
      BY <1>5, <1>8, <2>3, <3>1
    <3>3. (u \o v) \o x = u \o (v \o x)
      BY ConcatThree
    <3> QED
      BY <1>10, <1>11, <2>2, <2>3, <3>1, <3>2, <3>3
  <2>4. CASE i # last
    <3>1. i \in 1 .. last - 1 /\ i \in 0 .. last - 1
      BY <1>4, <2>4
    <3> QED
      BY <1>6, <1>8, <1>12, <2>2, <3>1
  <2> QED
    BY <2>3, <2>4
<1>14. Runs(f, Data(more), bytes \o x)
  BY <1>3, <1>4, <1>10, <1>11, <1>13 DEF Runs
<1> QED
  BY <1>14 DEF Carries

\* The payloads of two sequences of segments, one after the other.
LEMMA DataJoin ==
  ASSUME NEW s \in Seq(Segment), NEW t \in Seq(Segment),
         NEW all \in Seq(Segment), JoinOf(all, s, t)
  PROVE  JoinOf(Data(all), Data(s), Data(t))
<1>1. PICK a \in Nat, b \in Nat : a = Len(s) /\ b = Len(t) /\ Len(all) = a + b
  BY LenProperties DEF JoinOf
<1>2. /\ \A i \in 1 .. a : all[i] = s[i]
      /\ \A i \in 1 .. b : all[a + i] = t[i]
  BY <1>1 DEF JoinOf
<1>3. /\ Data(s) \in Seq(Seq(Nat)) /\ Len(Data(s)) = a
      /\ \A i \in 1 .. a : Data(s)[i] = s[i].data
  BY <1>1, DataType
<1>4. /\ Data(t) \in Seq(Seq(Nat)) /\ Len(Data(t)) = b
      /\ \A i \in 1 .. b : Data(t)[i] = t[i].data
  BY <1>1, DataType
<1>5. /\ Data(all) \in Seq(Seq(Nat)) /\ Len(Data(all)) = a + b
      /\ \A i \in 1 .. a + b : Data(all)[i] = all[i].data
  BY <1>1, DataType
<1>6. ASSUME NEW i \in 1 .. a PROVE Data(all)[i] = Data(s)[i]
  <2>1. i \in 1 .. a + b
    OBVIOUS
  <2> QED
    BY <1>2, <1>3, <1>5, <2>1
<1>7. ASSUME NEW i \in 1 .. b PROVE Data(all)[a + i] = Data(t)[i]
  <2>1. a + i \in 1 .. a + b
    OBVIOUS
  <2> QED
    BY <1>2, <1>4, <1>5, <2>1
<1>8. PICK whole \in Seq(Seq(Nat)) : JoinOf(whole, Data(s), Data(t))
  BY <1>3, <1>4, Join
<1>9. whole = Data(all)
  <2>1. Len(whole) = a + b /\ \A i \in 1 .. a : whole[i] = Data(s)[i]
    BY <1>3, <1>4, <1>8 DEF JoinOf
  <2>2. \A i \in 1 .. b : whole[a + i] = Data(t)[i]
    BY <1>3, <1>4, <1>8 DEF JoinOf
  <2>3. ASSUME NEW i \in 1 .. a + b PROVE whole[i] = Data(all)[i]
    <3>1. CASE i <= a
      <4>1. i \in 1 .. a
        BY <3>1
      <4> QED
        BY <1>6, <2>1, <4>1
    <3>2. CASE ~ (i <= a)
      <4>1. PICK j \in 1 .. b : i = a + j
        <5>1. i - a \in 1 .. b /\ i = a + (i - a)
          BY <3>2
        <5> QED
          BY <5>1
      <4> QED
        BY <1>7, <2>2, <4>1
    <3> QED
      BY <3>1, <3>2
  <2> QED
    BY <1>5, <2>1, <2>3, SeqEqual
<1> QED
  BY <1>8, <1>9

-----------------------------------------------------------------------------
(* Stream mode: the invariant                                              *)

\* The log carries the bytes of the messages that ikcp_send accepted.
StreamInv ==
  \A e \in End : \E bytes : Carries(Data(Log(e)), bytes) /\ Carries(sent[e], bytes)

\* A sequence of no bytes after no bytes: what nothing carries.
LEMMA NothingCarries ==
  ASSUME NEW seqs \in Seq(Seq(Nat)), Len(seqs) = 0
  PROVE  Carries(seqs, <<>>)
<1>1. <<>> \in Seq(Nat)
  BY EmptySeq
<1> DEFINE g == [i \in 0 .. 0 |-> <<>>]
<1>2. g \in [0 .. 0 -> Seq(Nat)] /\ g[0] = <<>>
  BY <1>1
<1> HIDE DEF g
<1>3. Runs(g, seqs, <<>>)
  BY <1>2 DEF Runs
<1> QED
  BY <1>3 DEF Carries

\* One sequence of bytes carries itself.
LEMMA OneCarries ==
  ASSUME NEW m \in Seq(Nat)
  PROVE  Carries(<<m>>, m)
<1>1. <<>> \in Seq(Nat) /\ <<>> \o m = m
  BY EmptySeq, ConcatEmptySeq
<1> DEFINE g == [i \in 0 .. 1 |-> IF i = 0 THEN <<>> ELSE m]
<1>2. g \in [0 .. 1 -> Seq(Nat)] /\ g[0] = <<>> /\ g[1] = m
  BY <1>1
<1> HIDE DEF g
<1>3. Len(<<m>>) = 1 /\ <<m>>[1] = m
  OBVIOUS
<1>4. ASSUME NEW i \in 1 .. 1 PROVE g[i] = g[i - 1] \o <<m>>[i]
  <2>1. i = 1 /\ i - 1 = 0
    OBVIOUS
  <2> QED
    BY <1>1, <1>2, <1>3, <2>1
<1>5. Runs(g, <<m>>, m)
  BY <1>2, <1>3, <1>4 DEF Runs
<1> QED
  BY <1>5 DEF Carries

\* What is sent after a message carries its bytes after the others.
LEMMA AppendCarries ==
  ASSUME NEW msgs \in Seq(Seq(Nat)), NEW m \in Seq(Nat), NEW bytes, Carries(msgs, bytes)
  PROVE  Carries(Append(msgs, m), bytes \o m)
<1>1. <<m>> \in Seq(Seq(Nat)) /\ Append(msgs, m) = msgs \o <<m>>
  BY AppendIsConcat
<1>2. PICK all \in Seq(Seq(Nat)) : JoinOf(all, msgs, <<m>>)
  BY <1>1, Join
<1>3. all = Append(msgs, m)
  BY <1>1, <1>2 DEF JoinOf
<1>4. Carries(<<m>>, m)
  BY OneCarries
<1> QED
  BY <1>1, <1>2, <1>3, <1>4, CarriesJoin

\* No rest of an acceptable message is refused.
LEMMA RestAccepted ==
  ASSUME NEW m \in Seq(Nat), m # <<>>, FragCount(Len(m)) <= MaxFrag,
         NEW rest \in Seq(Nat), Len(rest) <= Len(m)
  PROVE  Accepted(rest)
<1>1. CASE rest = <<>>
  BY <1>1 DEF Accepted
<1>2. CASE rest # <<>>
  <2>1. PICK c \in Nat, d \in Nat, l \in Nat, k \in Nat :
          /\ c = FragCount(Len(m)) /\ d = FragCount(Len(rest)) /\ l = Len(m) /\ k = Len(rest)
          /\ d >= 1 /\ (d - 1) * Mss < k /\ l <= c * Mss
    BY <1>2, FragCountBounds, LenProperties
  <2>2. ~ (c <= d - 1)
    <3>1. ASSUME c <= d - 1 PROVE FALSE
      <4>1. d - 1 \in Nat /\ Mss \in Nat
        <5>1. d >= 1
          BY <2>1
        <5> QED
          BY <5>1, KcpAssumption
      <4>2. c * Mss <= (d - 1) * Mss /\ c * Mss \in Nat /\ (d - 1) * Mss \in Nat
        BY <3>1, <4>1, TimesMonotone
      <4> QED
        BY <2>1, <4>2
    <3> QED
      BY <3>1
  <2>3. d <= c /\ MaxFrag \in Nat
    BY <2>2, KcpAssumption
  <2> QED
    BY <2>1, <2>3 DEF Accepted
<1> QED
  BY <1>1, <1>2

\* ikcp_send puts exactly the bytes of m behind the log: the first into the tail
\* segment, if that is not numbered yet, the others into new segments.
LEMMA SendKeepsStream ==
  ASSUME IInv, IInv', StreamInv, \A l \in Lengths : FragCount(l) <= MaxFrag,
         NEW e \in End, AppSend(e)
  PROVE  StreamInv'
<1>1. TypeOK /\ TypeOK'
  BY DEF IInv
<1>2. PICK m \in Seq(Nat), n \in Nat, rest \in Seq(Nat) : Sends(e, m, n, rest)
  BY SendEffect
<1>3. PICK q \in Seq(Segment), old \in Seq(Segment), msgs \in Seq(Seq(Nat)) :
        q = snd_queue[e] /\ old = numbered[e] /\ msgs = sent[e]
  BY <1>1 DEF TypeOK
<1>4. /\ m # <<>> /\ FragCount(Len(m)) <= MaxFrag
      /\ n <= Len(m) /\ n = TailRoom(q, m) /\ rest = SubSeq(m, n + 1, Len(m))
  BY <1>2, <1>3 DEF Sends
<1>5. n \in 0 .. Len(m) /\ Len(m) \in Nat
  BY <1>4, LenProperties
<1>6. PICK x \in Seq(Nat) : x = SubSeq(m, 1, n) /\ m = x \o rest /\ Len(rest) <= Len(m)
  <2>1. PICK front \in Seq(Nat), back \in Seq(Nat) : CutInto(m, n, front, back)
    BY <1>5, Cut
  <2>2. front = SubSeq(m, 1, n) /\ back = rest /\ Len(back) = Len(m) - n
    BY <1>4, <2>1 DEF CutInto
  <2>3. front \o rest = m
    BY <1>4, <1>5, <2>2, CutWhole
  <2>4. Len(rest) <= Len(m)
    BY <1>5, <2>2
  <2> QED
    BY <2>2, <2>3, <2>4
<1>7. Accepted(rest)
  BY <1>4, <1>6, RestAccepted
<1>8. PICK bytes \in Seq(Nat) : Carries(Data(old \o q), bytes) /\ Carries(msgs, bytes)
  BY <1>3, CarriedType DEF StreamInv, Log
<1>9. PICK log \in Seq(Segment) : log = old \o q /\ JoinOf(log, old, q)
  <2>1. PICK log \in Seq(Segment) : JoinOf(log, old, q)
    BY Join
  <2> QED
    BY <2>1 DEF JoinOf
<1>10. PICK filled \in Seq(Segment), more \in Seq(Segment) :
         /\ filled = FillTail(q, m, n) /\ more = old \o filled
         /\ Carries(Data(more), bytes \o x)
  <2>1. CASE n = 0
    <3>1. x = <<>> /\ FillTail(q, m, n) = q
      BY <1>6, <2>1, SubSeqEmpty DEF FillTail
    <3>2. bytes \o x = bytes
      BY <3>1, ConcatEmptySeq
    <3> QED
      BY <1>8, <1>9, <3>1, <3>2
  <2>2. CASE n # 0
    <3>1. PICK filled \in Seq(Segment), y \in Seq(Nat) :
            q # <<>> /\ y = SubSeq(m, 1, n) /\ filled = FillTail(q, m, n) /\ Filled(q, y, filled)
      BY <1>4, <2>2, FillTailEffect
    <3>2. PICK more \in Seq(Segment) : JoinOf(more, old, filled)
      BY Join
    <3>3. Carries(Data(log), bytes) /\ Filled(q, x, filled)
      BY <1>6, <1>8, <1>9, <3>1
    <3>4. Carries(Data(more), bytes \o x)
      BY <1>9, <3>1, <3>2, <3>3, FillCarries
    <3>5. more = old \o filled
      BY <3>2 DEF JoinOf
    <3> QED
      BY <3>1, <3>4, <3>5
  <2> QED
    BY <2>1, <2>2
<1>11. PICK frags \in Seq(Segment) : frags = Added(rest) /\ Carries(Data(frags), rest)
  <2>1. CASE rest = <<>>
    <3>1. Added(rest) = <<>> /\ <<>> \in Seq(Segment) /\ Len(<<>>) = 0
      BY <2>1, EmptySeq DEF Added
    <3>2. Data(<<>>) \in Seq(Seq(Nat)) /\ Len(Data(<<>>)) = 0
      BY <3>1, DataType
    <3>3. Carries(Data(<<>>), <<>>)
      BY <3>2, NothingCarries
    <3> QED
      BY <2>1, <3>1, <3>3
  <2>2. CASE rest # <<>>
    <3>1. PICK frags \in Seq(Segment) : CutUp(rest, frags)
      BY <2>2, FragmentsCut
    <3>2. frags = Added(rest)
      BY <1>7, <2>2, <3>1 DEF CutUp, Added
    <3>3. Carries(Data(frags), rest)
      BY <2>2, <3>1, FragmentsCarry
    <3> QED
      BY <3>2, <3>3
  <2> QED
    BY <2>1, <2>2
<1>12. Log(e)' = more \o frags
  <2>1. snd_queue'[e] = filled \o frags /\ numbered'[e] = old
    BY <1>1, <1>2, <1>3, <1>10, <1>11 DEF Sends, TypeOK
  <2>2. (old \o filled) \o frags = old \o (filled \o frags)
    BY ConcatSegments
  <2> QED
    BY <1>10, <2>1, <2>2 DEF Log
<1>13. PICK all \in Seq(Segment) : all = Log(e)' /\ JoinOf(all, more, frags)
  <2>1. PICK all \in Seq(Segment) : JoinOf(all, more, frags)
    BY Join
  <2> QED
    BY <1>12, <2>1 DEF JoinOf
<1>14. Carries(Data(all), bytes \o m)
  <2>1. JoinOf(Data(all), Data(more), Data(frags))
    BY <1>13, DataJoin
  <2>2. Data(more) \in Seq(Seq(Nat)) /\ Data(frags) \in Seq(Seq(Nat))
    BY DataType
  <2>3. Carries(Data(all), (bytes \o x) \o rest)
    BY <1>10, <1>11, <2>1, <2>2, CarriesJoin
  <2>4. (bytes \o x) \o rest = bytes \o (x \o rest)
    BY ConcatThree
  <2> QED
    BY <1>6, <2>3, <2>4
<1>15. sent'[e] = Append(msgs, m) /\ Carries(Append(msgs, m), bytes \o m)
  <2>1. sent'[e] = Append(msgs, m)
    BY <1>1, <1>2, <1>3, <1>7 DEF Sends, TypeOK
  <2> QED
    BY <1>8, <2>1, AppendCarries
<1>16. ASSUME NEW d \in End
       PROVE  \E b : Carries(Data(Log(d)'), b) /\ Carries(sent'[d], b)
  <2>1. CASE d = e
    BY <1>13, <1>14, <1>15, <2>1
  <2>2. CASE d # e
    <3>1. Log(d)' = Log(d) /\ sent'[d] = sent[d]
      BY <1>1, <1>2, <2>2 DEF Sends, Log, TypeOK
    <3> QED
      BY <3>1 DEF StreamInv
  <2> QED
    BY <2>1, <2>2
<1> QED
  BY <1>16 DEF StreamInv, Data

\* Stream mode, and any mode: the bytes read are the first of the bytes that ikcp_send
\* accepted, though it rewrites the tail of its queue.  No message may be too long
\* for ikcp_send: one it refuses has left its first bytes in the tail.
THEOREM StreamStaysIntact ==
  (\A l \in Lengths : FragCount(l) <= MaxFrag) => (Spec => []StreamIntact)
<1> SUFFICES ASSUME \A l \in Lengths : FragCount(l) <= MaxFrag
             PROVE  Spec => []StreamIntact
  OBVIOUS
<1>1. Init => StreamInv
  <2> SUFFICES ASSUME Init, NEW e \in End
               PROVE  \E b : Carries(Data(Log(e)), b) /\ Carries(sent[e], b)
    BY DEF StreamInv
  <2>1. <<>> \in Seq(Segment) /\ <<>> \in Seq(Seq(Nat)) /\ Len(<<>>) = 0
    BY EmptySeq
  <2>2. Log(e) = <<>>
    <3>1. Log(e) = <<>> \o <<>>
      BY DEF Init, Log
    <3> QED
      BY <2>1, <3>1, ConcatEmptySeq
  <2>3. Data(<<>>) \in Seq(Seq(Nat)) /\ Len(Data(<<>>)) = 0
    BY <2>1, DataType
  <2>4. Carries(Data(<<>>), <<>>) /\ Carries(<<>>, <<>>)
    BY <2>1, <2>3, NothingCarries
  <2> QED
    BY <2>2, <2>4 DEF Init
<1>2. ASSUME IInv, StreamInv, [Next]_vars PROVE StreamInv'
  <2>1. IInv'
    BY <1>2, StepIInv
  <2>2. ASSUME NEW e \in End, AppSend(e) PROVE StreamInv'
    BY <1>2, <2>1, <2>2, SendKeepsStream
  <2>3. ASSUME sent' = sent, \A d \in End : Log(d)' = Log(d) PROVE StreamInv'
    BY <1>2, <2>3 DEF StreamInv, Data
  <2>4. ASSUME NEW e \in End, Flush(e) PROVE StreamInv'
    <3>1. sent' = sent
      BY <2>4 DEF Flush, FlushWith
    <3> QED
      BY <1>2, <2>3, <2>4, <3>1, FlushKeepsLog
  <2>5. ASSUME UNCHANGED sndVars PROVE StreamInv'
    BY <2>3, <2>5, LogUntouched
  <2>6. ASSUME NEW e \in End, Recv(e) \/ Input(e) PROVE StreamInv'
    BY <2>5, <2>6 DEF Recv, Input, InputAck, InputPush, InputWask, InputWins, Header
  <2>7. CASE UNCHANGED vars
    BY <2>5, <2>7 DEF vars
  <2> QED
    BY <1>2, <2>2, <2>4, <2>6, <2>7 DEF Next
<1>3. ASSUME IInv, StreamInv PROVE StreamIntact
  <2> SUFFICES ASSUME NEW e \in End PROVE IsPrefix(Bytes(read[e]), FlattenSeq(sent[Peer(e)]))
    BY DEF StreamIntact
  <2>1. TypeOK /\ InOrder
    BY <1>3 DEF IInv
  <2>2. PICK d \in End : d = Peer(e)
    BY EndPeer
  <2>3. PICK log \in Seq(Segment) :
          /\ log = Log(d) /\ Len(read[e]) \in 0 .. Len(log)
          /\ \A i \in 1 .. Len(read[e]) : read[e][i] = log[i]
    BY <2>1, <2>2, ReadIsLog
  <2>4. PICK r \in Seq(Segment), msgs \in Seq(Seq(Nat)) : r = read[e] /\ msgs = sent[d]
    BY <2>1 DEF TypeOK
  <2>5. PICK bytes : Carries(Data(log), bytes) /\ Carries(msgs, bytes)
    BY <1>3, <2>3, <2>4 DEF StreamInv
  <2>6. /\ Data(log) \in Seq(Seq(Nat)) /\ Len(Data(log)) = Len(log)
        /\ \A i \in 1 .. Len(log) : Data(log)[i] = log[i].data
    BY DataType
  <2>7. /\ Data(r) \in Seq(Seq(Nat)) /\ Len(Data(r)) = Len(r)
        /\ \A i \in 1 .. Len(r) : Data(r)[i] = r[i].data
    BY DataType
  <2>8. \A i \in 1 .. Len(r) : Data(r)[i] = Data(log)[i]
    <3>1. Len(log) \in Nat /\ Len(r) \in Nat
      BY LenProperties
    <3>2. \A i \in 1 .. Len(r) : i \in 1 .. Len(log) /\ r[i] = log[i]
      BY <2>3, <2>4, <3>1
    <3> QED
      BY <2>6, <2>7, <3>2
  <2>9. PICK part : Carries(Data(r), part) /\ IsPrefix(part, bytes)
    <3>1. Len(Data(r)) \in 0 .. Len(Data(log)) /\ Len(Data(r)) = Len(r)
      BY <2>3, <2>4, <2>6, <2>7
    <3> QED
      BY <2>5, <2>6, <2>7, <2>8, <3>1, CarriesPrefix
  <2>10. FlattenSeq(Data(r)) = part /\ FlattenSeq(msgs) = bytes
    BY <2>5, <2>7, <2>9, CarriedIsFlat
  <2>11. Bytes(r) = FlattenSeq(Data(r))
    BY DEF Bytes, Data
  <2> QED
    BY <2>2, <2>4, <2>9, <2>10, <2>11
<1> QED
  BY <1>1, <1>2, <1>3, Invariance, PTL DEF Spec

=============================================================================

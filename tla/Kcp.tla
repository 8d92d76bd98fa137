-------------------------------- MODULE Kcp --------------------------------
(***************************************************************************)
(* Two KCP control blocks (Sources/CKcp/ikcp.c) joined by a UDP path that  *)
(* loses, duplicates and reorders.                                         *)
(*                                                                         *)
(* Every function of the library that changes the protocol state is one    *)
(* action: ikcp_send, ikcp_recv, ikcp_flush and the four branches of       *)
(* ikcp_input.  Time is abstracted: which segments of snd_buf a flush      *)
(* sends again (timeout or fast ack), and whether a window probe is due,   *)
(* is any choice.  The congestion window is any value up to the send       *)
(* window.  Sequence numbers are not wrapped.  A datagram carries one      *)
(* segment.                                                                *)
(***************************************************************************)
EXTENDS Integers, Sequences, FiniteSets, SequencesExt

CONSTANTS
  A, B,          \* the two endpoints
  Mss,           \* kcp->mss, in bytes of the model
  MaxFrag,       \* most fragments ikcp_send cuts a message into (255)
  StreamMode,    \* kcp->stream
  SndWnd,        \* kcp->snd_wnd
  RcvWnd,        \* kcp->rcv_wnd
  WndMod,        \* modulus of the wnd field of a segment (2^16)
  InitRmtWnd,    \* the rmt_wnd ikcp_create assumes (IKCP_WND_RCV)
  NoCwnd,        \* kcp->nocwnd
  Lengths,       \* lengths of the messages the application sends
  MaxWritten,    \* bound: bytes each endpoint's application sends
  MaxFlight      \* bound: datagrams the path holds on the way to an endpoint

ASSUME KcpAssumption ==
  /\ A # B
  /\ {Mss, MaxFrag, SndWnd, RcvWnd, WndMod} \subseteq Nat \ {0}
  /\ InitRmtWnd \in Nat
  /\ {MaxWritten, MaxFlight} \subseteq [{A, B} -> Nat]
  /\ {StreamMode, NoCwnd} \subseteq BOOLEAN
  /\ Lengths \subseteq Nat \ {0}

End == {A, B}
Peer(e) == IF e = A THEN B ELSE A

VARIABLES
  snd_queue,     \* segments not numbered yet
  numbered,      \* every segment given a number; number sn is at sn + 1
  snd_buf,       \* the numbers sent and not acknowledged
  snd_una,       \* the first unacknowledged number
  rcv_nxt,       \* the next number the receive queue waits for
  rcv_buf,       \* segments received out of order, by number
  rcv_queue,     \* segments in order, not read yet
  acklist,       \* the numbers to acknowledge
  rmt_wnd,       \* the window the peer last advertised
  probe,         \* IKCP_ASK_SEND ("ask") and IKCP_ASK_TELL ("tell")
  probe_wait,    \* TRUE iff the probe timer is armed
  net,           \* datagrams on their way to each endpoint
  sent,          \* history: the messages ikcp_send accepted
  written,       \* history: bytes the application offered
  read           \* history: the segments ikcp_recv took, in order

sndVars == <<snd_queue, numbered, sent, written>>
ackVars == <<snd_buf, snd_una>>
rcvVars == <<rcv_nxt, rcv_buf, rcv_queue>>
wndVars == <<rmt_wnd, probe_wait>>
vars == <<sndVars, ackVars, rcvVars, wndVars, acklist, probe, net, read>>

Segment == [frg : Nat, data : Seq(Nat)]
snd_nxt(e) == Len(numbered[e])

\* A datagram: wnd and una are in the header of every command.
Packet == [cmd : {"PUSH"}, sn : Nat, seg : Segment, wnd : Nat, una : Nat]
            \cup [cmd : {"ACK"}, sn : Nat, wnd : Nat, una : Nat]
            \cup [cmd : {"WASK", "WINS"}, wnd : Nat, una : Nat]

NoSegments == [sn \in {} |-> <<>>]

Init ==
  /\ snd_queue = [e \in End |-> <<>>]
  /\ numbered = [e \in End |-> <<>>]
  /\ snd_buf = [e \in End |-> {}]
  /\ snd_una = [e \in End |-> 0]
  /\ rcv_nxt = [e \in End |-> 0]
  /\ rcv_buf = [e \in End |-> NoSegments]
  /\ rcv_queue = [e \in End |-> <<>>]
  /\ acklist = [e \in End |-> {}]
  /\ rmt_wnd = [e \in End |-> InitRmtWnd]
  /\ probe = [e \in End |-> {}]
  /\ probe_wait = [e \in End |-> FALSE]
  /\ net = [e \in End |-> {}]
  /\ sent = [e \in End |-> <<>>]
  /\ written = [e \in End |-> 0]
  /\ read = [e \in End |-> <<>>]

-----------------------------------------------------------------------------
(* ikcp_send                                                               *)

AtMost(a, b) == IF a <= b THEN a ELSE b

\* The number of fragments of n bytes.
FragCount(n) == IF n <= Mss THEN 1 ELSE (n + Mss - 1) \div Mss

\* Mistake: the countdown is one short, or one long.
FragmentsShort(m) ==
  [i \in 1 .. FragCount(Len(m)) |->
     [frg  |-> FragCount(Len(m)) - i - 1,
      data |-> SubSeq(m, (i - 1) * Mss + 1, AtMost(i * Mss, Len(m)))]]
FragmentsLong(m) ==
  [i \in 1 .. FragCount(Len(m)) |->
     [frg  |-> IF i = FragCount(Len(m)) THEN 0 ELSE FragCount(Len(m)) - i + 1,
      data |-> SubSeq(m, (i - 1) * Mss + 1, AtMost(i * Mss, Len(m)))]]

\* The fragments of m, counting down to 0 in message mode.
Fragments(m) ==
  [i \in 1 .. FragCount(Len(m)) |->
     [frg  |-> IF StreamMode THEN 0 ELSE FragCount(Len(m)) - i,
      data |-> SubSeq(m, (i - 1) * Mss + 1, AtMost(i * Mss, Len(m)))]]

\* How many bytes of m fit in the tail segment (stream mode only).
TailRoom(q, m) ==
  IF StreamMode /\ q # <<>> /\ Len(q[Len(q)].data) < Mss
  THEN AtMost(Len(m), Mss - Len(q[Len(q)].data)) ELSE 0

\* Mistake: the new bytes go in front of the old ones.
FillTailFront(q, m, n) ==
  IF n = 0 THEN q
  ELSE [q EXCEPT ![Len(q)] =
          [frg |-> 0, data |-> SubSeq(m, 1, n) \o q[Len(q)].data]]

\* q with the first n bytes of m appended to its tail segment.
FillTail(q, m, n) ==
  IF n = 0 THEN q
  ELSE [q EXCEPT ![Len(q)] =
          [frg |-> 0, data |-> q[Len(q)].data \o SubSeq(m, 1, n)]]

\* The tail is filled before the fragment count is checked: a message that
\* is then refused leaves its first bytes in the queue.
Send(e, m) ==
  LET q == snd_queue[e]
      n == TailRoom(q, m)
      rest == SubSeq(m, n + 1, Len(m))
      accepted == rest = <<>> \/ FragCount(Len(rest)) <= MaxFrag
  IN /\ snd_queue' = [snd_queue EXCEPT ![e] =
           FillTail(q, m, n) \o
             IF accepted /\ rest # <<>> THEN Fragments(rest) ELSE <<>>]
     /\ sent' = IF accepted THEN [sent EXCEPT ![e] = Append(@, m)] ELSE sent
     /\ written' = [written EXCEPT ![e] = @ + Len(m)]
     /\ UNCHANGED <<numbered, ackVars, rcvVars, wndVars, acklist, probe, net, read>>

\* The application's next n bytes; all bytes of a direction are distinct.
NextBytes(e, n) == [i \in 1 .. n |-> written[e] + i]

-----------------------------------------------------------------------------
(* Receive queue                                                           *)

\* Mistake: one segment per call, an if for the while.
MovesOne(n, nxt, buf, queue) ==
  n = IF nxt \in DOMAIN buf /\ Len(queue) < RcvWnd THEN 1 ELSE 0

\* The loop that moves segments from the front of rcv_buf to rcv_queue stops
\* after n of them.
Moves(n, nxt, buf, queue) ==
  /\ \A i \in 0 .. n - 1 : nxt + i \in DOMAIN buf /\ Len(queue) + i < RcvWnd
  /\ ~ (nxt + n \in DOMAIN buf /\ Len(queue) + n < RcvWnd)

\* Mistake: the head of rcv_buf moves whatever its number.
MoveHead(e, nxt, buf, queue) ==
  \E heads \in {{sn \in DOMAIN buf : \A x \in DOMAIN buf : sn <= x}} :
    /\ rcv_queue' = [rcv_queue EXCEPT ![e] = queue \o
                        IF heads = {} THEN <<>> ELSE <<buf[CHOOSE h \in heads : TRUE]>>]
    /\ rcv_buf' = [rcv_buf EXCEPT ![e] = Restrict(buf, DOMAIN buf \ heads)]
    /\ rcv_nxt' = [rcv_nxt EXCEPT ![e] = nxt + Cardinality(heads)]

\* Move what is ready of buf to queue, and store both.
MoveReady(e, nxt, buf, queue) ==
  \E n \in 0 .. RcvWnd :
    /\ Moves(n, nxt, buf, queue)
    /\ rcv_queue' = [rcv_queue EXCEPT ![e] = queue \o [i \in 1 .. n |-> buf[nxt + i - 1]]]
    /\ rcv_buf' = [rcv_buf EXCEPT ![e] =
                     Restrict(buf, DOMAIN buf \ (nxt .. nxt + n - 1))]
    /\ rcv_nxt' = [rcv_nxt EXCEPT ![e] = nxt + n]

\* Mistake: whatever is there can be read.
ReadableAny(q) == q # <<>>

\* ikcp_peeksize >= 0: by its head's fragment number the first message has
\* arrived whole.
Readable(q) == q # <<>> /\ (q[1].frg = 0 \/ Len(q) >= q[1].frg + 1)

\* The merge loop of ikcp_recv takes the first n segments.
Merges(n, q) ==
  /\ \A i \in 1 .. n - 1 : q[i].frg # 0
  /\ q[n].frg = 0 \/ n = Len(q)

\* ikcp_recv: take one message, refill the queue, and if the queue was full
\* announce the window at the next flush.
Recv(e) ==
  LET q == rcv_queue[e] IN
  /\ Readable(q)
  /\ \E n \in 1 .. Len(q) :
       /\ Merges(n, q)
       /\ read' = [read EXCEPT ![e] = @ \o SubSeq(q, 1, n)]
       /\ MoveReady(e, rcv_nxt[e], rcv_buf[e], SubSeq(q, n + 1, Len(q)))
  /\ probe' = IF Len(q) >= RcvWnd /\ Len(rcv_queue'[e]) < RcvWnd
              THEN [probe EXCEPT ![e] = @ \cup {"tell"}] ELSE probe
  /\ UNCHANGED <<sndVars, ackVars, wndVars, acklist, net>>

-----------------------------------------------------------------------------
(* ikcp_input                                                              *)

\* ikcp_shrink_buf: snd_una is the head of snd_buf, or snd_nxt if it is empty.
IsHead(u, buf, nxt) ==
  IF buf = {} THEN u = nxt ELSE u \in buf /\ \A sn \in buf : u <= sn

\* What every segment does: take over the window (even from an old datagram),
\* drop what una acknowledges and the numbers in acked, move snd_una.  The
\* datagram stays in net: the path may deliver it again, or lose it later.
Header(e, p, acked) ==
  LET buf == {sn \in snd_buf[e] : sn >= p.una} \ acked IN
  /\ p \in net[e]
  /\ rmt_wnd' = [rmt_wnd EXCEPT ![e] = p.wnd]
  /\ snd_buf' = [snd_buf EXCEPT ![e] = buf]
  /\ \E u \in 0 .. snd_nxt(e) :
       IsHead(u, buf, snd_nxt(e)) /\ snd_una' = [snd_una EXCEPT ![e] = u]
  /\ UNCHANGED <<sndVars, probe_wait, net, read>>

\* ikcp_parse_ack.  Numbers outside snd_una .. snd_nxt - 1 are ignored; none is
\* in snd_buf.
InputAck(e, p) ==
  /\ p.cmd = "ACK"
  /\ Header(e, p, {p.sn})
  /\ UNCHANGED <<rcvVars, acklist, probe>>

\* The tests of ikcp_input and of ikcp_parse_data.
AckAlways(e, sn) == TRUE      \* mistake
AckDue(e, sn) == sn < rcv_nxt[e] + RcvWnd
StorableAhead(e, sn) == rcv_nxt[e] <= sn    \* mistake
Storable(e, sn) == rcv_nxt[e] <= sn /\ sn < rcv_nxt[e] + RcvWnd

\* buf with seg under the number sn; a repeated segment is dropped.
Insert(buf, sn, seg) ==
  [x \in DOMAIN buf \cup {sn} |-> IF x \in DOMAIN buf THEN buf[x] ELSE seg]

\* A number below the window's end is acknowledged, one at or above rcv_nxt is
\* stored as well unless rcv_buf has it (ikcp_parse_data).
InputPush(e, p) ==
  LET nxt == rcv_nxt[e]
      buf == rcv_buf[e]
  IN
  /\ p.cmd = "PUSH"
  /\ Header(e, p, {})
  /\ acklist' = IF AckDue(e, p.sn) THEN [acklist EXCEPT ![e] = @ \cup {p.sn}] ELSE acklist
  /\ IF Storable(e, p.sn)
     THEN MoveReady(e, nxt, Insert(buf, p.sn, p.seg), rcv_queue[e])
     ELSE UNCHANGED rcvVars
  /\ UNCHANGED probe

\* Mistake: the question is not answered.
InputWaskSilent(e, p) ==
  /\ p.cmd = "WASK"
  /\ Header(e, p, {})
  /\ UNCHANGED <<rcvVars, acklist, probe>>

InputWask(e, p) ==
  /\ p.cmd = "WASK"
  /\ Header(e, p, {})
  /\ probe' = [probe EXCEPT ![e] = @ \cup {"tell"}]
  /\ UNCHANGED <<rcvVars, acklist>>

InputWins(e, p) ==
  /\ p.cmd = "WINS"
  /\ Header(e, p, {})
  /\ UNCHANGED <<rcvVars, acklist, probe>>

-----------------------------------------------------------------------------
(* ikcp_flush                                                              *)

\* ikcp_wnd_unused, cut to the width of the wnd field.
WndUnused(e) ==
  (IF Len(rcv_queue[e]) < RcvWnd THEN RcvWnd - Len(rcv_queue[e]) ELSE 0) % WndMod

\* The windows a flush may use: min(snd_wnd, rmt_wnd), and any smaller one
\* when the congestion window counts.
Windows(e) ==
  LET w == AtMost(SndWnd, rmt_wnd[e]) IN IF NoCwnd THEN {w} ELSE 0 .. w

\* How many segments move from snd_queue to snd_buf under window w.
NewCount(e, w) ==
  LET room == snd_una[e] + w - snd_nxt(e)
  IN IF room <= 0 THEN 0 ELSE AtMost(room, Len(snd_queue[e]))

Ack(e, sn) == [cmd |-> "ACK", sn |-> sn, wnd |-> WndUnused(e), una |-> rcv_nxt[e]]
Push(e, sn, seg) ==
  [cmd |-> "PUSH", sn |-> sn, seg |-> seg, wnd |-> WndUnused(e), una |-> rcv_nxt[e]]
Probe(e, cmd) == [cmd |-> cmd, wnd |-> WndUnused(e), una |-> rcv_nxt[e]]

\* Mistake: a retransmission carries the newest payload.
OutputNewest(e, log, resend, asks) ==
  {Ack(e, sn) : sn \in acklist[e]}
    \cup {Probe(e, IF x = "ask" THEN "WASK" ELSE "WINS") : x \in asks}
    \cup {Push(e, sn, log[Len(log)]) : sn \in resend}

\* What a flush transmits: the acknowledgements, the probes asks, and the
\* segments of log numbered resend.
Output(e, log, resend, asks) ==
  {Ack(e, sn) : sn \in acklist[e]}
    \cup {Probe(e, IF x = "ask" THEN "WASK" ELSE "WINS") : x \in asks}
    \cup {Push(e, sn, log[sn + 1]) : sn \in resend}

\* The path to d takes the datagrams out and loses any, old ones too.
Transmit(d, out) ==
  \E kept \in SUBSET (net[d] \cup out) :
    Cardinality(kept) <= MaxFlight[d] /\ net' = [net EXCEPT ![d] = kept]

\* One flush with window w that retransmits the numbers in again; due says
\* whether an armed probe timer has run out.
FlushWith(e, w, again, due) ==
  LET q == snd_queue[e]
      n == NewCount(e, w)
      log == numbered[e] \o SubSeq(q, 1, n)
      new == snd_nxt(e) .. snd_nxt(e) + n - 1
      asks == probe[e] \cup IF rmt_wnd[e] = 0 /\ probe_wait[e] /\ due THEN {"ask"} ELSE {}
  IN
  /\ numbered' = [numbered EXCEPT ![e] = log]
  /\ snd_queue' = [snd_queue EXCEPT ![e] = SubSeq(q, n + 1, Len(q))]
  /\ snd_buf' = [snd_buf EXCEPT ![e] = @ \cup new]
  /\ acklist' = [acklist EXCEPT ![e] = {}]
  /\ probe' = [probe EXCEPT ![e] = {}]
  /\ probe_wait' = [probe_wait EXCEPT ![e] = (rmt_wnd[e] = 0)]
  /\ Transmit(Peer(e), Output(e, log, again \cup new, asks))
  /\ UNCHANGED <<snd_una, rcvVars, rmt_wnd, sent, written, read>>

Flush(e) ==
  \E w \in Windows(e), again \in SUBSET snd_buf[e], due \in BOOLEAN :
    FlushWith(e, w, again, due)

-----------------------------------------------------------------------------

AppSend(e) ==
  \E n \in Lengths :
    written[e] + n <= MaxWritten[e] /\ Send(e, NextBytes(e, n))

Input(e) ==
  \E p \in net[e] : InputAck(e, p) \/ InputPush(e, p) \/ InputWask(e, p) \/ InputWins(e, p)

Next == \E e \in End : AppSend(e) \/ Recv(e) \/ Flush(e) \/ Input(e)

Spec == Init /\ [][Next]_vars

-----------------------------------------------------------------------------
(* Properties                                                              *)

\* The variables have the types of the control block's fields.
TypeOK ==
  /\ snd_queue \in [End -> Seq(Segment)]
  /\ numbered \in [End -> Seq(Segment)]
  /\ snd_buf \in [End -> SUBSET Nat]
  /\ snd_una \in [End -> Nat]
  /\ rcv_nxt \in [End -> Nat]
  /\ DOMAIN rcv_buf = End
  /\ \A e \in End : /\ DOMAIN rcv_buf[e] \subseteq Nat
                    /\ \A sn \in DOMAIN rcv_buf[e] : rcv_buf[e][sn] \in Segment
  /\ rcv_queue \in [End -> Seq(Segment)]
  /\ acklist \in [End -> SUBSET Nat]
  /\ rmt_wnd \in [End -> Nat]
  /\ probe \in [End -> SUBSET {"ask", "tell"}]
  /\ probe_wait \in [End -> BOOLEAN]
  /\ net \in [End -> SUBSET Packet]
  /\ sent \in [End -> Seq(Seq(Nat))]
  /\ written \in [End -> Nat]
  /\ read \in [End -> Seq(Segment)]

\* What e has read and can still read from its queue is the beginning of what
\* its peer numbered: nothing lost, repeated or out of order, whatever the
\* path did (ikcp_parse_data and ikcp_recv move segments by rcv_nxt alone).
InOrder ==
  \A e \in End :
    /\ rcv_nxt[e] = Len(read[e]) + Len(rcv_queue[e])
    /\ rcv_nxt[e] <= snd_nxt(Peer(e))
    /\ \A i \in 1 .. Len(read[e]) : read[e][i] = numbered[Peer(e)][i]
    /\ \A i \in 1 .. Len(rcv_queue[e]) :
         rcv_queue[e][i] = numbered[Peer(e)][Len(read[e]) + i]

Received(e) == (0 .. rcv_nxt[e] - 1) \cup DOMAIN rcv_buf[e]

\* A segment that left snd_buf, never to be sent again, is at the receiver:
\* ikcp_input queues the acknowledgement before it stores the segment, and
\* must never acknowledge one it then throws away.
AckedIsReceived ==
  \A e \in End : \A sn \in 0 .. snd_nxt(e) - 1 :
    sn \notin snd_buf[e] => sn \in Received(Peer(e))

\* Both buffers stay within the windows: the receiver holds at most rcv_wnd
\* segments in order and rcv_wnd ahead of them, and at most snd_wnd numbers
\* are outstanding.
WindowsHold ==
  \A e \in End :
    /\ Len(rcv_queue[e]) <= RcvWnd
    /\ DOMAIN rcv_buf[e] \subseteq rcv_nxt[e] .. rcv_nxt[e] + RcvWnd - 1
    /\ snd_nxt(e) <= snd_una[e] + SndWnd

\* Everything under way is true of its sender now: no datagram carries a payload
\* other than the one its number was given, acknowledges what was not received,
\* or claims a una beyond rcv_nxt, however late it arrives.
PathIsTruthful ==
  \A e \in End : \A p \in net[e] :
    /\ p.una <= rcv_nxt[Peer(e)]
    /\ p.cmd = "PUSH" => /\ p.sn < snd_nxt(Peer(e))
                         /\ p.seg = numbered[Peer(e)][p.sn + 1]
    /\ p.cmd = "ACK" => p.sn \in Received(Peer(e))

\* The segment the receive queue waits for is never left in rcv_buf while the
\* queue has room: it is moved only by the next input or the next read, and
\* nothing else would come to move it.
NoStall ==
  \A e \in End : rcv_nxt[e] \in DOMAIN rcv_buf[e] => Len(rcv_queue[e]) >= RcvWnd

\* A full receive queue can always be read: otherwise the window stays shut
\* and the connection is dead.
NeverWedged ==
  \A e \in End : Len(rcv_queue[e]) >= RcvWnd => Readable(rcv_queue[e])

\* The bytes of a sequence of segments.
Bytes(segs) == FlattenSeq([i \in DOMAIN segs |-> segs[i].data])

\* The messages put together so far, and the part of the next.
NoMessages == [done |-> <<>>, part |-> <<>>]
Gather(acc, seg) ==
  IF seg.frg = 0 THEN [done |-> Append(acc.done, acc.part \o seg.data), part |-> <<>>]
                 ELSE [done |-> acc.done, part |-> acc.part \o seg.data]

\* The messages of a sequence of segments: each ends at a fragment number 0.
Messages(segs) ==
  LET acc[i \in 0 .. Len(segs)] ==
        IF i = 0 THEN NoMessages ELSE Gather(acc[i - 1], segs[i])
  IN acc[Len(segs)].done

\* Message mode: an ikcp_recv returns exactly the message of one ikcp_send, in
\* order ("each inbound UDP datagram maps 1:1 to one KCP message and back").
MessagesIntact ==
  \A e \in End :
    /\ IsPrefix(Messages(read[e]), sent[Peer(e)])
    /\ read[e] # <<>> => Last(read[e]).frg = 0

\* Stream mode: the bytes read are the first of the bytes ikcp_send accepted,
\* although it rewrites the tail segment of the queue.
StreamIntact ==
  \A e \in End : IsPrefix(Bytes(read[e]), FlattenSeq(sent[Peer(e)]))

\* The connection implements a pair of reliable channels.
Channel == INSTANCE ReliableChannel WITH Sites <- End, Other <- [e \in End |-> Peer(e)],
                                         accepted <- numbered, delivered <- read
ChannelSpec == Channel!Spec

=============================================================================

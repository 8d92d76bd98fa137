------------------------------ MODULE KcpClock ------------------------------
(***************************************************************************)
(* The clock of one KCP session: what ikcp.c times (retransmission, round  *)
(* trips, congestion window, window probe, delayed acknowledgements) and   *)
(* the one-shot timer by which KcpSession.swift drives it.  The handlers   *)
(* run one at a time on stateQueue, at some time now, the milliseconds     *)
(* since boot cut to 32 bits; kcp.current is the time of the last          *)
(* ikcp_update, which is older.                                            *)
(***************************************************************************)
EXTENDS Integers, FiniteSets, FiniteSetsExt

CONSTANTS
  Mod,          \* the number of times: 2^32
  Interval,     \* kcp->interval
  Slap,         \* how late ikcp_update may be before it starts over (10000)
  RtoDef, RtoMin, RtoMax,    \* IKCP_RTO_DEF, kcp->rx_minrto, IKCP_RTO_MAX
  ProbeInit, ProbeLimit,     \* IKCP_PROBE_INIT, IKCP_PROBE_LIMIT
  Mss, SndWnd, FastResend, NoDelay, NoCwnd,   \* the fields mss, snd_wnd, ...
  RcvWndDef,    \* IKCP_WND_RCV, the first rmt_wnd
  \* the environment and the bounds
  Boots,        \* values of now at which a session is started
  Times,        \* the stretches of time that are looked at
  Latency,      \* how late the timer may run, and how long a pending block waits
  Suspensions,  \* for how long the process may be stopped altogether
  Rtts,         \* the ages of the time stamps that acknowledgements echo
  Wnds,         \* the windows that the peer advertises
  MaxSegments,  \* segments the application sends in one life of the session
  RtoCap,       \* a segment's rto stops growing here
  None

\* What is set to run out does so within half the range of a time, and the process
\* is not stopped for that long.  IKCP_RTO_NDL, IKCP_WND_RCV and the rest are not 0.
ASSUME ClockAssumption ==
  /\ {Mod, Interval, Slap, Latency, RtoMin, RtoDef, RtoMax, ProbeInit, ProbeLimit,
      Mss, SndWnd, FastResend, RcvWndDef, MaxSegments, RtoCap} \subseteq Nat
  /\ 0 < Interval /\ Interval + Latency < Slap
  /\ Suspensions \subseteq Nat /\ \A n \in Suspensions \cup {0} : 2 * (n + 2 * Slap) <= Mod
  /\ 0 < RtoMin /\ RtoMin <= RtoDef /\ RtoDef <= RtoMax /\ RtoMax <= RtoCap
  /\ 2 * (RtoCap + RtoMax) < Mod
  /\ ProbeInit <= ProbeLimit /\ 2 * (ProbeLimit + Interval) < Mod
  /\ 0 < Mss /\ 0 < RcvWndDef /\ Boots \subseteq Times /\ Times \subseteq 0 .. Mod - 1
  /\ Rtts \subseteq Nat /\ Wnds \subseteq Nat /\ {NoDelay, NoCwnd} \subseteq BOOLEAN
  /\ None \notin Int

VARIABLES
  now,       \* the low bits of the clock
  kcp,       \* the control block, NoBlock before start and after stop
  wait,      \* time until the update timer fires (negative: late); None: not armed
  owed,      \* history: when the first acknowledgement that waits was queued, or None
  awake      \* history: FALSE from a suspension to the next ikcp_update

vars == <<now, kcp, wait, owed, awake>>

Plus(t, d) == (t + d) % Mod
\* _itimediff: the signed difference of two 32 bit times.
Diff(a, b) == LET d == (a - b) % Mod IN IF d < Mod \div 2 THEN d ELSE d - Mod

Larger(a, b) == IF a > b THEN a ELSE b
Smaller(a, b) == IF a < b THEN a ELSE b
Bound(low, x, high) == Smaller(Larger(low, x), high)      \* _ibound_

\* ikcp_create, and what start() configures.
Created ==
  [current |-> 0, updated |-> FALSE, ts_flush |-> Interval,
   nsnd_que |-> 0, snd_nxt |-> 0, snd_buf |-> [sn \in {} |-> 0],
   rx_srtt |-> 0, rx_rttval |-> 0, rx_rto |-> RtoDef,
   rmt_wnd |-> RcvWndDef, cwnd |-> 0, incr |-> 0, ssthresh |-> 2,
   probe_wait |-> 0, ts_probe |-> 0, ackcount |-> 0,
   early |-> FALSE]     \* history: segments went out before the first update

NoBlock == [field \in {} |-> 0]

snd_una(k) == IF DOMAIN k.snd_buf = {} THEN k.snd_nxt ELSE Min(DOMAIN k.snd_buf)

-----------------------------------------------------------------------------
(* ikcp_flush                                                              *)

\* The part on the window probe: the first flush that finds the window shut
\* arms the timer, and every time it runs out the next wait is longer.
Probed(k) ==
  LET longer == Smaller(k.probe_wait + k.probe_wait \div 2, ProbeLimit) IN
  IF k.rmt_wnd # 0 THEN [k EXCEPT !.probe_wait = 0, !.ts_probe = 0]
  ELSE IF k.probe_wait = 0
  THEN [k EXCEPT !.probe_wait = ProbeInit, !.ts_probe = Plus(k.current, ProbeInit)]
  ELSE IF Diff(k.current, k.ts_probe) >= 0
  THEN [k EXCEPT !.probe_wait = longer, !.ts_probe = Plus(k.current, longer)]
  ELSE k

\* The window of this flush.
Window(k) ==
  LET w == Smaller(SndWnd, k.rmt_wnd) IN IF NoCwnd THEN w ELSE Smaller(k.cwnd, w)

\* Mistake: only the timer of the oldest segment is looked at.
OverdueHead(k) == {sn \in DOMAIN k.snd_buf \cap {snd_una(k)} :
                     Diff(k.current, k.snd_buf[sn].resendts) >= 0}
Overdue(k) == {sn \in DOMAIN k.snd_buf : Diff(k.current, k.snd_buf[sn].resendts) >= 0}
Skipped(k) == {sn \in DOMAIN k.snd_buf \ Overdue(k) :
                 FastResend > 0 /\ k.snd_buf[sn].fastack >= FastResend}

\* A segment leaves at the time t and is due again after rto.
Leaves(k, rto, due, t) ==
  [resendts |-> Plus(k.current, due), rto |-> rto, fastack |-> 0,
   wire |-> t, timed |-> k.updated /\ awake]

First(k, t) ==
  Leaves(k, k.rx_rto, k.rx_rto + (IF NoDelay THEN 0 ELSE k.rx_rto \div 8), t)
Again(k, s, t) ==
  LET rto == Smaller(s.rto + (IF NoDelay THEN k.rx_rto \div 2 ELSE k.rx_rto), RtoCap)
  IN [Leaves(k, rto, rto, t) EXCEPT !.fastack = s.fastack]
\* Mistake: the segment is sent again but its timer is not set back.
FastStale(k, s, t) == [s EXCEPT !.fastack = 0, !.wire = t]
Fast(k, s, t) == Leaves(k, s.rto, s.rto, t)

\* What retransmissions do to the congestion window; w is the flush's window.
Congested(k, w, inflight, fast, lost) ==
  LET half == IF lost THEN w \div 2 ELSE inflight \div 2
      ssthresh == IF lost \/ fast THEN Larger(half, 2) ELSE k.ssthresh
      cwnd == IF lost THEN 1 ELSE IF fast THEN ssthresh + FastResend ELSE k.cwnd
  IN IF lost \/ fast \/ cwnd < 1
     THEN [k EXCEPT !.ssthresh = ssthresh, !.cwnd = Larger(cwnd, 1),
                    !.incr = Larger(cwnd, 1) * Mss]
     ELSE k

\* ikcp_flush at the time t: everything it stamps bears kcp->current.
Flushed(k, t) ==
  LET w == Window(k)
      room == snd_una(k) + w - k.snd_nxt
      n == Larger(0, Smaller(room, k.nsnd_que))
      nxt == k.snd_nxt + n
      new == k.snd_nxt .. nxt - 1
      buf == [sn \in DOMAIN k.snd_buf \cup new |->
                IF sn \in new THEN First(k, t)
                ELSE IF sn \in Overdue(k) THEN Again(k, k.snd_buf[sn], t)
                ELSE IF sn \in Skipped(k) THEN Fast(k, k.snd_buf[sn], t)
                ELSE k.snd_buf[sn]]
      sent == [Probed(k) EXCEPT !.ackcount = 0, !.nsnd_que = @ - n, !.snd_nxt = nxt,
                                !.snd_buf = buf, !.early = @ \/ (~ k.updated /\ n > 0)]
  IN Congested(sent, w, nxt - snd_una(k), Skipped(k) # {}, Overdue(k) # {})

-----------------------------------------------------------------------------
(* ikcp_update and ikcp_check                                              *)

FarFrom(t, ts) == Diff(t, ts) >= Slap \/ Diff(t, ts) < - Slap

\* ikcp_update: a flush if one is due, at most one per interval.
Updated(k, t) ==
  LET due == IF ~ k.updated \/ FarFrom(t, k.ts_flush) THEN t ELSE k.ts_flush
      next == Plus(due, Interval)
      k1 == [k EXCEPT !.current = t, !.updated = TRUE, !.ts_flush = due]
      k2 == [k1 EXCEPT !.ts_flush = IF Diff(t, next) >= 0 THEN Plus(t, Interval) ELSE next]
  IN IF Diff(t, due) >= 0 THEN Flushed(k2, t) ELSE k1

\* ikcp_check: when ikcp_update should be called next.
Check(k, t) ==
  LET ahead == {Diff(k.snd_buf[sn].resendts, t) : sn \in DOMAIN k.snd_buf} IN
  IF \/ ~ k.updated \/ FarFrom(t, k.ts_flush)
     \/ Diff(t, k.ts_flush) >= 0 \/ \E d \in ahead : d <= 0
  THEN t
  ELSE Plus(t, Min(ahead \cup {Diff(k.ts_flush, t), Interval}))

\* scheduleNextUpdate compares the two times as unsigned numbers.
Delay(k, t) == IF Check(k, t) <= t THEN 0 ELSE Check(k, t) - t

-----------------------------------------------------------------------------
(* ikcp_input                                                              *)

\* Mistake: the result is not bounded.
MeasuredAny(k, rtt) == [k EXCEPT !.rx_srtt = rtt, !.rx_rto = rtt + Interval]
\* ikcp_update_ack for a round trip of rtt.
Measured(k, rtt) ==
  LET delta == IF rtt < k.rx_srtt THEN k.rx_srtt - rtt ELSE rtt - k.rx_srtt
      srtt == IF k.rx_srtt = 0 THEN rtt ELSE Larger((7 * k.rx_srtt + rtt) \div 8, 1)
      var == IF k.rx_srtt = 0 THEN rtt \div 2 ELSE (3 * k.rx_rttval + delta) \div 4
  IN [k EXCEPT !.rx_srtt = srtt, !.rx_rttval = var,
               !.rx_rto = Bound(RtoMin, srtt + Larger(Interval, 4 * var), RtoMax)]

\* Mistake: the window opens and its increment does not follow.
GrownOnly(k) ==
  IF k.cwnd >= k.rmt_wnd THEN k ELSE [k EXCEPT !.cwnd = @ + 1]
\* The congestion window after an acknowledgement that moved snd_una.
Grown(k) ==
  LET base == Larger(k.incr, Mss)
      incr == base + (Mss * Mss) \div base + Mss \div 16
  IN IF k.cwnd >= k.rmt_wnd THEN k
     ELSE IF k.cwnd < k.ssthresh THEN [k EXCEPT !.cwnd = @ + 1, !.incr = @ + Mss]
     ELSE [k EXCEPT !.incr = incr,
                    !.cwnd = IF (k.cwnd + 1) * Mss <= incr THEN @ + 1 ELSE @]

\* A datagram: una and wnd, and at most one acknowledgement, of sn with a time
\* stamp of the age rtt, or a segment to acknowledge.
Datagrams(k) ==
  LET ages == Rtts \cup IF k.early THEN {Diff(k.current, 0)} ELSE {}
  IN {d \in [una : snd_una(k) .. k.snd_nxt, wnd : Wnds, push : BOOLEAN,
             ack : {None} \cup ((0 .. k.snd_nxt - 1) \X ages)] : d.push => d.ack = None}

\* A time stamp ahead of kcp->current measures nothing.  The acknowledgements
\* that wait are counted up to 1.
Input(k, d) ==
  LET sn == d.ack[1]
      measured == IF d.ack # None /\ d.ack[2] >= 0 THEN Measured(k, d.ack[2]) ELSE k
      left == {x \in DOMAIN k.snd_buf : d.una <= x /\ (d.ack = None \/ x # sn)}
      skipped == IF d.ack = None THEN {} ELSE {x \in left : x < sn}     \* ikcp_parse_fastack
      buf == [x \in left |->
                IF x \in skipped
                THEN [k.snd_buf[x] EXCEPT !.fastack = Smaller(@ + 1, FastResend)]
                ELSE k.snd_buf[x]]
      k1 == [measured EXCEPT !.rmt_wnd = d.wnd, !.snd_buf = buf,
                             !.ackcount = IF d.push THEN 1 ELSE @]
  IN IF snd_una(k1) > snd_una(k) THEN Grown(k1) ELSE k1

-----------------------------------------------------------------------------
(* KcpSession                                                              *)

Running == kcp # NoBlock

Start ==
  /\ ~ Running /\ now \in Boots
  /\ kcp' = Created
  /\ wait' = Delay(Created, now)
  /\ awake' = TRUE
  /\ UNCHANGED <<now, owed>>

Stop ==
  /\ Running
  /\ kcp' = NoBlock /\ wait' = None /\ owed' = None
  /\ UNCHANGED <<now, awake>>

\* ikcp_update (updateKcpNow, drainKcpReceiveQueue).
Update(k) ==
  /\ kcp' = Updated(k, now)
  /\ owed' = IF kcp'.ackcount = 0 THEN None ELSE IF owed = None THEN now ELSE owed
  /\ awake' = TRUE
  /\ UNCHANGED now

\* The end of nearly every handler: the update, then scheduleNextUpdate.
Finish(k) == Update(k) /\ wait' = Delay(kcp', now)

\* The block of send(): flush first, with the time of the last update.
Send ==
  /\ Running
  /\ kcp.nsnd_que + kcp.snd_nxt < MaxSegments
  /\ Finish(Flushed([kcp EXCEPT !.nsnd_que = @ + 1], now))

\* handleReadableSocket for one datagram.
Receive == Running /\ \E d \in Datagrams(kcp) : Finish(Input(kcp, d))

\* A datagram that does not decode still updates.
ReceiveInvalid == Running /\ Finish(kcp)

\* An empty datagram updates and leaves the timer as it was armed before.
ReceiveEmpty == Running /\ Update(kcp) /\ UNCHANGED wait

\* Mistake: the timer is one-shot, and this handler does not arm it again.
FireOnce ==
  /\ Running /\ wait # None /\ wait <= 0
  /\ kcp' = Updated(kcp, now)
  /\ wait' = None /\ awake' = TRUE
  /\ owed' = IF kcp'.ackcount = 0 THEN None ELSE owed
  /\ UNCHANGED now
\* handleUpdateTimer
Fire == Running /\ wait # None /\ wait <= 0 /\ Finish(kcp)

Pass(n) == now' = Plus(now, n) /\ now' \in Times

\* Time passes; a timer that is due runs within Latency.
Tick ==
  /\ Running
  /\ wait \in {None} \cup (1 - Latency .. Interval)
  /\ wait' = IF wait = None THEN None ELSE wait - 1
  /\ Pass(1)
  /\ UNCHANGED <<kcp, owed, awake>>

\* The process is stopped for long, and the clock is not.
Suspend ==
  /\ Running /\ awake
  /\ \E n \in Suspensions :
       /\ Pass(n)
       /\ wait' = IF wait = None THEN None ELSE Larger(wait - n, - Latency)
  /\ awake' = FALSE
  /\ UNCHANGED <<kcp, owed>>

Init ==
  /\ now \in Boots
  /\ kcp = NoBlock /\ wait = None
  /\ owed = None /\ awake = TRUE

Next ==
  \/ Start \/ Stop
  \/ Send \/ Receive \/ ReceiveInvalid \/ ReceiveEmpty
  \/ Fire \/ Tick \/ Suspend

Spec == Init /\ [][Next]_vars

-----------------------------------------------------------------------------
(* Properties                                                              *)

Time == 0 .. Mod - 1
Segment == [resendts : Time, rto : 0 .. RtoCap, fastack : 0 .. FastResend,
            wire : Time, timed : BOOLEAN]
IsControlBlock(k) ==
  /\ k = [Created EXCEPT
            !.current = k.current, !.updated = k.updated, !.ts_flush = k.ts_flush,
            !.nsnd_que = k.nsnd_que, !.snd_nxt = k.snd_nxt, !.snd_buf = k.snd_buf,
            !.rx_srtt = k.rx_srtt, !.rx_rttval = k.rx_rttval, !.rx_rto = k.rx_rto,
            !.rmt_wnd = k.rmt_wnd, !.cwnd = k.cwnd, !.incr = k.incr, !.ssthresh = k.ssthresh,
            !.probe_wait = k.probe_wait, !.ts_probe = k.ts_probe, !.ackcount = k.ackcount,
            !.early = k.early]
  /\ {k.current, k.ts_flush, k.ts_probe} \subseteq Time
  /\ {k.nsnd_que, k.snd_nxt, k.rx_srtt, k.rx_rttval, k.rmt_wnd, k.cwnd, k.incr,
      k.ssthresh, k.probe_wait, k.ackcount} \subseteq Nat
  /\ k.rx_rto \in RtoMin .. RtoMax
  /\ {k.updated, k.early} \subseteq BOOLEAN
  /\ DOMAIN k.snd_buf \subseteq 0 .. k.snd_nxt - 1
  /\ \A sn \in DOMAIN k.snd_buf : k.snd_buf[sn] \in Segment

\* The fields of the control block: times are cut to 32 bits, the retransmission
\* timeout stays within its bounds whatever the peer echoes.
TypeOK ==
  /\ now \in Time
  /\ Running => IsControlBlock(kcp)
  /\ wait = None \/ wait \in - Latency .. Interval
  /\ owed \in Time \cup {None} /\ awake \in BOOLEAN

\* How late anything can be that waits for a flush.
Late == Interval + Latency

\* An acknowledgement queued by ikcp_input is sent within an interval, although
\* neither ikcp_input nor the timer looks at it: some flush is always near.
AcksLeave ==
  Running /\ awake /\ kcp.ackcount > 0 => owed # None /\ Diff(now, owed) <= Late

\* A timer that has run out, of a segment or of the window probe, is served
\* within an interval, across the wrap of the clock and after the process was
\* stopped; the probe's is never set further ahead than its longest wait.
TimersServed ==
  Running /\ awake /\ kcp.updated =>
    /\ \A sn \in DOMAIN kcp.snd_buf : Diff(now, kcp.snd_buf[sn].resendts) < Late
    /\ kcp.probe_wait > 0 => Diff(kcp.ts_probe, now) \in 1 - Late .. ProbeLimit

\* A segment gets its whole timeout, less at most the age of kcp->current when
\* it is stamped, and no more: ikcp_send and ikcp_input work with an old time.
\* Not so before the first ikcp_update, where kcp->current is 0.
TimersFit ==
  Running => \A sn \in DOMAIN kcp.snd_buf :
    LET s == kcp.snd_buf[sn] IN
    s.timed => Diff(s.resendts, s.wire) \in s.rto - Late .. s.rto + s.rto \div 8

\* cwnd and incr, the same window in segments and in bytes, are changed in five
\* places and never come apart.
CwndIsIncr == Running => kcp.cwnd = kcp.incr \div Mss /\ kcp.ssthresh >= 2

=============================================================================

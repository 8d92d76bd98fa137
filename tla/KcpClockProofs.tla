--------------------------- MODULE KcpClockProofs ---------------------------
(***************************************************************************)
(* Proofs about the clock of a session, for any width of a time, any       *)
(* intervals and timeouts, and whatever the peer sends and when.           *)
(***************************************************************************)
EXTENDS KcpClock, CommonLemmas

-----------------------------------------------------------------------------
(* The inductive invariant                                                 *)

Half == Mod \div 2

\* A control block as a record of typed fields.
Buffers == UNION {[D -> Segment] : D \in SUBSET Nat}
Blocks ==
  [current : Time, updated : BOOLEAN, ts_flush : Time, nsnd_que : Nat, snd_nxt : Nat,
   snd_buf : Buffers, rx_srtt : Nat, rx_rttval : Nat, rx_rto : RtoMin .. RtoMax,
   rmt_wnd : Nat, cwnd : Nat, incr : Nat, ssthresh : Nat, probe_wait : Nat,
   ts_probe : Time, ackcount : Nat, early : BOOLEAN]

\* A segment's timer was set right, and its timeout doubled from one that was.
SegmentOK(s) ==
  /\ s.rto >= RtoMin
  /\ s.timed => Diff(s.resendts, s.wire) \in s.rto - Late .. s.rto + s.rto \div 8

\* What holds of a control block whatever the time.
BlockOK(k) ==
  /\ k \in Blocks
  /\ DOMAIN k.snd_buf \subseteq 0 .. k.snd_nxt - 1
  /\ \A sn \in DOMAIN k.snd_buf : SegmentOK(k.snd_buf[sn])
  /\ k.cwnd = k.incr \div Mss /\ k.ssthresh >= 2
  /\ k.probe_wait <= ProbeLimit

\* How far the next flush is from the last update.
Ahead(k) == Diff(k.ts_flush, k.current)

\* After an update the next flush is near, and no timer has run out by more than the
\* time since the last flush.
TimersOK(k) ==
  /\ Ahead(k) \in 1 .. Interval
  /\ \A sn \in DOMAIN k.snd_buf : Diff(k.current, k.snd_buf[sn].resendts) + Ahead(k) < Interval
  /\ k.probe_wait > 0 =>
       Diff(k.ts_probe, k.current) \in Ahead(k) - Interval + 1 .. ProbeLimit

\* An acknowledgement that waits was queued after the last flush.
OwedOK ==
  /\ kcp.ackcount > 0 => owed # None
  /\ owed # None =>
       owed \in Time /\ Diff(kcp.current, owed) \in 0 .. Interval - Ahead(kcp)

\* The update timer fires before the next flush is due, unless it ran out while the
\* process was stopped.
Age == Diff(now, kcp.current)
Farthest(k, w, up) == IF up \/ w > 0 THEN Ahead(k) ELSE Half - Slap - Latency - 1
TimerOK ==
  /\ Age >= 0
  /\ Age + wait <= Farthest(kcp, wait, awake)

ClockInv ==
  /\ now \in Time /\ awake \in BOOLEAN
  /\ ~ Running => wait = None /\ owed = None
  /\ Running => wait \in - Latency .. Interval
  /\ Running /\ ~ kcp.updated => kcp = Created /\ owed = None /\ wait <= 0
  /\ Running /\ kcp.updated => BlockOK(kcp) /\ TimersOK(kcp) /\ OwedOK /\ TimerOK

-----------------------------------------------------------------------------
(* Times and their differences                                             *)

\* The constants as numbers.
LEMMA Numbers ==
  /\ Mod \in Nat /\ Mod > 0 /\ Half \in Nat /\ 2 * Half <= Mod /\ Mod <= 2 * Half + 1
  /\ Interval \in Nat /\ Latency \in Nat /\ Slap \in Nat /\ 0 < Interval
  /\ Interval + Latency < Slap /\ 2 * Slap <= Half
  /\ RtoMin \in Nat /\ RtoDef \in Nat /\ RtoMax \in Nat /\ RtoCap \in Nat
  /\ 0 < RtoMin /\ RtoMin <= RtoDef /\ RtoDef <= RtoMax /\ RtoMax <= RtoCap
  /\ RtoCap + RtoMax <= Half
  /\ ProbeInit \in Nat /\ ProbeLimit \in Nat /\ ProbeInit <= ProbeLimit
  /\ ProbeLimit + Interval <= Half
  /\ Mss \in Nat /\ 0 < Mss /\ RcvWndDef \in Nat /\ 0 < RcvWndDef
  /\ SndWnd \in Nat /\ FastResend \in Nat /\ MaxSegments \in Nat
<1>1. Mod \in Nat /\ Slap \in Nat /\ 2 * (0 + 2 * Slap) <= Mod
  BY ClockAssumption
<1>2. Interval \in Nat /\ Latency \in Nat /\ 0 < Interval /\ Interval + Latency < Slap
  BY ClockAssumption
<1>3. Half \in Nat /\ 2 * Half <= Mod /\ Mod <= 2 * Half + 1 /\ Mod > 0 /\ 2 * Slap <= Half
  BY <1>1, <1>2 DEF Half
<1>4. /\ RtoMin \in Nat /\ RtoDef \in Nat /\ RtoMax \in Nat /\ RtoCap \in Nat
      /\ 0 < RtoMin /\ RtoMin <= RtoDef /\ RtoDef <= RtoMax /\ RtoMax <= RtoCap
      /\ 2 * (RtoCap + RtoMax) < Mod
  BY ClockAssumption
<1>5. /\ ProbeInit \in Nat /\ ProbeLimit \in Nat /\ ProbeInit <= ProbeLimit
      /\ 2 * (ProbeLimit + Interval) < Mod
  BY ClockAssumption
<1>6. /\ Mss \in Nat /\ 0 < Mss /\ RcvWndDef \in Nat /\ 0 < RcvWndDef
      /\ SndWnd \in Nat /\ FastResend \in Nat /\ MaxSegments \in Nat
  BY ClockAssumption
<1>7. RtoCap + RtoMax <= Half
  BY <1>1, <1>3, <1>4
<1>8. ProbeLimit + Interval <= Half
  BY <1>1, <1>2, <1>3, <1>5
<1> QED
  BY <1>1, <1>2, <1>3, <1>4, <1>5, <1>6, <1>7, <1>8

\* The numbers that a signed difference can be.
Signed == Half - Mod .. Half - 1

\* The signed difference is the number in its range that differs from the true one by
\* whole turns of the clock.
LEMMA DiffIs ==
  ASSUME NEW a \in Int, NEW b \in Int, NEW k \in Int, NEW x \in Signed, a - b = Mod * k + x
  PROVE  Diff(a, b) = x
<1>1. Mod \in Nat \ {0} /\ Half \in Nat /\ 2 * Half <= Mod /\ Mod <= 2 * Half + 1
  BY Numbers
<1>2. x \in Int /\ Half - Mod <= x /\ x <= Half - 1
  BY <1>1 DEF Signed
<1>3. CASE x >= 0
  <2>1. x \in 0 .. Mod - 1
    BY <1>1, <1>2, <1>3
  <2>2. (Mod * k + x) % Mod = x
    BY <1>1, <2>1, RemainderUnique
  <2>3. (a - b) % Mod = x
    BY <2>2
  <2>4. x < Half
    BY <1>1, <1>2
  <2> QED
    BY <2>3, <2>4 DEF Diff, Half
<1>4. CASE x < 0
  <2>1. x + Mod \in 0 .. Mod - 1 /\ k - 1 \in Int
    BY <1>1, <1>2, <1>4
  <2>2. (Mod * (k - 1) + (x + Mod)) % Mod = x + Mod
    BY <1>1, <2>1, RemainderUnique
  <2>3. Mod * (k - 1) + (x + Mod) = a - b
    BY <1>1, <1>2
  <2>4. (a - b) % Mod = x + Mod /\ ~ (x + Mod < Half) /\ (x + Mod) - Mod = x
    BY <1>1, <1>2, <2>2, <2>3
  <2> QED
    BY <2>4 DEF Diff, Half
<1> QED
  BY <1>2, <1>3, <1>4

\* It exists.
LEMMA DiffTurns ==
  ASSUME NEW a \in Int, NEW b \in Int
  PROVE  Diff(a, b) \in Signed /\ \E k \in Int : a - b = Mod * k + Diff(a, b)
<1>1. Mod \in Nat \ {0} /\ Half \in Nat /\ 2 * Half <= Mod /\ Mod <= 2 * Half + 1
  BY Numbers
<1> DEFINE n == a - b
           r == n % Mod
           q == n \div Mod
<1>2. n = Mod * q + r /\ r \in 0 .. Mod - 1 /\ q \in Int /\ n \in Int
  BY <1>1
<1>3. Diff(a, b) = IF r < Half THEN r ELSE r - Mod
  BY DEF Diff, Half
<1> HIDE DEF n, q, r
<1>4. CASE r < Half
  <2>1. Diff(a, b) = r
    BY <1>3, <1>4
  <2> QED
    BY <1>1, <1>2, <1>4, <2>1 DEF Signed, n
<1>5. CASE ~ (r < Half)
  <2>1. Diff(a, b) = r - Mod
    BY <1>3, <1>5
  <2>2. q + 1 \in Int /\ n = Mod * (q + 1) + (r - Mod)
    BY <1>1, <1>2
  <2>3. r - Mod \in Signed
    BY <1>1, <1>2, <1>5 DEF Signed
  <2> QED
    BY <2>1, <2>2, <2>3 DEF n
<1> QED
  BY <1>4, <1>5

\* A time so much later differs from the sum by whole turns.
LEMMA PlusTurns ==
  ASSUME NEW t \in Int, NEW d \in Int
  PROVE  Plus(t, d) \in Time /\ \E k \in Int : Plus(t, d) = t + d + Mod * k
<1>1. Mod \in Nat \ {0}
  BY Numbers
<1> DEFINE n == t + d
           r == n % Mod
           q == n \div Mod
<1>2. n = Mod * q + r /\ r \in 0 .. Mod - 1 /\ q \in Int /\ n \in Int
  BY <1>1
<1>3. Plus(t, d) = r
  BY DEF Plus
<1> HIDE DEF n, q, r
<1>4. - q \in Int /\ r = n + Mod * (- q)
  BY <1>1, <1>2
<1> QED
  BY <1>2, <1>3, <1>4 DEF Time, n

LEMMA TimeInt == Time \subseteq Int /\ Signed \subseteq Int
BY Numbers DEF Time, Signed

\* Differences add up as long as the sum is a difference; at worst it is a turn less.
LEMMA DiffSum ==
  ASSUME NEW a \in Int, NEW b \in Int, NEW c \in Int,
         Diff(a, b) + Diff(b, c) >= Half - Mod
  PROVE  /\ Diff(a, c) \in Int /\ Diff(a, b) \in Int /\ Diff(b, c) \in Int
         /\ Diff(a, c) <= Diff(a, b) + Diff(b, c)
         /\ Diff(a, b) + Diff(b, c) < Half => Diff(a, c) = Diff(a, b) + Diff(b, c)
<1>1. Mod \in Nat \ {0} /\ Half \in Nat /\ 2 * Half <= Mod /\ Mod <= 2 * Half + 1
  BY Numbers
<1>2. PICK k \in Int : a - b = Mod * k + Diff(a, b)
  BY DiffTurns
<1>3. PICK m \in Int : b - c = Mod * m + Diff(b, c)
  BY DiffTurns
<1>4. Diff(a, b) \in Signed /\ Diff(b, c) \in Signed /\ Diff(a, c) \in Signed
  BY DiffTurns
<1> DEFINE x == Diff(a, b)
           y == Diff(b, c)
           z == Diff(a, c)
<1>5. /\ x \in Int /\ y \in Int /\ z \in Int /\ x <= Half - 1 /\ y <= Half - 1
      /\ x + y >= Half - Mod /\ a - b = Mod * k + x /\ b - c = Mod * m + y
  BY <1>1, <1>2, <1>3, <1>4 DEF Signed
<1> HIDE DEF x, y, z
<1>6. k + m \in Int /\ a - c = Mod * (k + m) + (x + y)
  BY <1>1, <1>5
<1>7. CASE x + y < Half
  <2>1. x + y \in Signed
    BY <1>1, <1>5, <1>7 DEF Signed
  <2>2. z = x + y
    BY <1>6, <2>1, DiffIs DEF z
  <2> QED
    BY <1>5, <2>2 DEF x, y, z
<1>8. CASE x + y >= Half
  <2>1. x + y - Mod \in Signed
    BY <1>1, <1>5, <1>8 DEF Signed
  <2>2. k + m + 1 \in Int /\ a - c = Mod * (k + m + 1) + (x + y - Mod)
    BY <1>1, <1>5, <1>6
  <2>3. z = x + y - Mod
    BY <2>1, <2>2, DiffIs DEF z
  <2> QED
    BY <1>1, <1>5, <1>8, <2>3 DEF x, y, z
<1> QED
  BY <1>1, <1>5, <1>7, <1>8 DEF x, y, z

\* From a time to one that is later by d, and back.
LEMMA DiffPlus ==
  ASSUME NEW t \in Int, NEW d \in Int, d >= 0, d < Half
  PROVE  Diff(Plus(t, d), t) = d /\ Diff(t, Plus(t, d)) = - d /\ Plus(t, d) \in Time
<1>1. Mod \in Nat /\ Half \in Nat /\ 2 * Half <= Mod /\ Mod <= 2 * Half + 1
  BY Numbers
<1>2. PICK k \in Int : Plus(t, d) = t + d + Mod * k
  BY PlusTurns
<1>3. Plus(t, d) \in Time /\ Plus(t, d) \in Int
  BY PlusTurns, TimeInt
<1>4. Plus(t, d) - t = Mod * k + d /\ d \in Signed
  BY <1>1, <1>2 DEF Signed
<1>5. - k \in Int /\ t - Plus(t, d) = Mod * (- k) + (- d) /\ - d \in Signed
  BY <1>1, <1>2 DEF Signed
<1> QED
  BY <1>3, <1>4, <1>5, DiffIs

\* A difference with its sides exchanged.
LEMMA DiffSwap ==
  ASSUME NEW a \in Int, NEW b \in Int
  PROVE  /\ Diff(a, b) \in Int /\ Diff(b, a) \in Int
         /\ Diff(a, b) > - Half => Diff(b, a) = - Diff(a, b)
         /\ Diff(a, b) >= Half - Mod /\ Diff(a, b) <= Half - 1
         /\ Diff(a, a) = 0
<1>1. Mod \in Nat /\ Half \in Nat /\ 2 * Half <= Mod /\ Mod <= 2 * Half + 1 /\ Half > 0
  BY Numbers
<1>2. Diff(a, b) \in Signed /\ Diff(b, a) \in Signed
  BY DiffTurns
<1>3. PICK k \in Int : a - b = Mod * k + Diff(a, b)
  BY DiffTurns
<1> DEFINE x == Diff(a, b)
           y == Diff(b, a)
<1>4. x \in Int /\ y \in Int /\ x >= Half - Mod /\ x <= Half - 1 /\ a - b = Mod * k + x
  BY <1>1, <1>2, <1>3 DEF Signed
<1> HIDE DEF x, y
<1>5. ASSUME x > - Half PROVE y = - x
  <2>1. - x \in Signed
    BY <1>1, <1>4, <1>5 DEF Signed
  <2>2. - k \in Int /\ b - a = Mod * (- k) + (- x)
    BY <1>1, <1>4
  <2> QED
    BY <2>1, <2>2, DiffIs DEF y
<1>6. Diff(a, a) = 0
  <2>1. 0 \in Signed /\ a - a = Mod * 0 + 0
    BY <1>1 DEF Signed
  <2> QED
    BY <2>1, DiffIs
<1> QED
  BY <1>4, <1>5, <1>6 DEF x, y

-----------------------------------------------------------------------------
(* What the helpers on a control block give                                *)

\* A control block is something.
LEMMA NotNoBlock == ASSUME NEW k \in Blocks PROVE k # NoBlock
<1>1. "current" \in DOMAIN k
  BY DEF Blocks
<1>2. DOMAIN NoBlock = {}
  BY DEF NoBlock
<1> QED
  BY <1>1, <1>2

\* The created block is one.
LEMMA CreatedOK ==
  /\ BlockOK(Created) /\ Created.updated = FALSE /\ Created.probe_wait = 0
  /\ Created.rmt_wnd # 0 /\ Created.ackcount = 0 /\ Created # NoBlock
<1>1. 0 \in Time /\ Interval \in Time
  BY Numbers DEF Time
<1>2. RtoDef \in RtoMin .. RtoMax /\ RcvWndDef \in Nat
  BY Numbers
<1>3. Created.snd_buf \in Buffers
  <2>1. [sn \in {} |-> 0] \in [{} -> Segment] /\ {} \in SUBSET Nat
    OBVIOUS
  <2>2. [sn \in {} |-> 0] \in Buffers
    BY <2>1 DEF Buffers
  <2> QED
    BY <2>2 DEF Created
<1>4. Created \in Blocks
  BY <1>1, <1>2, <1>3 DEF Created, Blocks
<1>5. DOMAIN Created.snd_buf = {}
  BY DEF Created
<1>6. 0 \div Mss = 0
  <2>1. Mss \in Nat \ {0} /\ 0 \in 0 .. Mss - 1 /\ Mss * 0 + 0 = 0
    BY Numbers
  <2> QED
    BY <2>1, QuotientIs
<1>7. Created # NoBlock
  BY <1>4, NotNoBlock
<1> QED
  BY <1>4, <1>5, <1>6, <1>7, Numbers DEF BlockOK, Created

\* The oldest sequence number is a number.
LEMMA UnaNat ==
  ASSUME NEW k, k.snd_nxt \in Nat, DOMAIN k.snd_buf \subseteq 0 .. k.snd_nxt - 1
  PROVE  snd_una(k) \in Nat
<1>1. CASE DOMAIN k.snd_buf = {}
  BY <1>1 DEF snd_una
<1>2. CASE DOMAIN k.snd_buf # {}
  <2> DEFINE D == DOMAIN k.snd_buf
  <2>1. D \subseteq Nat /\ D # {}
    BY <1>2
  <2> HIDE DEF D
  <2>2. \E n \in D : \A m \in D : n <= m
    BY <2>1, Least
  <2>3. Min(D) \in D
    BY <2>2 DEF Min
  <2> QED
    BY <1>2, <2>1, <2>3 DEF snd_una, D
<1> QED
  BY <1>1, <1>2

LEMMA BufferFacts ==
  ASSUME NEW k \in Blocks
  PROVE  /\ k.snd_buf = [sn \in DOMAIN k.snd_buf |-> k.snd_buf[sn]]
         /\ \A sn \in DOMAIN k.snd_buf : k.snd_buf[sn] \in Segment
<1>1. PICK D \in SUBSET Nat : k.snd_buf \in [D -> Segment]
  BY DEF Blocks, Buffers
<1> QED
  BY <1>1
-----------------------------------------------------------------------------
(* ikcp_flush                                                              *)

\* The window probe: its timer is set right and its wait has a limit.
LEMMA ProbedOK ==
  ASSUME NEW k, BlockOK(k),
         k.probe_wait > 0 => Diff(k.ts_probe, k.current) \in 1 - Half .. ProbeLimit
  PROVE  /\ Probed(k) = [k EXCEPT !.probe_wait = Probed(k).probe_wait,
                                  !.ts_probe = Probed(k).ts_probe]
         /\ Probed(k).probe_wait \in 0 .. ProbeLimit /\ Probed(k).ts_probe \in Time
         /\ Probed(k).probe_wait > 0 =>
              Diff(Probed(k).ts_probe, k.current) \in 1 .. ProbeLimit
         /\ k.rmt_wnd # 0 => Probed(k).probe_wait = 0
<1> DEFINE p == Probed(k)
           longer == Smaller(k.probe_wait + k.probe_wait \div 2, ProbeLimit)
<1>1. /\ k \in Blocks /\ k.current \in Int /\ k.ts_probe \in Int /\ k.probe_wait \in Nat
      /\ k.probe_wait <= ProbeLimit /\ k.ts_probe \in Time
  BY TimeInt DEF BlockOK, Blocks
<1>2. /\ ProbeInit \in 0 .. ProbeLimit /\ ProbeLimit \in Nat /\ ProbeLimit < Half
      /\ Half \in Nat /\ 0 \in Time
  BY Numbers DEF Time
<1>3. longer \in 0 .. ProbeLimit
  BY <1>1, <1>2 DEF Smaller
<1> HIDE DEF longer
<1>4. CASE k.rmt_wnd # 0
  <2>1. p = [k EXCEPT !.probe_wait = 0, !.ts_probe = 0]
    BY <1>4 DEF Probed
  <2>2. p.probe_wait = 0 /\ p.ts_probe = 0
    BY <1>1, <2>1 DEF Blocks
  <2> QED
    BY <1>2, <2>1, <2>2
<1>5. ASSUME k.rmt_wnd = 0, NEW w \in 0 .. ProbeLimit,
             p = [k EXCEPT !.probe_wait = w, !.ts_probe = Plus(k.current, w)]
      PROVE  /\ p = [k EXCEPT !.probe_wait = p.probe_wait, !.ts_probe = p.ts_probe]
             /\ p.probe_wait \in 0 .. ProbeLimit /\ p.ts_probe \in Time
             /\ p.probe_wait > 0 => Diff(p.ts_probe, k.current) \in 1 .. ProbeLimit
  <2>1. p.probe_wait = w /\ p.ts_probe = Plus(k.current, w)
    BY <1>1, <1>5 DEF Blocks
  <2>2. Diff(p.ts_probe, k.current) = w /\ p.ts_probe \in Time
    BY <1>1, <1>2, <2>1, DiffPlus
  <2> QED
    BY <1>2, <1>5, <2>1, <2>2
<1>6. CASE k.rmt_wnd = 0 /\ k.probe_wait = 0
  <2>1. p = [k EXCEPT !.probe_wait = ProbeInit, !.ts_probe = Plus(k.current, ProbeInit)]
    BY <1>6 DEF Probed
  <2> QED
    BY <1>2, <1>5, <1>6, <2>1
<1>7. CASE k.rmt_wnd = 0 /\ k.probe_wait # 0 /\ Diff(k.current, k.ts_probe) >= 0
  <2>1. p = [k EXCEPT !.probe_wait = longer, !.ts_probe = Plus(k.current, longer)]
    BY <1>7 DEF Probed, longer
  <2> QED
    BY <1>3, <1>5, <1>7, <2>1
<1>8. CASE k.rmt_wnd = 0 /\ k.probe_wait # 0 /\ ~ (Diff(k.current, k.ts_probe) >= 0)
  <2>1. p = k
    BY <1>8 DEF Probed
  <2>2. p = [k EXCEPT !.probe_wait = p.probe_wait, !.ts_probe = p.ts_probe]
    BY <1>1, <2>1 DEF Blocks
  <2>3. Diff(k.ts_probe, k.current) \in 1 - Half .. ProbeLimit
    BY <1>1, <1>8
  <2>4. /\ Diff(k.ts_probe, k.current) \in Int /\ Diff(k.ts_probe, k.current) > - Half
        /\ Diff(k.ts_probe, k.current) <= ProbeLimit
    BY <1>2, <2>3
  <2>5. Diff(k.current, k.ts_probe) = - Diff(k.ts_probe, k.current)
    BY <1>1, <2>4, DiffSwap
  <2>6. Diff(k.ts_probe, k.current) \in 1 .. ProbeLimit
    BY <1>2, <1>8, <2>4, <2>5
  <2> QED
    BY <1>1, <1>8, <2>1, <2>2, <2>6
<1> QED
  BY <1>4, <1>6, <1>7, <1>8

\* A segment that leaves has its timer in the future, set right if the time of the
\* stamp is not old.
LEMMA LeavesOK ==
  ASSUME NEW k, BlockOK(k), NEW t \in Time, awake \in BOOLEAN,
         k.updated /\ awake => Diff(t, k.current) \in 0 .. Late,
         NEW rto \in RtoMin .. RtoCap, NEW due \in rto .. rto + rto \div 8, due < Half
  PROVE  /\ Leaves(k, rto, due, t) \in Segment
         /\ SegmentOK(Leaves(k, rto, due, t))
         /\ Diff(k.current, Leaves(k, rto, due, t).resendts) < 0
<1> DEFINE s == Leaves(k, rto, due, t)
<1>1. k.current \in Int /\ k.updated \in BOOLEAN /\ t \in Int
  BY TimeInt DEF BlockOK, Blocks
<1>2. rto \in Nat /\ rto >= 1 /\ due \in Nat /\ due >= rto /\ due <= rto + rto \div 8
      /\ rto <= RtoCap /\ rto >= RtoMin
  BY Numbers
<1>3. /\ Diff(Plus(k.current, due), k.current) = due
      /\ Diff(k.current, Plus(k.current, due)) = - due /\ Plus(k.current, due) \in Time
  BY <1>1, <1>2, DiffPlus
<1>4. /\ s.resendts = Plus(k.current, due) /\ s.rto = rto /\ s.fastack = 0 /\ s.wire = t
      /\ s.timed = (k.updated /\ awake)
  BY DEF Leaves
<1>5. s \in Segment
  <2>1. rto \in 0 .. RtoCap /\ 0 \in 0 .. FastResend /\ (k.updated /\ awake) \in BOOLEAN
    BY <1>1, <1>2, Numbers
  <2> QED
    BY <1>3, <2>1 DEF Leaves, Segment
<1>6. ASSUME s.timed PROVE Diff(s.resendts, s.wire) \in s.rto - Late .. s.rto + s.rto \div 8
  <2>0. k.updated /\ awake
    BY <1>4, <1>6, Zenon
  <2>1. Diff(t, k.current) \in 0 .. Late /\ Late \in Nat /\ Late < Half
    BY <2>0, Numbers DEF Late
  <2>2. Diff(k.current, t) = - Diff(t, k.current)
    <3>1. Diff(t, k.current) > - Half
      BY <2>1, Numbers
    <3> QED
      BY <1>1, <3>1, DiffSwap
  <2> DEFINE x == Diff(Plus(k.current, due), k.current) + Diff(k.current, t)
  <2>3. x \in Int /\ x <= due /\ x >= due - Late /\ x < Half /\ x >= Half - Mod
    BY <1>2, <1>3, <2>1, <2>2, Numbers
  <2> HIDE DEF x
  <2>4. Plus(k.current, due) \in Int
    BY <1>3, TimeInt
  <2>5. Diff(Plus(k.current, due), t) = x
    BY <1>1, <2>3, <2>4, DiffSum DEF x
  <2> QED
    BY <1>2, <1>4, <2>1, <2>3, <2>5
<1>7. SegmentOK(s)
  BY <1>2, <1>4, <1>6 DEF SegmentOK
<1>8. Diff(k.current, s.resendts) < 0
  BY <1>2, <1>3, <1>4
<1> QED
  BY <1>5, <1>7, <1>8

\* Two control blocks differ in the congestion window alone, and it is right.
WindowMoved(k, c) ==
  /\ c = [k EXCEPT !.ssthresh = c.ssthresh, !.cwnd = c.cwnd, !.incr = c.incr]
  /\ c.ssthresh \in Nat /\ c.cwnd \in Nat /\ c.incr \in Nat
  /\ c.ssthresh >= 2 /\ c.cwnd = c.incr \div Mss

\* The congestion window after a flush is one in segments and in bytes.
LEMMA CongestedOK ==
  ASSUME NEW k, BlockOK(k), NEW w \in Int, NEW inflight \in Int,
         NEW fast \in BOOLEAN, NEW lost \in BOOLEAN
  PROVE  WindowMoved(k, Congested(k, w, inflight, fast, lost))
<1> DEFINE c == Congested(k, w, inflight, fast, lost)
           half == IF lost THEN w \div 2 ELSE inflight \div 2
           ssthresh == IF lost \/ fast THEN Larger(half, 2) ELSE k.ssthresh
           cwnd == IF lost THEN 1 ELSE IF fast THEN ssthresh + FastResend ELSE k.cwnd
           wide == Larger(cwnd, 1)
<1>1. k \in Blocks /\ k.ssthresh \in Nat /\ k.ssthresh >= 2 /\ k.cwnd \in Nat /\ k.incr \in Nat
  BY DEF BlockOK, Blocks
<1>2. half \in Int
  <2>1. w \div 2 \in Int /\ inflight \div 2 \in Int
    OBVIOUS
  <2> QED
    BY <2>1
<1> HIDE DEF half
<1>3. ssthresh \in Nat /\ ssthresh >= 2
  BY <1>1, <1>2 DEF Larger
<1> HIDE DEF ssthresh
<1>4. cwnd \in Nat
  BY <1>1, <1>3, Numbers
<1> HIDE DEF cwnd
<1>5. wide \in Nat
  BY <1>4 DEF Larger
<1> HIDE DEF wide
<1>6. wide * Mss \in Nat /\ (wide * Mss) \div Mss = wide
  <2>1. Mss \in Nat \ {0} /\ 0 \in 0 .. Mss - 1
    BY Numbers
  <2>2. (Mss * wide + 0) \div Mss = wide
    BY <1>5, <2>1, QuotientIs
  <2>3. Mss * wide + 0 = wide * Mss /\ wide * Mss \in Nat
    BY <1>5, <2>1
  <2> QED
    BY <2>2, <2>3
<1>7. CASE lost \/ fast \/ cwnd < 1
  <2>1. c = [k EXCEPT !.ssthresh = ssthresh, !.cwnd = wide, !.incr = wide * Mss]
    BY <1>7 DEF Congested, half, ssthresh, cwnd, wide
  <2>2. c.ssthresh = ssthresh /\ c.cwnd = wide /\ c.incr = wide * Mss
    BY <1>1, <2>1 DEF Blocks
  <2> QED
    BY <1>3, <1>5, <1>6, <2>1, <2>2 DEF WindowMoved
<1>8. CASE ~ (lost \/ fast \/ cwnd < 1)
  <2>1. c = k
    BY <1>8 DEF Congested, half, ssthresh, cwnd
  <2>2. c = [k EXCEPT !.ssthresh = c.ssthresh, !.cwnd = c.cwnd, !.incr = c.incr]
    BY <1>1, <2>1 DEF Blocks
  <2> QED
    BY <1>1, <2>1, <2>2 DEF BlockOK, WindowMoved
<1> QED
  BY <1>7, <1>8

\* What a segment looks like after a flush.
LEMMA SegmentsLeave ==
  ASSUME NEW k, BlockOK(k), NEW t \in Time, awake \in BOOLEAN,
         k.updated /\ awake => Diff(t, k.current) \in 0 .. Late
  PROVE  /\ /\ First(k, t) \in Segment /\ SegmentOK(First(k, t))
            /\ Diff(k.current, First(k, t).resendts) < 0
         /\ \A sn \in DOMAIN k.snd_buf :
              LET again == Again(k, k.snd_buf[sn], t)
                  fast == Fast(k, k.snd_buf[sn], t) IN
              /\ again \in Segment /\ SegmentOK(again) /\ Diff(k.current, again.resendts) < 0
              /\ fast \in Segment /\ SegmentOK(fast) /\ Diff(k.current, fast.resendts) < 0
<1>1. /\ k \in Blocks /\ k.rx_rto \in RtoMin .. RtoMax
      /\ \A sn \in DOMAIN k.snd_buf : k.snd_buf[sn] \in Segment /\ SegmentOK(k.snd_buf[sn])
  BY BufferFacts DEF BlockOK, Blocks
<1>2. /\ RtoMin \in Nat /\ RtoMax \in Nat /\ RtoCap \in Nat /\ 0 < RtoMin /\ RtoMin <= RtoMax
      /\ RtoMax <= RtoCap /\ RtoCap + RtoMax <= Half /\ Half \in Nat
  BY Numbers
<1>3. /\ First(k, t) \in Segment /\ SegmentOK(First(k, t))
      /\ Diff(k.current, First(k, t).resendts) < 0
  <2> DEFINE rto == k.rx_rto
             due == rto + (IF NoDelay THEN 0 ELSE rto \div 8)
  <2>1. rto \in RtoMin .. RtoCap /\ rto \in Nat /\ rto >= 1
    BY <1>1, <1>2
  <2>2. rto \div 8 \in 0 .. rto - 1
    BY <2>1
  <2>3. due \in rto .. rto + rto \div 8 /\ due < Half
    BY <1>1, <1>2, <2>1, <2>2
  <2>4. First(k, t) = Leaves(k, rto, due, t)
    BY DEF First
  <2> HIDE DEF rto, due
  <2> QED
    BY <2>1, <2>3, <2>4, LeavesOK
<1>4. ASSUME NEW sn \in DOMAIN k.snd_buf
      PROVE  LET again == Again(k, k.snd_buf[sn], t)
                 fast == Fast(k, k.snd_buf[sn], t) IN
             /\ again \in Segment /\ SegmentOK(again) /\ Diff(k.current, again.resendts) < 0
             /\ fast \in Segment /\ SegmentOK(fast) /\ Diff(k.current, fast.resendts) < 0
  <2> DEFINE s == k.snd_buf[sn]
             again == Again(k, s, t)
             fast == Fast(k, s, t)
             rto == Smaller(s.rto + (IF NoDelay THEN k.rx_rto \div 2 ELSE k.rx_rto), RtoCap)
             leaves == Leaves(k, rto, rto, t)
  <2>1. /\ s \in Segment /\ s.rto \in RtoMin .. RtoCap /\ s.fastack \in 0 .. FastResend
        /\ s.rto \in Nat
    BY <1>1, <1>2 DEF Segment, SegmentOK
  <2>2. rto \in RtoMin .. RtoCap
    <3>1. k.rx_rto \in Nat /\ k.rx_rto \div 2 \in Nat
      BY <1>1, <1>2
    <3> QED
      BY <1>2, <2>1, <3>1 DEF Smaller
  <2>3. ASSUME NEW r \in RtoMin .. RtoCap PROVE r \in r .. r + r \div 8 /\ r < Half
    <3>1. r \in Nat /\ r \div 8 \in Nat
      BY <1>2
    <3> QED
      BY <1>2, <3>1
  <2>4. leaves \in Segment /\ SegmentOK(leaves) /\ Diff(k.current, leaves.resendts) < 0
    <3> HIDE DEF rto
    <3> QED
      BY <2>2, <2>3, LeavesOK
  <2>5. fast \in Segment /\ SegmentOK(fast) /\ Diff(k.current, fast.resendts) < 0
    BY <2>1, <2>3, LeavesOK DEF Fast
  <2>6. again = [leaves EXCEPT !.fastack = s.fastack]
    BY DEF Again
  <2> HIDE DEF leaves, again
  <2>7. /\ again \in Segment /\ again.resendts = leaves.resendts /\ again.rto = leaves.rto
        /\ again.wire = leaves.wire /\ again.timed = leaves.timed
    BY <2>1, <2>4, <2>6 DEF Segment
  <2>8. SegmentOK(again)
    BY <2>4, <2>7 DEF SegmentOK
  <2> QED
    BY <2>4, <2>5, <2>7, <2>8 DEF again
<1> QED
  BY <1>3, <1>4

\* ikcp_flush: what it leaves alone, and that every timer is in the future after it.
LEMMA FlushedOK ==
  ASSUME NEW k, BlockOK(k), NEW t \in Time, awake \in BOOLEAN,
         k.updated /\ awake => Diff(t, k.current) \in 0 .. Late,
         k.probe_wait > 0 => Diff(k.ts_probe, k.current) \in 1 - Half .. ProbeLimit
  PROVE  LET f == Flushed(k, t) IN
         /\ BlockOK(f) /\ f.ackcount = 0
         /\ f.current = k.current /\ f.updated = k.updated /\ f.ts_flush = k.ts_flush
         /\ \A sn \in DOMAIN f.snd_buf : Diff(k.current, f.snd_buf[sn].resendts) < 0
         /\ f.probe_wait > 0 => Diff(f.ts_probe, k.current) \in 1 .. ProbeLimit
         /\ k.rmt_wnd # 0 => f.probe_wait = 0
<1> DEFINE w == Window(k)
           room == snd_una(k) + w - k.snd_nxt
           n == Larger(0, Smaller(room, k.nsnd_que))
           nxt == k.snd_nxt + n
           new == k.snd_nxt .. nxt - 1
           dom == DOMAIN k.snd_buf \cup new
           buf == [sn \in DOMAIN k.snd_buf \cup new |->
                     IF sn \in new THEN First(k, t)
                     ELSE IF sn \in Overdue(k) THEN Again(k, k.snd_buf[sn], t)
                     ELSE IF sn \in Skipped(k) THEN Fast(k, k.snd_buf[sn], t)
                     ELSE k.snd_buf[sn]]
           p == Probed(k)
           sent == [p EXCEPT !.ackcount = 0, !.nsnd_que = @ - n, !.snd_nxt = nxt,
                             !.snd_buf = buf, !.early = @ \/ (~ k.updated /\ n > 0)]
           inflight == nxt - snd_una(k)
           fast == Skipped(k) # {}
           lost == Overdue(k) # {}
           f == Congested(sent, w, inflight, fast, lost)
<1>1. Flushed(k, t) = f
  BY DEF Flushed
<1>2. /\ k \in Blocks /\ DOMAIN k.snd_buf \subseteq 0 .. k.snd_nxt - 1
      /\ k.cwnd = k.incr \div Mss /\ k.ssthresh >= 2 /\ k.probe_wait <= ProbeLimit
      /\ k.current \in Time /\ k.nsnd_que \in Nat /\ k.snd_nxt \in Nat
      /\ k.cwnd \in Nat /\ k.rmt_wnd \in Nat /\ k.ssthresh \in Nat /\ k.incr \in Nat
      /\ k.early \in BOOLEAN
  BY DEF BlockOK, Blocks
<1>3. snd_una(k) \in Nat
  BY <1>2, UnaNat
<1>4. w \in Nat
  BY <1>2, Numbers DEF Window, Smaller
<1>5. n \in 0 .. k.nsnd_que
  <2> HIDE DEF w
  <2>1. room \in Int
    BY <1>2, <1>3, <1>4
  <2> HIDE DEF room
  <2> QED
    BY <1>2, <2>1 DEF Larger, Smaller
<1> HIDE DEF w, n
<1>6. nxt \in Nat /\ inflight \in Int /\ k.nsnd_que - n \in Nat /\ new \subseteq Nat
      /\ dom \subseteq 0 .. nxt - 1 /\ dom \in SUBSET Nat
  BY <1>2, <1>3, <1>5
<1> HIDE DEF nxt, new
<1>7. \A sn \in dom : /\ buf[sn] \in Segment /\ SegmentOK(buf[sn])
                       /\ Diff(k.current, buf[sn].resendts) < 0
  <2> SUFFICES ASSUME NEW sn \in dom
               PROVE  /\ buf[sn] \in Segment /\ SegmentOK(buf[sn])
                      /\ Diff(k.current, buf[sn].resendts) < 0
    OBVIOUS
  <2>1. buf[sn] = IF sn \in new THEN First(k, t)
                  ELSE IF sn \in Overdue(k) THEN Again(k, k.snd_buf[sn], t)
                  ELSE IF sn \in Skipped(k) THEN Fast(k, k.snd_buf[sn], t)
                  ELSE k.snd_buf[sn]
    OBVIOUS
  <2> HIDE DEF buf
  <2>2. CASE sn \in new
    BY <2>1, <2>2, SegmentsLeave
  <2>3. CASE sn \notin new /\ (sn \in Overdue(k) \/ sn \in Skipped(k))
    <3>1. sn \in DOMAIN k.snd_buf
      BY <2>3 DEF Overdue, Skipped
    <3> QED
      BY <2>1, <2>3, <3>1, SegmentsLeave
  <2>4. CASE sn \notin new /\ sn \notin Overdue(k) /\ sn \notin Skipped(k)
    <3>1. sn \in DOMAIN k.snd_buf /\ buf[sn] = k.snd_buf[sn]
      BY <2>1, <2>4
    <3>2. k.snd_buf[sn] \in Segment /\ SegmentOK(k.snd_buf[sn])
      BY <1>2, <3>1, BufferFacts DEF BlockOK
    <3>3. ~ (Diff(k.current, k.snd_buf[sn].resendts) >= 0)
      BY <2>4, <3>1 DEF Overdue
    <3>4. k.snd_buf[sn].resendts \in Int /\ k.current \in Int
      BY <1>2, <3>2, TimeInt DEF Segment
    <3>5. Diff(k.current, k.snd_buf[sn].resendts) \in Int
      BY <3>4, DiffSwap
    <3> QED
      BY <3>1, <3>2, <3>3, <3>5
  <2> QED
    BY <2>2, <2>3, <2>4
<1>8. DOMAIN buf = dom /\ buf \in Buffers
  <2>1. DOMAIN buf = dom
    OBVIOUS
  <2>2. buf \in [dom -> Segment]
    BY <1>7
  <2> HIDE DEF buf, dom
  <2> QED
    BY <1>6, <2>1, <2>2 DEF Buffers
<1> HIDE DEF buf
<1>9. /\ p = [k EXCEPT !.probe_wait = p.probe_wait, !.ts_probe = p.ts_probe]
      /\ p.probe_wait \in 0 .. ProbeLimit /\ p.ts_probe \in Time
      /\ p.probe_wait > 0 => Diff(p.ts_probe, k.current) \in 1 .. ProbeLimit
      /\ k.rmt_wnd # 0 => p.probe_wait = 0
  BY ProbedOK
<1> DEFINE pw == p.probe_wait
           tp == p.ts_probe
           early == k.early \/ (~ k.updated /\ n > 0)
<1> HIDE DEF p
<1>10. /\ pw \in Nat /\ pw <= ProbeLimit /\ early \in BOOLEAN
  BY <1>2, <1>9, Numbers
<1>11. sent = [k EXCEPT !.probe_wait = pw, !.ts_probe = tp, !.ackcount = 0,
                        !.nsnd_que = k.nsnd_que - n, !.snd_nxt = nxt, !.snd_buf = buf,
                        !.early = early]
  <2> HIDE DEF pw, tp
  <2>1. p = [k EXCEPT !.probe_wait = pw, !.ts_probe = tp]
    BY <1>9 DEF pw, tp
  <2>2. p.early = k.early /\ p.nsnd_que = k.nsnd_que
    BY <1>2, <2>1 DEF Blocks
  <2>3. sent = [p EXCEPT !.ackcount = 0, !.nsnd_que = k.nsnd_que - n, !.snd_nxt = nxt,
                         !.snd_buf = buf, !.early = early]
    BY <1>2, <2>1, <2>2 DEF Blocks
  <2> QED
    BY <1>2, <2>1, <2>3 DEF Blocks
<1> HIDE DEF sent, early, pw, tp
<1>12. /\ sent \in Blocks
       /\ sent.probe_wait = pw /\ sent.ts_probe = tp /\ sent.ackcount = 0
       /\ sent.snd_nxt = nxt /\ sent.snd_buf = buf
       /\ sent.current = k.current /\ sent.updated = k.updated /\ sent.ts_flush = k.ts_flush
       /\ sent.cwnd = k.cwnd /\ sent.incr = k.incr /\ sent.ssthresh = k.ssthresh
  <2>1. tp \in Time
    BY <1>9 DEF tp
  <2> QED
    BY <1>2, <1>6, <1>8, <1>10, <1>11, <2>1 DEF Blocks
<1>13. BlockOK(sent)
  BY <1>2, <1>6, <1>7, <1>8, <1>10, <1>12 DEF BlockOK
<1>14. fast \in BOOLEAN /\ lost \in BOOLEAN /\ w \in Int
  BY <1>4
<1> HIDE DEF fast, lost, inflight
<1>15. /\ f = [sent EXCEPT !.ssthresh = f.ssthresh, !.cwnd = f.cwnd, !.incr = f.incr]
       /\ f.ssthresh \in Nat /\ f.cwnd \in Nat /\ f.incr \in Nat
       /\ f.ssthresh >= 2 /\ f.cwnd = f.incr \div Mss
  <2>1. WindowMoved(sent, f)
    BY <1>6, <1>13, <1>14, CongestedOK
  <2> QED
    BY <2>1 DEF WindowMoved
<1> HIDE DEF f
<1>16. /\ f \in Blocks
       /\ f.probe_wait = pw /\ f.ts_probe = tp /\ f.ackcount = 0
       /\ f.snd_nxt = nxt /\ f.snd_buf = buf
       /\ f.current = k.current /\ f.updated = k.updated /\ f.ts_flush = k.ts_flush
  <2> DEFINE a == f.ssthresh
             b == f.cwnd
             c == f.incr
  <2>1. f = [sent EXCEPT !.ssthresh = a, !.cwnd = b, !.incr = c]
        /\ a \in Nat /\ b \in Nat /\ c \in Nat
    BY <1>15
  <2> HIDE DEF a, b, c
  <2> QED
    BY <1>12, <2>1 DEF Blocks
<1>17. BlockOK(f)
  BY <1>6, <1>7, <1>8, <1>10, <1>15, <1>16 DEF BlockOK
<1>18. \A sn \in DOMAIN f.snd_buf : Diff(k.current, f.snd_buf[sn].resendts) < 0
  BY <1>7, <1>8, <1>16
<1>19. /\ f.probe_wait > 0 => Diff(f.ts_probe, k.current) \in 1 .. ProbeLimit
       /\ k.rmt_wnd # 0 => f.probe_wait = 0
  BY <1>9, <1>16 DEF pw, tp
<1> QED
  BY <1>1, <1>16, <1>17, <1>18, <1>19

-----------------------------------------------------------------------------
(* ikcp_update and ikcp_check                                              *)

\* How far a time is from the next flush, and the probe from a time.
LEMMA Elapsed ==
  ASSUME NEW k, BlockOK(k), NEW t \in Time, TimersOK(k),
         Diff(t, k.current) \in 0 .. Half - Slap - 1
  PROVE  /\ Diff(t, k.ts_flush) = Diff(t, k.current) - Ahead(k)
         /\ Diff(k.ts_flush, t) = Ahead(k) - Diff(t, k.current)
         /\ k.probe_wait > 0 =>
              /\ Diff(k.ts_probe, t) = Diff(k.ts_probe, k.current) - Diff(t, k.current)
              /\ Diff(k.ts_probe, t) \in 1 - Half .. ProbeLimit
<1>1. k.current \in Int /\ k.ts_flush \in Int /\ k.ts_probe \in Int /\ t \in Int
  BY TimeInt DEF BlockOK, Blocks
<1>2. /\ Half \in Nat /\ Mod \in Nat /\ 2 * Half <= Mod /\ Slap \in Nat /\ 2 * Slap <= Half
      /\ Interval \in Nat /\ Interval < Slap /\ ProbeLimit \in Nat /\ ProbeLimit < Half
  BY Numbers
<1> DEFINE age == Diff(t, k.current)
           ahead == Ahead(k)
<1>3. age \in Int /\ age >= 0 /\ age < Half - Slap /\ ahead \in Int /\ ahead >= 1
      /\ ahead <= Interval
  BY <1>2 DEF TimersOK
<1>4. Diff(k.current, k.ts_flush) = - ahead
  <2>1. Diff(k.ts_flush, k.current) = ahead /\ ahead > - Half
    BY <1>2, <1>3 DEF Ahead
  <2> QED
    BY <1>1, <2>1, DiffSwap
<1>5. Diff(k.current, t) = - age
  <2>1. age > - Half
    BY <1>2, <1>3
  <2> QED
    BY <1>1, <2>1, DiffSwap
<1>6. Diff(t, k.ts_flush) = age - ahead
  <2>1. age + (- ahead) >= Half - Mod /\ age + (- ahead) < Half
    BY <1>2, <1>3
  <2>2. Diff(t, k.ts_flush) = age + (- ahead)
    BY <1>1, <1>4, <2>1, DiffSum
  <2> QED
    BY <1>3, <2>2
<1>7. Diff(k.ts_flush, t) = ahead - age
  <2>1. Diff(k.ts_flush, k.current) = ahead
    BY DEF Ahead
  <2>2. ahead + (- age) >= Half - Mod /\ ahead + (- age) < Half
    BY <1>2, <1>3
  <2>3. Diff(k.ts_flush, t) = ahead + (- age)
    BY <1>1, <1>5, <2>1, <2>2, DiffSum
  <2> QED
    BY <1>3, <2>3
<1>8. ASSUME k.probe_wait > 0
      PROVE  /\ Diff(k.ts_probe, t) = Diff(k.ts_probe, k.current) - age
             /\ Diff(k.ts_probe, t) \in 1 - Half .. ProbeLimit
  <2> DEFINE x == Diff(k.ts_probe, k.current)
  <2>1. x \in Int /\ x >= ahead - Interval + 1 /\ x <= ProbeLimit
    BY <1>2, <1>3, <1>8 DEF TimersOK
  <2>2. x + (- age) >= Half - Mod /\ x + (- age) < Half
    BY <1>2, <1>3, <2>1
  <2>3. Diff(k.ts_probe, t) = x + (- age)
    BY <1>1, <1>5, <2>2, DiffSum
  <2> HIDE DEF x, age, ahead
  <2>4. x + (- age) = x - age /\ x - age \in 1 - Half .. ProbeLimit
    BY <1>2, <1>3, <2>1
  <2> QED
    BY <2>3, <2>4 DEF x
<1> QED
  BY <1>6, <1>7, <1>8

\* The time of the flush after one that was due.
LEMMA NextFlush ==
  ASSUME NEW t \in Time, NEW due \in Time, Diff(t, due) \in 0 .. Slap,
         NEW x, x = IF Diff(t, Plus(due, Interval)) >= 0 THEN Plus(t, Interval)
                    ELSE Plus(due, Interval)
  PROVE  x \in Time /\ Diff(x, t) \in 1 .. Interval
<1>1. t \in Int /\ due \in Int
  BY TimeInt
<1>2. /\ Half \in Nat /\ Mod \in Nat /\ 2 * Half <= Mod /\ Slap \in Nat /\ 2 * Slap <= Half
      /\ Interval \in Nat /\ Interval < Slap /\ 0 < Interval /\ Interval < Half
  BY Numbers
<1> DEFINE late == Diff(t, due)
           next == Plus(due, Interval)
<1>3. late \in Int /\ late >= 0 /\ late <= Slap
  BY <1>2
<1>4. Diff(due, next) = - Interval /\ Diff(next, due) = Interval /\ next \in Time
  BY <1>1, <1>2, DiffPlus
<1>5. next \in Int
  BY <1>4, TimeInt
<1>6. Diff(t, next) = late - Interval
  <2>1. late + (- Interval) >= Half - Mod /\ late + (- Interval) < Half
    BY <1>2, <1>3
  <2> HIDE DEF next
  <2>2. Diff(t, next) = late + (- Interval)
    BY <1>1, <1>4, <1>5, <2>1, DiffSum
  <2> QED
    BY <1>2, <1>3, <2>2
<1>7. CASE Diff(t, next) >= 0
  <2>1. x = Plus(t, Interval)
    BY <1>7
  <2>2. Diff(Plus(t, Interval), t) = Interval /\ Plus(t, Interval) \in Time
    BY <1>1, <1>2, DiffPlus
  <2> QED
    BY <1>2, <2>1, <2>2
<1>8. CASE ~ (Diff(t, next) >= 0)
  <2>1. x = next
    BY <1>8
  <2> HIDE DEF next, late
  <2>2. late - Interval < 0 /\ late - Interval > - Half
    BY <1>2, <1>3, <1>6, <1>8
  <2>3. Diff(next, t) = - (late - Interval)
    BY <1>1, <1>5, <1>6, <2>2, DiffSwap
  <2> QED
    BY <1>2, <1>3, <1>4, <2>1, <2>2, <2>3
<1> QED
  BY <1>7, <1>8

\* ikcp_update: all timers are right for the new time, and either it flushed or the
\* next flush has come nearer by the time that passed.
LEMMA UpdatedOK ==
  ASSUME NEW k, BlockOK(k), NEW t \in Time, awake \in BOOLEAN,
         k.updated => TimersOK(k) /\ Diff(t, k.current) \in 0 .. Half - Slap - 1,
         ~ k.updated => k.probe_wait = 0
  PROVE  LET u == Updated(k, t) IN
         /\ BlockOK(u) /\ u.updated = TRUE /\ u.current = t /\ TimersOK(u)
         /\ \/ u.ackcount = 0
            \/ /\ k.updated /\ u.ackcount = k.ackcount
               /\ Ahead(u) = Ahead(k) - Diff(t, k.current)
<1> DEFINE due == IF ~ k.updated \/ FarFrom(t, k.ts_flush) THEN t ELSE k.ts_flush
           next == Plus(due, Interval)
           x == IF Diff(t, next) >= 0 THEN Plus(t, Interval) ELSE next
           k1 == [k EXCEPT !.current = t, !.updated = TRUE, !.ts_flush = due]
           k2 == [k1 EXCEPT !.ts_flush = x]
           u == Updated(k, t)
<1>1. u = IF Diff(t, due) >= 0 THEN Flushed(k2, t) ELSE k1
  BY DEF Updated
<1>2. /\ k \in Blocks /\ k.current \in Time /\ k.ts_flush \in Time /\ k.ts_probe \in Time
      /\ k.updated \in BOOLEAN /\ k.probe_wait \in Nat
  BY DEF BlockOK, Blocks
<1>3. /\ Half \in Nat /\ Mod \in Nat /\ 2 * Half <= Mod /\ Slap \in Nat /\ 2 * Slap <= Half
      /\ Interval \in Nat /\ Interval < Slap /\ 0 < Interval /\ Interval < Half /\ 0 < Half
      /\ ProbeLimit \in Nat /\ Late \in Nat
  BY Numbers DEF Late
<1>4. t \in Int /\ k.current \in Int /\ k.ts_flush \in Int /\ k.ts_probe \in Int
  BY <1>2, TimeInt
<1>5. Diff(t, t) = 0
  BY <1>4, DiffSwap
<1>6. due \in Time
  BY <1>2
<1>7. k.probe_wait > 0 => k.updated
  BY <1>2
<1>8. k.probe_wait > 0 => Diff(k.ts_probe, t) \in 1 - Half .. ProbeLimit
  BY <1>7, Elapsed
<1>9. CASE Diff(t, due) >= 0
  <2>1. Diff(t, due) \in 0 .. Slap
    <3>1. CASE due = t
      BY <1>3, <1>5, <3>1
    <3>2. CASE due # t
      <4>1. due = k.ts_flush /\ ~ FarFrom(t, k.ts_flush) /\ Diff(t, k.ts_flush) \in Int
        BY <1>4, <3>2, DiffSwap
      <4> QED
        BY <1>3, <1>9, <4>1 DEF FarFrom
    <3> QED
      BY <3>1, <3>2
  <2>2. x \in Time /\ Diff(x, t) \in 1 .. Interval
    <3> HIDE DEF due
    <3> QED
      BY <1>6, <2>1, NextFlush
  <2> HIDE DEF due, x
  <2>3. /\ k2 \in Blocks /\ k2.current = t /\ k2.updated = TRUE /\ k2.ts_flush = x
        /\ k2.snd_buf = k.snd_buf /\ k2.snd_nxt = k.snd_nxt /\ k2.cwnd = k.cwnd
        /\ k2.incr = k.incr /\ k2.ssthresh = k.ssthresh /\ k2.probe_wait = k.probe_wait
        /\ k2.ts_probe = k.ts_probe
    BY <1>2, <1>6, <2>2 DEF Blocks
  <2> HIDE DEF k2
  <2>4. BlockOK(k2)
    BY <2>3 DEF BlockOK
  <2>5. k2.probe_wait > 0 => Diff(k2.ts_probe, k2.current) \in 1 - Half .. ProbeLimit
    BY <1>8, <2>3
  <2>6. k2.updated /\ awake => Diff(t, k2.current) \in 0 .. Late
    BY <1>3, <1>5, <2>3
  <2>7. u = Flushed(k2, t)
    BY <1>1, <1>9
  <2>8. /\ BlockOK(u) /\ u.ackcount = 0
        /\ u.current = t /\ u.updated = TRUE /\ u.ts_flush = x
        /\ \A sn \in DOMAIN u.snd_buf : Diff(t, u.snd_buf[sn].resendts) < 0
        /\ u.probe_wait > 0 => Diff(u.ts_probe, t) \in 1 .. ProbeLimit
    BY <2>3, <2>4, <2>5, <2>6, <2>7, FlushedOK
  <2> HIDE DEF u
  <2>9. Ahead(u) \in 1 .. Interval
    BY <2>2, <2>8 DEF Ahead
  <2>10. \A sn \in DOMAIN u.snd_buf : Diff(t, u.snd_buf[sn].resendts) + Ahead(u) < Interval
    <3> SUFFICES ASSUME NEW sn \in DOMAIN u.snd_buf
                 PROVE  Diff(t, u.snd_buf[sn].resendts) + Ahead(u) < Interval
      OBVIOUS
    <3>1. u.snd_buf[sn].resendts \in Int
      BY <2>8, BufferFacts, TimeInt DEF BlockOK, Segment
    <3>2. Diff(t, u.snd_buf[sn].resendts) \in Int
      BY <1>4, <3>1, DiffSwap
    <3> QED
      BY <1>3, <2>8, <2>9, <3>2
  <2>11. TimersOK(u)
    BY <1>3, <2>8, <2>9, <2>10 DEF TimersOK
  <2> QED
    BY <2>8, <2>11 DEF u
<1>10. CASE ~ (Diff(t, due) >= 0)
  <2>1. due # t
    BY <1>5, <1>10
  <2>2. k.updated /\ due = k.ts_flush
    BY <2>1
  <2> DEFINE age == Diff(t, k.current)
             ahead == Ahead(k)
  <2>3. /\ age \in Int /\ age >= 0 /\ age < Half - Slap
        /\ ahead \in Int /\ ahead >= 1 /\ ahead <= Interval
    BY <1>3, <2>2 DEF TimersOK
  <2>4. Diff(t, k.ts_flush) = age - ahead /\ Diff(k.ts_flush, t) = ahead - age
    BY <2>2, Elapsed
  <2>5. age < ahead
    BY <1>10, <2>2, <2>3, <2>4
  <2>6. u = [k EXCEPT !.current = t, !.updated = TRUE, !.ts_flush = k.ts_flush]
    BY <1>1, <1>10, <2>2
  <2> HIDE DEF u
  <2>7. /\ u \in Blocks /\ u.current = t /\ u.updated = TRUE /\ u.ts_flush = k.ts_flush
        /\ u.snd_buf = k.snd_buf /\ u.snd_nxt = k.snd_nxt /\ u.cwnd = k.cwnd
        /\ u.incr = k.incr /\ u.ssthresh = k.ssthresh /\ u.probe_wait = k.probe_wait
        /\ u.ts_probe = k.ts_probe /\ u.ackcount = k.ackcount
    BY <1>2, <2>6 DEF Blocks
  <2>8. BlockOK(u)
    BY <2>7 DEF BlockOK
  <2>9. Ahead(u) = ahead - age
    BY <2>4, <2>7 DEF Ahead
  <2>10. ASSUME NEW sn \in DOMAIN u.snd_buf
         PROVE  Diff(t, u.snd_buf[sn].resendts) + Ahead(u) < Interval
    <3> DEFINE r == u.snd_buf[sn].resendts
               y == Diff(k.current, r)
    <3>1. r \in Int
      BY <2>8, BufferFacts, TimeInt DEF BlockOK, Segment
    <3>2. y + ahead < Interval
      BY <2>2, <2>7 DEF TimersOK
    <3> HIDE DEF r
    <3>3. y \in Int /\ y >= Half - Mod
      BY <1>4, <3>1, DiffSwap
    <3>4. Diff(t, r) <= age + y /\ Diff(t, r) \in Int
      <4>1. age + y >= Half - Mod
        BY <1>3, <2>3, <3>3
      <4> QED
        BY <1>4, <3>1, <4>1, DiffSum
    <3> HIDE DEF y, age, ahead
    <3>5. Diff(t, r) + (ahead - age) < Interval
      BY <1>3, <2>3, <3>2, <3>3, <3>4
    <3> QED
      BY <2>9, <3>5 DEF r
  <2>11. ASSUME u.probe_wait > 0
         PROVE  Diff(u.ts_probe, t) \in Ahead(u) - Interval + 1 .. ProbeLimit
    <3> DEFINE y == Diff(k.ts_probe, k.current)
    <3>1. Diff(k.ts_probe, t) = y - age
      BY <2>2, <2>7, <2>11, Elapsed
    <3>2. y \in Int /\ y >= ahead - Interval + 1 /\ y <= ProbeLimit
      BY <1>3, <2>2, <2>3, <2>7, <2>11 DEF TimersOK
    <3> HIDE DEF y, age, ahead
    <3>3. y - age \in (ahead - age) - Interval + 1 .. ProbeLimit
      BY <1>3, <2>3, <3>2
    <3> QED
      BY <2>7, <2>9, <3>1, <3>3
  <2>12. Ahead(u) \in 1 .. Interval
    BY <1>3, <2>3, <2>5, <2>9
  <2>13. TimersOK(u)
    BY <2>7, <2>10, <2>11, <2>12 DEF TimersOK
  <2> QED
    BY <2>2, <2>7, <2>8, <2>9, <2>13 DEF u
<1> QED
  BY <1>9, <1>10

\* An update before the next flush leaves it where it is.
LEMMA NoFlushYet ==
  ASSUME NEW k, BlockOK(k), NEW t \in Time, k.updated, TimersOK(k),
         Diff(t, k.current) \in 0 .. Half - Slap - 1, Diff(t, k.current) < Ahead(k)
  PROVE  Ahead(Updated(k, t)) = Ahead(k) - Diff(t, k.current)
<1> DEFINE age == Diff(t, k.current)
           due == IF ~ k.updated \/ FarFrom(t, k.ts_flush) THEN t ELSE k.ts_flush
           k1 == [k EXCEPT !.current = t, !.updated = TRUE, !.ts_flush = due]
<1>1. /\ Half \in Nat /\ Slap \in Nat /\ Interval \in Nat /\ Interval < Slap
      /\ Ahead(k) \in 1 .. Interval /\ k \in Blocks /\ k.current \in Time /\ k.ts_flush \in Time
  BY Numbers DEF TimersOK, BlockOK, Blocks
<1>2. Diff(t, k.ts_flush) = age - Ahead(k) /\ Diff(k.ts_flush, t) = Ahead(k) - age
  BY Elapsed
<1>3. ~ (Diff(t, k.ts_flush) >= 0) /\ ~ FarFrom(t, k.ts_flush)
  BY <1>1, <1>2 DEF FarFrom
<1>4. due = k.ts_flush
  BY <1>3
<1>5. Updated(k, t) = k1
  BY <1>3, <1>4 DEF Updated
<1>6. k1.current = t /\ k1.ts_flush = k.ts_flush
  BY <1>1, <1>4 DEF Blocks
<1> QED
  BY <1>2, <1>5, <1>6 DEF Ahead

\* ikcp_check: the timer is set for the next flush or for something before it.
LEMMA DelayOK ==
  ASSUME NEW u, BlockOK(u), u.updated = TRUE, TimersOK(u)
  PROVE  /\ Delay(u, u.current) \in 0 .. Interval
         /\ Delay(u, u.current) <= Ahead(u)
<1> DEFINE t == u.current
           ahead == {Diff(u.snd_buf[sn].resendts, t) : sn \in DOMAIN u.snd_buf}
           waits == ahead \cup {Diff(u.ts_flush, t), Interval}
           now_ == \/ ~ u.updated \/ FarFrom(t, u.ts_flush)
                   \/ Diff(t, u.ts_flush) >= 0 \/ \E d \in ahead : d <= 0
<1>1. t \in Time /\ t \in Int /\ Ahead(u) \in 1 .. Interval /\ Interval \in Nat
  BY TimeInt, Numbers DEF BlockOK, Blocks, TimersOK
<1>2. Check(u, t) = IF now_ THEN t ELSE Plus(t, Min(waits))
  BY DEF Check
<1>3. ASSUME now_ PROVE Delay(u, t) = 0
  BY <1>1, <1>2, <1>3 DEF Delay
<1>4. ASSUME ~ now_ PROVE Delay(u, t) \in 0 .. Interval /\ Delay(u, t) <= Ahead(u)
  <2>1. waits \subseteq Nat
    <3>1. \A d \in ahead : d \in Int
      <4> SUFFICES ASSUME NEW sn \in DOMAIN u.snd_buf
                   PROVE  Diff(u.snd_buf[sn].resendts, t) \in Int
        OBVIOUS
      <4>1. u.snd_buf[sn].resendts \in Int
        BY BufferFacts, TimeInt DEF BlockOK, Segment
      <4> QED
        BY <1>1, <4>1, DiffSwap
    <3>2. \A d \in ahead : ~ (d <= 0)
      BY <1>4
    <3>3. Diff(u.ts_flush, t) \in Nat
      BY <1>1 DEF Ahead
    <3> HIDE DEF ahead
    <3> QED
      BY <1>1, <3>1, <3>2, <3>3
  <2>2. Interval \in waits /\ Ahead(u) \in waits
    BY DEF Ahead
  <2> HIDE DEF waits
  <2>3. \E n \in waits : \A m \in waits : n <= m
    BY <2>1, <2>2, Least
  <2> DEFINE n == Min(waits)
  <2>4. n \in waits /\ \A m \in waits : n <= m
    BY <2>3 DEF Min
  <2>5. n \in Nat /\ n <= Interval /\ n <= Ahead(u)
    BY <2>1, <2>2, <2>4
  <2> HIDE DEF n
  <2>6. Check(u, t) = Plus(t, n)
    BY <1>2, <1>4 DEF n
  <2>7. Plus(t, n) \in Time /\ \E k \in Int : Plus(t, n) = t + n + Mod * k
    <3>1. t \in Int /\ n \in Int
      BY <1>1, <2>5
    <3> HIDE DEF t
    <3> QED
      BY <3>1, PlusTurns
  <2> PICK k \in Int : Plus(t, n) = t + n + Mod * k
    BY <2>7
  <2>8. Plus(t, n) \in Int /\ Plus(t, n) <= Mod - 1 /\ Mod \in Nat /\ t >= 0
    BY <1>1, <2>7, Numbers DEF Time
  <2>9. CASE Check(u, t) <= t
    BY <1>1, <2>9 DEF Delay
  <2>10. CASE ~ (Check(u, t) <= t)
    <3>1. Delay(u, t) = n + Mod * k /\ Mod * k \in Int
      BY <1>1, <2>5, <2>6, <2>7, <2>8, <2>10 DEF Delay
    <3>2. n + Mod * k > 0
      BY <1>1, <2>5, <2>6, <2>7, <2>8, <2>10, <3>1
    <3>3. Mod * k <= 0
      <4>1. ASSUME k >= 1 PROVE FALSE
        <5>1. Mod * k >= Mod
          BY <2>8, <4>1
        <5> QED
          BY <1>1, <2>5, <2>7, <2>8, <5>1
      <4>2. k <= 0
        BY <4>1
      <4> QED
        BY <2>8, <4>2
    <3> QED
      BY <1>1, <2>5, <3>1, <3>2, <3>3
  <2> QED
    BY <2>9, <2>10
<1> QED
  BY <1>1, <1>3, <1>4

-----------------------------------------------------------------------------
(* ikcp_input                                                              *)

\* What ikcp_input leaves alone.
Kept(k, c) ==
  /\ c.current = k.current /\ c.updated = k.updated /\ c.ts_flush = k.ts_flush
  /\ c.probe_wait = k.probe_wait /\ c.ts_probe = k.ts_probe

\* ikcp_update_ack keeps the timeout within its bounds.
LEMMA MeasuredOK ==
  ASSUME NEW k, BlockOK(k), NEW rtt \in Nat
  PROVE  LET c == Measured(k, rtt) IN
         /\ BlockOK(c) /\ Kept(k, c) /\ c.snd_buf = k.snd_buf /\ c.snd_nxt = k.snd_nxt
         /\ c.ackcount = k.ackcount
<1> DEFINE delta == IF rtt < k.rx_srtt THEN k.rx_srtt - rtt ELSE rtt - k.rx_srtt
           srtt == IF k.rx_srtt = 0 THEN rtt ELSE Larger((7 * k.rx_srtt + rtt) \div 8, 1)
           var == IF k.rx_srtt = 0 THEN rtt \div 2 ELSE (3 * k.rx_rttval + delta) \div 4
           rto == Bound(RtoMin, srtt + Larger(Interval, 4 * var), RtoMax)
           c == Measured(k, rtt)
<1>1. k \in Blocks /\ k.rx_srtt \in Nat /\ k.rx_rttval \in Nat
  BY DEF BlockOK, Blocks
<1>2. delta \in Nat
  BY <1>1
<1> HIDE DEF delta
<1>3. srtt \in Nat
  <2>1. (7 * k.rx_srtt + rtt) \div 8 \in Nat
    BY <1>1
  <2> QED
    BY <2>1 DEF Larger
<1>4. var \in Nat
  BY <1>1, <1>2
<1> HIDE DEF srtt, var
<1>5. rto \in RtoMin .. RtoMax
  <2>1. Larger(Interval, 4 * var) \in Nat
    BY <1>4, Numbers DEF Larger
  <2>2. srtt + Larger(Interval, 4 * var) \in Nat
    BY <1>3, <2>1
  <2> QED
    BY <2>2, Numbers DEF Bound, Larger, Smaller
<1> HIDE DEF rto
<1>6. c = [k EXCEPT !.rx_srtt = srtt, !.rx_rttval = var, !.rx_rto = rto]
  BY DEF Measured, delta, srtt, var, rto
<1> HIDE DEF c
<1>7. /\ c \in Blocks /\ Kept(k, c) /\ c.snd_buf = k.snd_buf /\ c.snd_nxt = k.snd_nxt
      /\ c.cwnd = k.cwnd /\ c.incr = k.incr /\ c.ssthresh = k.ssthresh
      /\ c.ackcount = k.ackcount
  BY <1>1, <1>3, <1>4, <1>5, <1>6 DEF Blocks, Kept
<1>8. BlockOK(c)
  BY <1>7 DEF BlockOK, Kept
<1> QED
  BY <1>7, <1>8 DEF c

\* The window after an acknowledgement is one in segments and in bytes: an increment
\* is less than a segment, from the two segments on that end slow start.
LEMMA GrownOK ==
  ASSUME NEW k, BlockOK(k)
  PROVE  LET c == Grown(k) IN
         /\ BlockOK(c) /\ Kept(k, c) /\ c.snd_buf = k.snd_buf /\ c.ackcount = k.ackcount
<1> DEFINE c == Grown(k)
           base == Larger(k.incr, Mss)
           incr == base + (Mss * Mss) \div base + Mss \div 16
<1>1. /\ k \in Blocks /\ k.cwnd \in Nat /\ k.incr \in Nat /\ k.ssthresh \in Nat
      /\ k.ssthresh >= 2 /\ k.cwnd = k.incr \div Mss
  BY DEF BlockOK, Blocks
<1>2. Mss \in Nat \ {0}
  BY Numbers
<1>3. PICK r \in 0 .. Mss - 1 : k.incr = Mss * k.cwnd + r
  BY <1>1, <1>2, Division
<1>4. ASSUME NEW w \in Nat, NEW i \in Nat, w = i \div Mss,
             c = [k EXCEPT !.cwnd = w, !.incr = i]
      PROVE  BlockOK(c) /\ Kept(k, c) /\ c.snd_buf = k.snd_buf /\ c.ackcount = k.ackcount
  <2> HIDE DEF c
  <2>1. /\ c \in Blocks /\ Kept(k, c) /\ c.snd_buf = k.snd_buf /\ c.snd_nxt = k.snd_nxt
        /\ c.cwnd = w /\ c.incr = i /\ c.ssthresh = k.ssthresh /\ c.ackcount = k.ackcount
    BY <1>1, <1>4 DEF Blocks, Kept
  <2>2. BlockOK(c)
    BY <1>4, <2>1 DEF BlockOK, Kept
  <2> QED
    BY <2>1, <2>2
<1>5. CASE k.cwnd >= k.rmt_wnd
  <2>1. c = k
    BY <1>5 DEF Grown
  <2> QED
    BY <2>1 DEF Kept
<1>6. CASE ~ (k.cwnd >= k.rmt_wnd) /\ k.cwnd < k.ssthresh
  <2>1. c = [k EXCEPT !.cwnd = k.cwnd + 1, !.incr = k.incr + Mss]
    BY <1>1, <1>6 DEF Grown, Blocks
  <2>2. k.cwnd + 1 \in Nat /\ k.incr + Mss \in Nat /\ k.incr + Mss = Mss * (k.cwnd + 1) + r
    BY <1>1, <1>2, <1>3
  <2>3. k.cwnd + 1 = (k.incr + Mss) \div Mss
    BY <1>2, <2>2, QuotientIs
  <2> QED
    BY <1>4, <2>1, <2>2, <2>3
<1>7. CASE ~ (k.cwnd >= k.rmt_wnd) /\ ~ (k.cwnd < k.ssthresh)
  <2> DEFINE w == IF (k.cwnd + 1) * Mss <= incr THEN k.cwnd + 1 ELSE k.cwnd
  <2>1. c = [k EXCEPT !.incr = incr, !.cwnd = w]
    BY <1>1, <1>7 DEF Grown, Blocks
  <2>2. k.cwnd >= 2 /\ Mss * k.cwnd >= 2 * Mss
    BY <1>1, <1>2, <1>7
  <2>3. base = k.incr /\ base >= 2 * Mss /\ base \in Nat \ {0}
    <3>1. k.incr >= 2 * Mss
      BY <1>1, <1>2, <1>3, <2>2
    <3> QED
      BY <1>1, <1>2, <3>1 DEF Larger
  <2> DEFINE q == (Mss * Mss) \div base
             h == Mss \div 16
  <2> HIDE DEF base
  <2>4. q \in Nat /\ 2 * q <= Mss
    <3>1. Mss * Mss \in Nat
      BY <1>2
    <3>2. q \in Nat /\ Mss * Mss >= base * q
      BY <2>3, <3>1, Division
    <3> HIDE DEF q
    <3>3. base * q >= (2 * Mss) * q
      BY <1>2, <2>3, <3>2
    <3>4. Mss * Mss >= Mss * (2 * q)
      BY <1>2, <2>3, <3>2, <3>3
    <3>5. ASSUME 2 * q >= Mss + 1 PROVE FALSE
      <4>1. Mss * (2 * q) >= Mss * (Mss + 1)
        BY <1>2, <3>2, <3>5
      <4>2. Mss * (Mss + 1) = Mss * Mss + Mss
        BY <1>2
      <4> QED
        BY <1>2, <3>2, <3>4, <4>1, <4>2
    <3> QED
      BY <1>2, <3>2, <3>5
  <2>5. h \in Nat /\ 16 * h <= Mss
    BY <1>2
  <2>6. incr = k.incr + q + h
    BY <2>3
  <2> HIDE DEF q, h, incr
  <2>7. incr \in Nat /\ incr >= k.incr /\ incr < k.incr + Mss
    BY <1>1, <1>2, <2>4, <2>5, <2>6
  <2>8. w \in Nat /\ w = incr \div Mss
    <3>1. CASE (k.cwnd + 1) * Mss <= incr
      <4>1. w = k.cwnd + 1 /\ w \in Nat
        BY <1>1, <3>1
      <4>2. incr - Mss * (k.cwnd + 1) \in 0 .. Mss - 1
            /\ Mss * (k.cwnd + 1) + (incr - Mss * (k.cwnd + 1)) = incr
        BY <1>1, <1>2, <1>3, <2>7, <3>1
      <4> QED
        BY <1>2, <4>1, <4>2, QuotientIs
    <3>2. CASE ~ ((k.cwnd + 1) * Mss <= incr)
      <4>1. w = k.cwnd /\ w \in Nat
        BY <1>1, <3>2
      <4>2. incr - Mss * k.cwnd \in 0 .. Mss - 1 /\ Mss * k.cwnd + (incr - Mss * k.cwnd) = incr
        BY <1>1, <1>2, <1>3, <2>7, <3>2
      <4> QED
        BY <1>2, <4>1, <4>2, QuotientIs
    <3> QED
      BY <3>1, <3>2
  <2> HIDE DEF w
  <2>9. c = [k EXCEPT !.cwnd = w, !.incr = incr]
    BY <1>1, <2>1 DEF Blocks
  <2> QED
    BY <1>4, <2>7, <2>8, <2>9
<1> QED
  BY <1>5, <1>6, <1>7

\* ikcp_input: it sets no timer and moves no time.
LEMMA InputOK ==
  ASSUME NEW k, BlockOK(k), NEW d \in Datagrams(k)
  PROVE  LET c == Input(k, d) IN
         /\ BlockOK(c) /\ Kept(k, c)
         /\ DOMAIN c.snd_buf \subseteq DOMAIN k.snd_buf
         /\ \A sn \in DOMAIN c.snd_buf : c.snd_buf[sn].resendts = k.snd_buf[sn].resendts
<1> DEFINE sn_ == d.ack[1]
           measured == IF d.ack # None /\ d.ack[2] >= 0 THEN Measured(k, d.ack[2]) ELSE k
           left == {x \in DOMAIN k.snd_buf : d.una <= x /\ (d.ack = None \/ x # sn_)}
           skipped == IF d.ack = None THEN {} ELSE {x \in left : x < sn_}
           b == [x \in left |->
                   IF x \in skipped
                   THEN [k.snd_buf[x] EXCEPT !.fastack = Smaller(@ + 1, FastResend)]
                   ELSE k.snd_buf[x]]
           n == IF d.push THEN 1 ELSE measured.ackcount
           k1 == [measured EXCEPT !.rmt_wnd = d.wnd, !.snd_buf = b,
                                  !.ackcount = IF d.push THEN 1 ELSE @]
<1>1. /\ d.wnd \in Nat
      /\ d.ack # None => d.ack[2] \in Int
  <2> DEFINE ages == Rtts \cup IF k.early THEN {Diff(k.current, 0)} ELSE {}
  <2>1. d.wnd \in Wnds /\ d.ack \in {None} \cup ((0 .. k.snd_nxt - 1) \X ages)
    BY DEF Datagrams
  <2>2. Wnds \subseteq Nat /\ Rtts \subseteq Nat
    BY ClockAssumption
  <2>3. k.current \in Int
    BY TimeInt DEF BlockOK, Blocks
  <2>4. Diff(k.current, 0) \in Int
    BY <2>3, DiffSwap
  <2>5. ages \subseteq Int
    <3> DEFINE x == Diff(k.current, 0)
    <3>1. x \in Int
      BY <2>4
    <3>2. ages = Rtts \cup {x} \/ ages = Rtts
      <4>1. CASE k.early
        BY <4>1, Zenon
      <4>2. CASE ~ k.early
        <5>1. ages = Rtts \cup {}
          BY <4>2, Zenon
        <5> QED
          BY <5>1
      <4> QED
        BY <4>1, <4>2
    <3> HIDE DEF ages, x
    <3>3. \A y \in Rtts : y \in Int
      BY <2>2
    <3> QED
      BY <3>1, <3>2, <3>3, Zenon
  <2> HIDE DEF ages
  <2>6. ASSUME d.ack # None PROVE d.ack[2] \in Int
    <3>1. d.ack \in (0 .. k.snd_nxt - 1) \X ages
      BY <2>1, <2>6
    <3>2. d.ack[2] \in ages
      BY <3>1
    <3> QED
      BY <2>5, <3>2
  <2> QED
    BY <2>1, <2>2, <2>6
<1>2. /\ BlockOK(measured) /\ Kept(k, measured) /\ measured.snd_buf = k.snd_buf
      /\ measured.snd_nxt = k.snd_nxt
  <2>1. CASE d.ack # None /\ d.ack[2] >= 0
    <3>1. d.ack[2] \in Nat /\ measured = Measured(k, d.ack[2])
      BY <1>1, <2>1
    <3> HIDE DEF measured
    <3> QED
      BY <3>1, MeasuredOK
  <2>2. CASE ~ (d.ack # None /\ d.ack[2] >= 0)
    <3>1. measured = k
      BY <2>2
    <3> HIDE DEF measured
    <3> QED
      BY <3>1 DEF Kept
  <2> QED
    BY <2>1, <2>2
<1> HIDE DEF measured, skipped
<1>3. left \subseteq DOMAIN k.snd_buf /\ left \subseteq 0 .. k.snd_nxt - 1 /\ left \in SUBSET Nat
  BY <1>2 DEF BlockOK
<1> HIDE DEF left
<1>4. measured \in Blocks /\ measured.ackcount \in Nat /\ n \in Nat
  BY <1>2 DEF BlockOK, Blocks
<1> HIDE DEF b
<1>5. k1 = [measured EXCEPT !.rmt_wnd = d.wnd, !.snd_buf = b, !.ackcount = n]
  BY <1>4 DEF Blocks
<1> USE DEF b
<1>6. ASSUME NEW x \in left
      PROVE  b[x] \in Segment /\ SegmentOK(b[x]) /\ b[x].resendts = k.snd_buf[x].resendts
  <2> DEFINE s == k.snd_buf[x]
  <2>1. s \in Segment /\ SegmentOK(s)
    BY <1>2, <1>3, <1>4, BufferFacts DEF BlockOK
  <2>2. b[x] = IF x \in skipped THEN [s EXCEPT !.fastack = Smaller(s.fastack + 1, FastResend)]
               ELSE s
    OBVIOUS
  <2> HIDE DEF b, s
  <2>3. CASE x \in skipped
    <3>1. Smaller(s.fastack + 1, FastResend) \in 0 .. FastResend
      BY <2>1, Numbers DEF Segment, Smaller
    <3>2. /\ b[x] \in Segment /\ b[x].resendts = s.resendts /\ b[x].rto = s.rto
          /\ b[x].wire = s.wire /\ b[x].timed = s.timed
      BY <2>1, <2>2, <2>3, <3>1 DEF Segment
    <3>3. SegmentOK(b[x])
      BY <2>1, <3>2 DEF SegmentOK
    <3> QED
      BY <3>2, <3>3 DEF s
  <2>4. CASE x \notin skipped
    BY <2>1, <2>2, <2>4 DEF s
  <2> QED
    BY <2>3, <2>4
<1>7. DOMAIN b = left /\ b \in Buffers
  <2>1. DOMAIN b = left
    OBVIOUS
  <2>2. b \in [left -> Segment]
    BY <1>6
  <2> HIDE DEF b
  <2> QED
    BY <1>3, <2>1, <2>2 DEF Buffers
<1> HIDE DEF b, k1, n
<1>8. /\ k1 \in Blocks /\ Kept(k, k1) /\ k1.snd_buf = b /\ k1.snd_nxt = k.snd_nxt
      /\ k1.cwnd = measured.cwnd /\ k1.incr = measured.incr /\ k1.ssthresh = measured.ssthresh
  BY <1>1, <1>2, <1>4, <1>5, <1>7 DEF Blocks, Kept
<1>9. BlockOK(k1)
  BY <1>2, <1>3, <1>6, <1>7, <1>8 DEF BlockOK, Kept
<1>10. /\ DOMAIN k1.snd_buf \subseteq DOMAIN k.snd_buf
       /\ \A sn \in DOMAIN k1.snd_buf : k1.snd_buf[sn].resendts = k.snd_buf[sn].resendts
  BY <1>3, <1>6, <1>7, <1>8
<1>11. Input(k, d) = IF snd_una(k1) > snd_una(k) THEN Grown(k1) ELSE k1
  BY DEF Input, k1, b, skipped, left, measured
<1>12. CASE Input(k, d) = k1
  BY <1>8, <1>9, <1>10, <1>12
<1>13. CASE Input(k, d) = Grown(k1)
  <2>1. BlockOK(Grown(k1)) /\ Kept(k1, Grown(k1)) /\ Grown(k1).snd_buf = k1.snd_buf
    BY <1>9, GrownOK
  <2>2. Kept(k, Grown(k1))
    BY <1>8, <2>1 DEF Kept
  <2> QED
    BY <1>10, <1>13, <2>1, <2>2
<1> QED
  BY <1>11, <1>12, <1>13

-----------------------------------------------------------------------------
(* Every handler                                                           *)

\* What a handler may hand to ikcp_update.
Prepared(k) ==
  /\ BlockOK(k)
  /\ k.updated => /\ TimersOK(k)
                  /\ Diff(now, k.current) \in 0 .. Half - Slap - 1
                  /\ owed # None =>
                       owed \in Time /\ Diff(k.current, owed) \in 0 .. Interval - Ahead(k)
  /\ ~ k.updated => k.probe_wait = 0 /\ owed = None

\* An update establishes the invariant if the timer fires before the next flush.
LEMMA UpdateOK ==
  ASSUME NEW k, Prepared(k), now \in Time, awake \in BOOLEAN, Update(k),
         wait' \in - Latency .. Interval, wait' <= Ahead(Updated(k, now))
  PROVE  ClockInv'
<1> DEFINE u == Updated(k, now)
<1>1. /\ kcp' = u /\ now' = now /\ awake' = TRUE
      /\ owed' = IF u.ackcount = 0 THEN None ELSE IF owed = None THEN now ELSE owed
  BY DEF Update
<1>2. /\ BlockOK(u) /\ u.updated = TRUE /\ u.current = now /\ TimersOK(u)
      /\ \/ u.ackcount = 0
         \/ /\ k.updated /\ u.ackcount = k.ackcount
            /\ Ahead(u) = Ahead(k) - Diff(now, k.current)
  BY UpdatedOK DEF Prepared
<1> HIDE DEF u
<1>3. u # NoBlock
  BY <1>2, NotNoBlock DEF BlockOK
<1>4. wait' \in - Latency .. Interval /\ wait' <= Ahead(u)
  BY DEF u
<1>5. /\ Interval \in Nat /\ Latency \in Nat /\ Half \in Nat /\ Mod \in Nat /\ Slap \in Nat
      /\ 2 * Half <= Mod /\ Interval < Half /\ now \in Int
  BY Numbers, TimeInt
<1>6. Diff(now, now) = 0
  BY <1>5, DiffSwap
<1>7. Ahead(u) \in 1 .. Interval
  BY <1>2 DEF TimersOK
<1>8. None \notin Int
  BY ClockAssumption
<1>9. /\ u.ackcount > 0 => owed' # None
      /\ owed' # None =>
           owed' \in Time /\ Diff(now, owed') \in 0 .. Interval - Ahead(u)
  <2>1. u.ackcount \in Nat
    BY <1>2 DEF BlockOK, Blocks
  <2>2. CASE u.ackcount = 0
    BY <1>1, <2>2
  <2>3. CASE u.ackcount # 0 /\ owed = None
    <3>1. owed' = now
      BY <1>1, <2>3
    <3> QED
      BY <1>5, <1>6, <1>7, <1>8, <3>1
  <2>4. CASE u.ackcount # 0 /\ owed # None
    <3>1. owed' = owed /\ k.updated /\ Ahead(u) = Ahead(k) - Diff(now, k.current)
      BY <1>1, <1>2, <2>4
    <3>2. owed \in Time /\ Diff(k.current, owed) \in 0 .. Interval - Ahead(k)
          /\ Diff(now, k.current) \in 0 .. Half - Slap - 1 /\ Ahead(k) \in 1 .. Interval
      BY <2>4, <3>1 DEF Prepared, TimersOK
    <3> DEFINE x == Diff(k.current, owed)
               age == Diff(now, k.current)
    <3>3. /\ x \in Int /\ age \in Int /\ Ahead(k) \in Int /\ Ahead(u) \in Int
          /\ 0 <= x /\ 0 <= age /\ x <= Interval - Ahead(k) /\ Ahead(u) >= 1
      BY <1>5, <1>7, <3>2
    <3>4. age + x >= Half - Mod /\ age + x < Half /\ age + x \in 0 .. Interval - Ahead(u)
      BY <1>5, <3>1, <3>3
    <3>5. owed \in Int /\ k.current \in Int
      BY <3>2, TimeInt DEF Prepared, BlockOK, Blocks
    <3>6. Diff(now, owed) = age + x
      BY <1>5, <3>4, <3>5, DiffSum
    <3> QED
      BY <2>4, <3>1, <3>2, <3>4, <3>6
  <2> QED
    BY <2>1, <2>2, <2>3, <2>4
<1>10. Running' /\ kcp'.updated = TRUE /\ (now \in Time)'
  BY <1>1, <1>2, <1>3 DEF Running, Time
<1>12. BlockOK(kcp)' /\ TimersOK(kcp)'
  BY <1>1, <1>2 DEF BlockOK, TimersOK, Ahead
<1>13. OwedOK'
  BY <1>1, <1>2, <1>9 DEF OwedOK, Ahead
<1>14. TimerOK'
  <2>1. Age' = 0 /\ Ahead(kcp)' = Ahead(u)
    BY <1>1, <1>2, <1>6 DEF Age, Ahead
  <2> QED
    BY <1>1, <1>4, <1>5, <2>1 DEF TimerOK, Farthest
<1> QED
  BY <1>1, <1>4, <1>10, <1>12, <1>13, <1>14 DEF ClockInv

\* The end of a handler that arms the timer establishes the invariant.
LEMMA FinishOK ==
  ASSUME NEW k, Prepared(k), now \in Time, awake \in BOOLEAN, Finish(k)
  PROVE  ClockInv'
<1> DEFINE u == Updated(k, now)
<1>1. Update(k) /\ wait' = Delay(u, now)
  BY DEF Finish, Update
<1>2. BlockOK(u) /\ u.updated = TRUE /\ u.current = now /\ TimersOK(u)
  BY UpdatedOK DEF Prepared
<1> HIDE DEF u
<1>3. wait' \in 0 .. Interval /\ wait' <= Ahead(u)
  BY <1>1, <1>2, DelayOK
<1>4. wait' \in - Latency .. Interval
  BY <1>3, Numbers
<1> QED
  BY <1>1, <1>3, <1>4, UpdateOK DEF u

-----------------------------------------------------------------------------
(* The invariant is inductive                                              *)

\* How old the time of the last update can be.
LEMMA AgeBound ==
  ASSUME ClockInv, Running, kcp.updated
  PROVE  /\ Age \in 0 .. Half - Slap - 1
         /\ awake => Age \in 0 .. Late
         /\ awake \/ wait > 0 => Age + wait <= Ahead(kcp) /\ Ahead(kcp) \in 1 .. Interval
         /\ Age \in Int /\ wait \in - Latency .. Interval
<1>1. /\ Half \in Nat /\ Slap \in Nat /\ Interval \in Nat /\ Latency \in Nat
      /\ 2 * Slap <= Half /\ Interval + Latency < Slap
  BY Numbers
<1>2. /\ wait \in - Latency .. Interval /\ now \in Time /\ BlockOK(kcp) /\ TimersOK(kcp)
      /\ Age >= 0
      /\ Age + wait <= Farthest(kcp, wait, awake)
      /\ awake \in BOOLEAN
  BY DEF ClockInv, TimerOK
<1>3. now \in Int /\ kcp.current \in Int
  BY <1>2, TimeInt DEF BlockOK, Blocks
<1>4. Age \in Int
  BY <1>3, DiffSwap DEF Age
<1>5. Ahead(kcp) \in 1 .. Interval
  BY <1>2 DEF TimersOK
<1>6. CASE awake
  <2>1. Age + wait <= Ahead(kcp)
    BY <1>2, <1>6 DEF Farthest
  <2> QED
    BY <1>1, <1>2, <1>4, <1>5, <2>1 DEF Late
<1>7. CASE ~ awake /\ wait > 0
  <2>1. Age + wait <= Ahead(kcp)
    BY <1>2, <1>7 DEF Farthest
  <2> QED
    BY <1>1, <1>2, <1>4, <1>5, <1>7, <2>1
<1>8. CASE ~ awake /\ ~ (wait > 0)
  <2>1. Age + wait <= Half - Slap - Latency - 1
    BY <1>2, <1>8 DEF Farthest
  <2> QED
    BY <1>1, <1>2, <1>4, <1>8, <2>1
<1> QED
  BY <1>6, <1>7, <1>8

\* The control block itself can be handed to ikcp_update.
LEMMA KcpPrepared ==
  ASSUME ClockInv, Running
  PROVE  /\ Prepared(kcp) /\ now \in Time /\ awake \in BOOLEAN
         /\ kcp.updated /\ awake => Diff(now, kcp.current) \in 0 .. Late
         /\ kcp.probe_wait > 0 =>
              Diff(kcp.ts_probe, kcp.current) \in 1 - Half .. ProbeLimit
         /\ ~ kcp.updated => kcp.rmt_wnd # 0
<1>1. CASE ~ kcp.updated
  <2>1. kcp = Created /\ owed = None
    BY <1>1 DEF ClockInv
  <2> QED
    BY <1>1, <2>1, CreatedOK DEF Prepared, ClockInv
<1>2. CASE kcp.updated
  <2>1. BlockOK(kcp) /\ TimersOK(kcp) /\ OwedOK /\ now \in Time /\ awake \in BOOLEAN
    BY <1>2 DEF ClockInv
  <2>2. Diff(now, kcp.current) \in 0 .. Half - Slap - 1
        /\ (awake => Diff(now, kcp.current) \in 0 .. Late)
    BY <1>2, AgeBound DEF Age
  <2>3. ASSUME kcp.probe_wait > 0
        PROVE  Diff(kcp.ts_probe, kcp.current) \in 1 - Half .. ProbeLimit
    <3>1. /\ Ahead(kcp) \in 1 .. Interval
          /\ Diff(kcp.ts_probe, kcp.current) \in Ahead(kcp) - Interval + 1 .. ProbeLimit
      BY <2>1, <2>3 DEF TimersOK
    <3>2. /\ Half \in Nat /\ Interval \in Nat /\ ProbeLimit \in Nat
          /\ ProbeLimit + Interval <= Half
      BY Numbers
    <3> QED
      BY <3>1, <3>2
  <2> QED
    BY <1>2, <2>1, <2>2, <2>3 DEF Prepared, OwedOK
<1> QED
  BY <1>1, <1>2

LEMMA ClockInit == Init => ClockInv
<1>1. ASSUME Init PROVE now \in Time
  BY <1>1, ClockAssumption DEF Init, Time
<1> QED
  BY <1>1 DEF Init, ClockInv, Running

LEMMA StartKeeps == ASSUME ClockInv, Start PROVE ClockInv'
<1>1. kcp' = Created /\ wait' = Delay(Created, now) /\ awake' = TRUE /\ now' = now /\ owed' = owed
  BY DEF Start
<1>2. owed = None /\ now \in Time /\ now \in Int
  BY TimeInt DEF ClockInv, Start
<1>3. wait' = 0
  <2>1. Check(Created, now) = now
    BY CreatedOK DEF Check
  <2> QED
    BY <1>1, <1>2, <2>1 DEF Delay
<1>4. (now \in Time)' /\ Running' /\ kcp'.updated = FALSE
  BY <1>1, <1>2, CreatedOK DEF Running, Time
<1> QED
  BY <1>1, <1>2, <1>3, <1>4, Numbers DEF ClockInv

LEMMA StopKeeps == ASSUME ClockInv, Stop PROVE ClockInv'
<1>1. /\ kcp' = NoBlock /\ wait' = None /\ owed' = None /\ now' = now /\ awake' = awake
  BY DEF Stop
<1> QED
  BY <1>1 DEF ClockInv, Running, Time

\* The block of send(): the flush with the old time, then the update.
LEMMA SendKeeps == ASSUME ClockInv, Send PROVE ClockInv'
<1> DEFINE k == [kcp EXCEPT !.nsnd_que = @ + 1]
           f == Flushed(k, now)
<1>1. Running /\ Finish(f)
  BY DEF Send
<1>2. /\ Prepared(kcp) /\ now \in Time /\ awake \in BOOLEAN
      /\ kcp.updated /\ awake => Diff(now, kcp.current) \in 0 .. Late
      /\ kcp.probe_wait > 0 => Diff(kcp.ts_probe, kcp.current) \in 1 - Half .. ProbeLimit
      /\ ~ kcp.updated => kcp.rmt_wnd # 0
  BY <1>1, KcpPrepared
<1>3. /\ k \in Blocks /\ Kept(kcp, k) /\ k.snd_buf = kcp.snd_buf /\ k.snd_nxt = kcp.snd_nxt
      /\ k.cwnd = kcp.cwnd /\ k.incr = kcp.incr /\ k.ssthresh = kcp.ssthresh
      /\ k.rmt_wnd = kcp.rmt_wnd
  BY <1>2 DEF Prepared, BlockOK, Blocks, Kept
<1>4. BlockOK(k)
  BY <1>2, <1>3 DEF Prepared, BlockOK, Kept
<1> HIDE DEF k
<1>5. /\ BlockOK(f) /\ f.ackcount = 0
      /\ f.current = k.current /\ f.updated = k.updated /\ f.ts_flush = k.ts_flush
      /\ \A sn \in DOMAIN f.snd_buf : Diff(k.current, f.snd_buf[sn].resendts) < 0
      /\ f.probe_wait > 0 => Diff(f.ts_probe, k.current) \in 1 .. ProbeLimit
      /\ k.rmt_wnd # 0 => f.probe_wait = 0
  BY <1>2, <1>3, <1>4, FlushedOK DEF Kept
<1> HIDE DEF f
<1>6. ASSUME f.updated
      PROVE  /\ TimersOK(f)
             /\ Diff(now, f.current) \in 0 .. Half - Slap - 1
             /\ owed # None =>
                  owed \in Time /\ Diff(f.current, owed) \in 0 .. Interval - Ahead(f)
  <2>1. /\ kcp.updated /\ TimersOK(kcp) /\ Ahead(f) = Ahead(kcp) /\ f.current = kcp.current
        /\ Ahead(kcp) \in 1 .. Interval
    BY <1>2, <1>3, <1>5, <1>6 DEF Prepared, Kept, Ahead, TimersOK
  <2>2. Interval \in Nat /\ ProbeLimit \in Nat
    BY Numbers
  <2>3. \A sn \in DOMAIN f.snd_buf :
          Diff(f.current, f.snd_buf[sn].resendts) + Ahead(f) < Interval
    <3> SUFFICES ASSUME NEW sn \in DOMAIN f.snd_buf
                 PROVE  Diff(f.current, f.snd_buf[sn].resendts) + Ahead(f) < Interval
      OBVIOUS
    <3>1. f.snd_buf[sn].resendts \in Int /\ f.current \in Int
      BY <1>5, BufferFacts, TimeInt DEF BlockOK, Blocks, Segment
    <3>2. Diff(f.current, f.snd_buf[sn].resendts) \in Int
          /\ Diff(f.current, f.snd_buf[sn].resendts) < 0
      BY <1>5, <3>1, DiffSwap
    <3> QED
      BY <2>1, <2>2, <3>2
  <2>4. f.probe_wait > 0 => Diff(f.ts_probe, f.current) \in Ahead(f) - Interval + 1 .. ProbeLimit
    BY <1>5, <2>1, <2>2
  <2>5. TimersOK(f)
    BY <2>1, <2>3, <2>4 DEF TimersOK
  <2> QED
    BY <1>2, <2>1, <2>5 DEF Prepared
<1>7. ASSUME ~ f.updated PROVE f.probe_wait = 0 /\ owed = None
  <2>1. ~ kcp.updated
    BY <1>3, <1>5, <1>7 DEF Kept
  <2> QED
    BY <1>2, <1>3, <1>5, <2>1 DEF Prepared
<1>8. Prepared(f)
  BY <1>5, <1>6, <1>7 DEF Prepared
<1> QED
  BY <1>1, <1>2, <1>8, FinishOK

LEMMA ReceiveKeeps == ASSUME ClockInv, Receive PROVE ClockInv'
<1>1. PICK d \in Datagrams(kcp) : Running /\ Finish(Input(kcp, d))
  BY DEF Receive
<1> DEFINE c == Input(kcp, d)
<1>2. Prepared(kcp) /\ now \in Time /\ awake \in BOOLEAN
  BY <1>1, KcpPrepared
<1>3. /\ BlockOK(c) /\ Kept(kcp, c)
      /\ DOMAIN c.snd_buf \subseteq DOMAIN kcp.snd_buf
      /\ \A sn \in DOMAIN c.snd_buf : c.snd_buf[sn].resendts = kcp.snd_buf[sn].resendts
  BY <1>2, InputOK DEF Prepared
<1> HIDE DEF c
<1>4. Ahead(c) = Ahead(kcp)
  BY <1>3 DEF Kept, Ahead
<1>5. TimersOK(kcp) => TimersOK(c)
  BY <1>3, <1>4 DEF TimersOK, Kept
<1>6. Prepared(c)
  BY <1>2, <1>3, <1>4, <1>5 DEF Prepared, Kept
<1> QED
  BY <1>1, <1>2, <1>6, FinishOK DEF c

LEMMA TimerKeeps == ASSUME ClockInv, ReceiveInvalid \/ Fire PROVE ClockInv'
<1>1. Running /\ Finish(kcp)
  BY DEF ReceiveInvalid, Fire
<1> QED
  BY <1>1, KcpPrepared, FinishOK

\* An empty datagram updates under a timer that was armed earlier, which still fires
\* before the next flush: that is where it was, or the timer has run out.
LEMMA EmptyKeeps == ASSUME ClockInv, ReceiveEmpty PROVE ClockInv'
<1> DEFINE u == Updated(kcp, now)
<1>1. Running /\ Update(kcp) /\ wait' = wait
  BY DEF ReceiveEmpty
<1>2. Prepared(kcp) /\ now \in Time /\ awake \in BOOLEAN
  BY <1>1, KcpPrepared
<1>3. TimersOK(u)
  BY <1>2, UpdatedOK DEF Prepared
<1> HIDE DEF u
<1>4. Ahead(u) \in 1 .. Interval /\ Interval \in Nat /\ Latency \in Nat
  BY <1>3, Numbers DEF TimersOK
<1>5. wait \in - Latency .. Interval
  BY <1>1 DEF ClockInv
<1>6. CASE wait <= 0
  <2>1. wait' <= Ahead(u)
    BY <1>1, <1>4, <1>5, <1>6
  <2> QED
    BY <1>1, <1>2, <1>5, <2>1, UpdateOK DEF u
<1>7. CASE wait > 0
  <2>1. kcp.updated
    BY <1>1, <1>5, <1>7 DEF ClockInv
  <2>2. /\ Age \in Int /\ Age + wait <= Ahead(kcp) /\ Ahead(kcp) \in 1 .. Interval
        /\ Age \in 0 .. Half - Slap - 1
    BY <1>1, <1>7, <2>1, AgeBound
  <2>3. Age < Ahead(kcp)
    BY <1>5, <1>7, <2>2
  <2>4. Ahead(u) = Ahead(kcp) - Age
    BY <1>2, <2>1, <2>2, <2>3, NoFlushYet DEF Age, Prepared, u
  <2>5. wait' <= Ahead(u)
    BY <1>1, <1>5, <2>2, <2>4
  <2> QED
    BY <1>1, <1>2, <1>5, <2>5, UpdateOK DEF u
<1> QED
  BY <1>5, <1>6, <1>7

\* Time that passes with the timer, or a suspension of n.
LEMMA TimeKeeps ==
  ASSUME ClockInv, Running, NEW n \in Nat, n < Half, now' = Plus(now, n),
         kcp' = kcp, owed' = owed, awake' \in BOOLEAN,
         wait' \in - Latency .. Interval, wait <= 0 => wait' <= 0,
         kcp.updated =>
           /\ Age + n < Half
           /\ Age + n + wait' <= Farthest(kcp, wait', awake')
  PROVE  ClockInv'
<1>1. now \in Time /\ now \in Int
  BY TimeInt DEF ClockInv
<1>2. Plus(now, n) \in Time /\ Plus(now, n) \in Int /\ Diff(Plus(now, n), now) = n
  <2>1. n \in Int /\ n >= 0
    OBVIOUS
  <2>2. Plus(now, n) \in Time /\ Diff(Plus(now, n), now) = n
    BY <1>1, <2>1, DiffPlus
  <2> QED
    BY <2>2, TimeInt
<1>3. (now \in Time)' /\ Running'
  BY <1>2 DEF Running, Time
<1>4. CASE ~ kcp.updated
  BY <1>3, <1>4 DEF ClockInv
<1>5. CASE kcp.updated
  <2>1. Age \in Int /\ Age >= 0
    BY <1>5, AgeBound
  <2>2. BlockOK(kcp) /\ TimersOK(kcp) /\ OwedOK /\ kcp.current \in Int
    BY <1>5, TimeInt DEF ClockInv, BlockOK, Blocks
  <2>3. Age' = Age + n
    <3>1. Age' = Diff(Plus(now, n), kcp.current)
      BY DEF Age
    <3>2. Diff(now, kcp.current) = Age
      BY DEF Age
    <3>3. n + Age >= Half - Mod /\ n + Age < Half
      BY <1>5, <2>1, Numbers
    <3>4. Diff(Plus(now, n), kcp.current) = n + Age
      BY <1>1, <1>2, <2>2, <3>2, <3>3, DiffSum
    <3> QED
      BY <2>1, <3>1, <3>4
  <2>4. TimerOK'
    <3>1. Farthest(kcp, wait, awake)' = Farthest(kcp, wait', awake')
      BY DEF Farthest, Ahead
    <3> QED
      BY <1>5, <2>1, <2>3, <3>1 DEF TimerOK
  <2>5. BlockOK(kcp)' /\ TimersOK(kcp)' /\ OwedOK'
    BY <2>2 DEF BlockOK, TimersOK, OwedOK, Ahead
  <2> QED
    BY <1>3, <1>5, <2>4, <2>5 DEF ClockInv
<1> QED
  BY <1>4, <1>5

LEMMA TickKeeps == ASSUME ClockInv, Tick PROVE ClockInv'
<1>1. /\ Running /\ wait \in {None} \cup (1 - Latency .. Interval)
      /\ wait' = (IF wait = None THEN None ELSE wait - 1)
      /\ now' = Plus(now, 1) /\ kcp' = kcp /\ owed' = owed /\ awake' = awake
  BY DEF Tick, Pass
<1>2. wait \in - Latency .. Interval /\ None \notin Int /\ awake \in BOOLEAN
  BY <1>1, ClockAssumption DEF ClockInv
<1>3. wait \in 1 - Latency .. Interval /\ wait' = wait - 1
  BY <1>1, <1>2
<1>4. /\ Half \in Nat /\ Slap \in Nat /\ Interval \in Nat /\ Latency \in Nat
      /\ 2 * Slap <= Half /\ Interval + Latency < Slap
  BY Numbers
<1>5. wait' \in - Latency .. Interval /\ (wait <= 0 => wait' <= 0) /\ 1 < Half
  BY <1>3, <1>4
<1>6. ASSUME kcp.updated
      PROVE  /\ Age + 1 < Half
             /\ Age + 1 + wait' <= Farthest(kcp, wait', awake')
  <2>1. Age \in Int /\ Age \in 0 .. Half - Slap - 1
    BY <1>1, <1>6, AgeBound
  <2>2. Age + wait <= Farthest(kcp, wait, awake)
    BY <1>1, <1>6 DEF ClockInv, TimerOK
  <2>3. Age + 1 + wait' = Age + wait
    BY <1>3, <2>1
  <2>4. Ahead(kcp) \in 1 .. Interval
    BY <1>1, <1>6 DEF ClockInv, TimersOK
  <2>5. Farthest(kcp, wait, awake) <= Farthest(kcp, wait', awake')
    BY <1>1, <1>2, <1>3, <1>4, <2>4 DEF Farthest
  <2>6. Farthest(kcp, wait, awake) \in Int /\ Farthest(kcp, wait', awake') \in Int
    BY <1>4, <2>4 DEF Farthest
  <2> DEFINE f == Farthest(kcp, wait, awake)
             g == Farthest(kcp, wait', awake')
  <2>7. f \in Int /\ g \in Int /\ f <= g /\ Age + wait <= f
    BY <2>2, <2>5, <2>6
  <2> HIDE DEF f, g
  <2>8. Age + 1 + wait' <= g
    BY <1>3, <2>1, <2>3, <2>7
  <2> QED
    BY <1>4, <2>1, <2>8 DEF g
<1> QED
  BY <1>1, <1>2, <1>5, <1>6, TimeKeeps

LEMMA SuspendKeeps == ASSUME ClockInv, Suspend PROVE ClockInv'
<1>1. PICK n \in Suspensions :
        /\ Running /\ awake
        /\ wait' = (IF wait = None THEN None ELSE Larger(wait - n, - Latency))
        /\ now' = Plus(now, n) /\ kcp' = kcp /\ owed' = owed /\ awake' = FALSE
  BY DEF Suspend, Pass
<1>2. wait \in - Latency .. Interval /\ None \notin Int /\ n \in Nat /\ 2 * (n + 2 * Slap) <= Mod
  BY <1>1, ClockAssumption DEF ClockInv
<1>3. /\ Half \in Nat /\ Slap \in Nat /\ Interval \in Nat /\ Latency \in Nat
      /\ 2 * Slap <= Half /\ Interval + Latency < Slap /\ Mod <= 2 * Half + 1 /\ Mod \in Nat
  BY Numbers
<1>4. n + 2 * Slap <= Half /\ n < Half
  BY <1>2, <1>3
<1>5. wait' = Larger(wait - n, - Latency)
  BY <1>1, <1>2
<1>6. wait' \in - Latency .. Interval /\ (wait <= 0 => wait' <= 0)
  BY <1>2, <1>3, <1>5 DEF Larger
<1>7. ASSUME kcp.updated
      PROVE  /\ Age + n < Half
             /\ Age + n + wait' <= Farthest(kcp, wait', awake')
  <2>1. Age \in Int /\ Age \in 0 .. Late /\ Age + wait <= Ahead(kcp) /\ Ahead(kcp) \in 1 .. Interval
    BY <1>1, <1>7, AgeBound
  <2>2. Age + n < Half
    BY <1>2, <1>3, <1>4, <2>1 DEF Late
  <2>3. CASE wait' > 0
    <3>1. wait' = wait - n
      BY <1>2, <1>3, <1>5, <2>3 DEF Larger
    <3> QED
      BY <1>2, <2>1, <2>2, <2>3, <3>1 DEF Farthest
  <2>4. CASE ~ (wait' > 0)
    <3>1. Age + n + wait' <= Half - Slap - Latency - 1
      BY <1>2, <1>3, <1>4, <1>5, <2>1 DEF Late, Larger
    <3> QED
      BY <1>1, <2>2, <2>4, <3>1 DEF Farthest
  <2> QED
    BY <2>3, <2>4
<1> QED
  BY <1>1, <1>2, <1>4, <1>6, <1>7, TimeKeeps

\* Every step keeps the invariant.
LEMMA ClockStep == ClockInv /\ [Next]_vars => ClockInv'
<1> SUFFICES ASSUME ClockInv, [Next]_vars PROVE ClockInv'
  OBVIOUS
<1>1. CASE Start
  BY <1>1, StartKeeps
<1>2. CASE Stop
  BY <1>2, StopKeeps
<1>3. CASE Send
  BY <1>3, SendKeeps
<1>4. CASE Receive
  BY <1>4, ReceiveKeeps
<1>5. CASE ReceiveInvalid \/ Fire
  BY <1>5, TimerKeeps
<1>6. CASE Tick
  BY <1>6, TickKeeps
<1>7. CASE Suspend
  BY <1>7, SuspendKeeps
<1>8. CASE ReceiveEmpty
  BY <1>8, EmptyKeeps
<1>9. CASE UNCHANGED vars
  BY <1>9 DEF vars, ClockInv, Running, BlockOK, TimersOK, OwedOK, TimerOK, Farthest, Age, Ahead
<1> QED
  BY <1>1, <1>2, <1>3, <1>4, <1>5, <1>6, <1>7, <1>8, <1>9 DEF Next

\* In every state of a session, from its start across the wrap of the clock and any
\* suspension, the next flush is near and every timer is set right.
THEOREM ClockInvariance == Spec => []ClockInv
<1> QED
  BY ClockInit, ClockStep, PTL DEF Spec

-----------------------------------------------------------------------------
(* What it says of the session                                             *)

\* Times stay within their width and the retransmission timeout within its bounds,
\* whatever the peer echoes and whatever window it advertises.
THEOREM ClockTypes == Spec => []TypeOK
<1>1. ClockInv => TypeOK
  <2> SUFFICES ASSUME ClockInv PROVE TypeOK
    OBVIOUS
  <2>1. Running => BlockOK(kcp)
    BY CreatedOK DEF ClockInv
  <2>2. ASSUME Running PROVE IsControlBlock(kcp)
    <3>1. /\ kcp \in Blocks /\ DOMAIN kcp.snd_buf \subseteq 0 .. kcp.snd_nxt - 1
          /\ \A sn \in DOMAIN kcp.snd_buf : kcp.snd_buf[sn] \in Segment
      BY <2>1, <2>2, BufferFacts DEF BlockOK
    <3>2. kcp = [Created EXCEPT
                   !.current = kcp.current, !.updated = kcp.updated,
                   !.ts_flush = kcp.ts_flush, !.nsnd_que = kcp.nsnd_que,
                   !.snd_nxt = kcp.snd_nxt, !.snd_buf = kcp.snd_buf,
                   !.rx_srtt = kcp.rx_srtt, !.rx_rttval = kcp.rx_rttval,
                   !.rx_rto = kcp.rx_rto, !.rmt_wnd = kcp.rmt_wnd, !.cwnd = kcp.cwnd,
                   !.incr = kcp.incr, !.ssthresh = kcp.ssthresh,
                   !.probe_wait = kcp.probe_wait, !.ts_probe = kcp.ts_probe,
                   !.ackcount = kcp.ackcount, !.early = kcp.early]
      BY <3>1 DEF Blocks, Created
    <3> QED
      BY <3>1, <3>2 DEF IsControlBlock, Blocks
  <2>3. wait = None \/ wait \in - Latency .. Interval
    BY DEF ClockInv
  <2>4. owed \in Time \cup {None}
    <3>1. CASE ~ Running
      BY <3>1 DEF ClockInv
    <3>2. CASE Running /\ ~ kcp.updated
      BY <3>2 DEF ClockInv
    <3>3. CASE Running /\ kcp.updated
      BY <3>3 DEF ClockInv, OwedOK
    <3> QED
      BY <3>1, <3>2, <3>3
  <2> QED
    BY <2>2, <2>3, <2>4 DEF TypeOK, ClockInv
<1> QED
  BY <1>1, ClockInvariance, PTL

\* An acknowledgement that ikcp_input queued leaves within an interval and the lateness
\* of the timer: the flush that carries it is already near when it is queued.
THEOREM AcksAreSent == Spec => []AcksLeave
<1>1. ClockInv => AcksLeave
  <2> SUFFICES ASSUME ClockInv, Running, awake, kcp.ackcount > 0
               PROVE  owed # None /\ Diff(now, owed) <= Late
    BY DEF AcksLeave
  <2>1. kcp.updated
    <3>1. ASSUME ~ kcp.updated PROVE FALSE
      BY <3>1, CreatedOK DEF ClockInv
    <3> QED
      BY <3>1
  <2>2. OwedOK /\ owed # None /\ now \in Time /\ BlockOK(kcp)
    BY <2>1 DEF ClockInv, OwedOK
  <2>3. owed \in Time /\ Diff(kcp.current, owed) \in 0 .. Interval - Ahead(kcp)
    BY <2>2 DEF OwedOK
  <2>4. /\ Age \in 0 .. Late /\ Age + wait <= Ahead(kcp) /\ Ahead(kcp) \in 1 .. Interval
        /\ wait \in - Latency .. Interval
    BY <2>1, AgeBound
  <2>5. now \in Int /\ owed \in Int /\ kcp.current \in Int
    BY <2>2, <2>3, TimeInt DEF BlockOK, Blocks
  <2>6. /\ Half \in Nat /\ Slap \in Nat /\ Interval \in Nat /\ Latency \in Nat /\ Mod \in Nat
        /\ 2 * Half <= Mod /\ 2 * Slap <= Half /\ Interval + Latency < Slap
    BY Numbers
  <2> DEFINE x == Diff(kcp.current, owed)
  <2>7. x \in Int /\ x >= 0 /\ x <= Interval - Ahead(kcp)
    BY <2>3, <2>4, <2>6
  <2>8. Age + x >= Half - Mod /\ Age + x <= Late /\ Age + x < Half
    BY <2>4, <2>6, <2>7 DEF Late
  <2>9. Diff(now, owed) <= Age + x /\ Diff(now, owed) \in Int
    BY <2>5, <2>8, DiffSum DEF Age
  <2>10. Late \in Int /\ Age + x \in Int
    BY <2>4, <2>6, <2>7 DEF Late
  <2> QED
    BY <2>2, <2>8, <2>9, <2>10
<1> QED
  BY <1>1, ClockInvariance, PTL

\* A timer that has run out is served within an interval and the lateness of the timer,
\* and the probe is never set further ahead than its longest wait, wherever the clock
\* wraps and after any suspension.
THEOREM TimersAreServed == Spec => []TimersServed
<1>1. ClockInv => TimersServed
  <2> SUFFICES ASSUME ClockInv, Running, awake, kcp.updated
               PROVE  /\ \A sn \in DOMAIN kcp.snd_buf :
                           Diff(now, kcp.snd_buf[sn].resendts) < Late
                      /\ kcp.probe_wait > 0 =>
                           Diff(kcp.ts_probe, now) \in 1 - Late .. ProbeLimit
    BY DEF TimersServed
  <2>1. TimersOK(kcp) /\ now \in Time /\ BlockOK(kcp)
    BY DEF ClockInv
  <2>2. /\ Age \in 0 .. Late /\ Age + wait <= Ahead(kcp) /\ Ahead(kcp) \in 1 .. Interval
        /\ wait \in - Latency .. Interval /\ Age \in 0 .. Half - Slap - 1
    BY AgeBound
  <2>3. now \in Int /\ kcp.current \in Int
    BY <2>1, TimeInt DEF BlockOK, Blocks
  <2>4. /\ Half \in Nat /\ Slap \in Nat /\ Interval \in Nat /\ Latency \in Nat /\ Mod \in Nat
        /\ 2 * Half <= Mod /\ 2 * Slap <= Half /\ Interval + Latency < Slap
        /\ ProbeLimit \in Nat
    BY Numbers
  <2>5. Age - Ahead(kcp) <= Latency /\ Age \in Int /\ Ahead(kcp) \in Int
    BY <2>2, <2>4 DEF Late
  <2>6. ASSUME NEW sn \in DOMAIN kcp.snd_buf
        PROVE  Diff(now, kcp.snd_buf[sn].resendts) < Late
    <3> DEFINE r == kcp.snd_buf[sn].resendts
               y == Diff(kcp.current, r)
    <3>1. r \in Int
      BY <2>1, BufferFacts, TimeInt DEF BlockOK, Segment
    <3>2. y + Ahead(kcp) < Interval
      BY <2>1 DEF TimersOK
    <3> HIDE DEF r
    <3>3. y \in Int /\ y >= Half - Mod
      BY <2>3, <3>1, DiffSwap
    <3>4. Age + y >= Half - Mod
      BY <2>2, <2>4, <2>5, <3>3
    <3>5. Diff(now, r) <= Age + y /\ Diff(now, r) \in Int
      BY <2>3, <3>1, <3>4, DiffSum DEF Age
    <3> HIDE DEF y
    <3>6. Age + y < Late /\ Late \in Int
      BY <2>4, <2>5, <3>2, <3>3 DEF Late
    <3> QED
      BY <2>5, <3>3, <3>5, <3>6 DEF r
  <2>7. ASSUME kcp.probe_wait > 0
        PROVE  Diff(kcp.ts_probe, now) \in 1 - Late .. ProbeLimit
    <3> DEFINE y == Diff(kcp.ts_probe, kcp.current)
    <3>1. Diff(kcp.ts_probe, now) = y - Age
      BY <2>1, <2>2, <2>7, Elapsed DEF Age
    <3>2. y \in Int /\ y >= Ahead(kcp) - Interval + 1 /\ y <= ProbeLimit
      BY <2>1, <2>4, <2>5, <2>7 DEF TimersOK
    <3> HIDE DEF y
    <3>3. y - Age \in 1 - Late .. ProbeLimit
      BY <2>2, <2>4, <2>5, <3>2 DEF Late
    <3> QED
      BY <3>1, <3>3
  <2> QED
    BY <2>6, <2>7
<1> QED
  BY <1>1, ClockInvariance, PTL

\* A segment gets its timeout, less at most the age of the time it was stamped with.
THEOREM TimersAreRight == Spec => []TimersFit
<1>1. ClockInv => TimersFit
  <2> SUFFICES ASSUME ClockInv, Running, NEW sn \in DOMAIN kcp.snd_buf,
                      kcp.snd_buf[sn].timed
               PROVE  Diff(kcp.snd_buf[sn].resendts, kcp.snd_buf[sn].wire)
                        \in kcp.snd_buf[sn].rto - Late
                            .. kcp.snd_buf[sn].rto + kcp.snd_buf[sn].rto \div 8
    BY DEF TimersFit
  <2>1. BlockOK(kcp)
    BY CreatedOK DEF ClockInv
  <2> QED
    BY <2>1 DEF BlockOK, SegmentOK
<1> QED
  BY <1>1, ClockInvariance, PTL

\* The congestion window in segments and in bytes is one window.
THEOREM WindowAgrees == Spec => []CwndIsIncr
<1>1. ClockInv => CwndIsIncr
  <2> SUFFICES ASSUME ClockInv, Running PROVE kcp.cwnd = kcp.incr \div Mss /\ kcp.ssthresh >= 2
    BY DEF CwndIsIncr
  <2>1. BlockOK(kcp)
    BY CreatedOK DEF ClockInv
  <2> QED
    BY <2>1 DEF BlockOK
<1> QED
  BY <1>1, ClockInvariance, PTL
=============================================================================

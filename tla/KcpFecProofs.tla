---------------------------- MODULE KcpFecProofs ----------------------------
(***************************************************************************)
(* Proofs about the FEC layer, for every shape of a group, every limit and *)
(* every loss, repetition and reordering of frames.                        *)
(***************************************************************************)
EXTENDS KcpFec, CommonLemmas

-----------------------------------------------------------------------------
(* Sequence numbers and groups                                             *)

\* Slot and Base of a number of the group of n, and of the first after it.
LEMMA SlotOfNext ==
  ASSUME NEW n \in Nat, NEW i \in Nat
  PROVE  /\ Slot(n) \in 0 .. Total - 1
         /\ Slot(n) + i < Total => Slot(n + i) = Slot(n) + i /\ Base(n + i) = Base(n)
         /\ Slot(n) + i = Total => Slot(n + i) = 0
<1>1. Total \in Nat \ {0}
  BY FecAssumption DEF Total
<1>2. Slot(n) \in 0 .. Total - 1
  BY <1>1, RemainderOfSum DEF Slot
<1>3. Slot(n) + i < Total => Slot(n + i) = Slot(n) + i
  BY <1>1, RemainderOfSum DEF Slot
<1>4. Slot(n) + i = Total => Slot(n + i) = 0
  BY <1>1, RemainderOfSum DEF Slot
<1>5. ASSUME Slot(n) + i < Total PROVE Base(n + i) = Base(n)
  <2>1. Slot(n + i) = Slot(n) + i /\ Slot(n) \in Int
    BY <1>1, <1>2, <1>3, <1>5
  <2>2. Base(n + i) = (n + i) - Slot(n + i) /\ Base(n) = n - Slot(n)
    BY DEF Base
  <2>3. QED
    BY <2>1, <2>2
<1>6. QED
  BY <1>2, <1>3, <1>4, <1>5

\* The rollover comes only between groups, because PawsLimit is a multiple of
\* the size of a group.
LEMMA RolloverBetweenGroups ==
  ASSUME NEW n \in 0 .. PawsLimit - 1, n + 1 >= PawsLimit
  PROVE  Slot(n) = Total - 1
<1>1. Total \in Nat \ {0} /\ PawsLimit \in Nat \ {0} /\ PawsLimit % Total = 0
  BY FecAssumption DEF Total
<1>2. n \in Nat /\ n + 1 = PawsLimit
  BY <1>1
<1>3. Slot(n + 1) = 0
  BY <1>1, <1>2 DEF Slot
<1>4. Slot(n) \in 0 .. Total - 1 /\ (Slot(n) + 1 < Total => Slot(n + 1) = Slot(n) + 1)
  BY <1>2, SlotOfNext
<1>5. QED
  BY <1>1, <1>3, <1>4

\* Longest is the greatest of finitely many lengths, 0 included.
LEMMA LongestIs ==
  ASSUME NEW S, S \subseteq Nat, IsFiniteSet(S)
  PROVE  /\ Longest(S) \in S \cup {0}
         /\ \A x \in S : x <= Longest(S)
<1> DEFINE all == S \cup {0}
<1>1. all \subseteq Int /\ IsFiniteSet(all) /\ all # {}
  BY FS_AddElement
<1>2. \E x \in all : \A y \in all : y <= x
  <2> HIDE DEF all
  <2>1. QED
    BY <1>1, Greatest
<1>3. Longest(S) = CHOOSE x \in all : \A y \in all : x >= y
  BY DEF Longest, Max
<1>4. \E x \in all : \A y \in all : x >= y
  BY <1>1, <1>2
<1>5. Longest(S) \in all /\ \A y \in all : Longest(S) >= y
  <2> HIDE DEF all
  <2>1. QED
    BY <1>3, <1>4
<1>6. QED
  BY <1>5, <1>1

-----------------------------------------------------------------------------
(* The inductive invariant                                                 *)

Live == net \cup rx

\* Where the encoder is in its group: the packets are numbered from 1, and those
\* of the running group are the last ones.
GroupBegun ==
  LET k == Len(groupBuffer)  n == Len(packets) IN
  /\ Slot(nextSeqid) = k
  /\ k <= n /\ (n - k) % DataShards = 0
  /\ \A i \in 1 .. n : packets[i].id = i
  /\ \A i \in 1 .. k : groupBuffer[i] = packets[n - k + i]

\* A frame in a slot for its kind, made of packets that were encoded.
FrameOK(f) ==
  /\ \A i \in DOMAIN f.word : f.word[i] \in Range(packets)
  /\ f.isData => /\ Len(f.word) = 1 /\ f.len = f.word[1].len
                 /\ Slot(f.seqid) < DataShards
                 /\ Slot(f.seqid) = (f.word[1].id - 1) % DataShards
  /\ ~ f.isData => /\ Len(f.word) = DataShards
                   /\ f.len = Longest({f.word[i].len : i \in DOMAIN f.word})
                   /\ Slot(f.seqid) >= DataShards

\* A frame belongs to the code word of every parity frame of its group.
Agree(f, g) ==
  Base(f.seqid) = Base(g.seqid) /\ ~ g.isData =>
    IF f.isData THEN f.word[1] = g.word[Slot(f.seqid) + 1] ELSE f.word = g.word

\* A frame of the group that is being filled is one of its data frames.
InGroup(f) ==
  Base(f.seqid) = Base(nextSeqid) =>
    f.isData /\ Slot(f.seqid) < Len(groupBuffer) /\ f.word[1] = groupBuffer[Slot(f.seqid) + 1]

FInv ==
  /\ TypeOK
  /\ IsFiniteSet(rx)
  /\ GroupBegun
  /\ \A f \in Live : FrameOK(f)
  /\ \A f, g \in Live : Agree(f, g)
  /\ groupBuffer # <<>> => \A f \in Live : InGroup(f)
  /\ \A f, g \in rx : f.seqid = g.seqid => f = g
  /\ Genuine
  /\ RxTidy

\* An encoder and a decoder that have done nothing satisfy the invariant.
THEOREM FecInit == Init => FInv
<1> SUFFICES ASSUME Init PROVE FInv
  OBVIOUS
<1>1. TypeOK /\ IsFiniteSet(rx)
  BY FecAssumption, FS_EmptySet DEF Init, TypeOK
<1>2. GroupBegun
  <2>1. 0 % DataShards = 0 /\ 0 % Total = 0
    <3>1. DataShards \in Nat \ {0} /\ Total \in Nat \ {0}
      BY FecAssumption DEF Total
    <3>2. QED
      BY <3>1
  <2>2. QED
    BY <2>1 DEF Init, GroupBegun, Slot
<1>3. Live = {} /\ Genuine /\ RxTidy
  BY DEF Init, Live, Genuine, RxTidy
<1>4. QED
  BY <1>1, <1>2, <1>3 DEF FInv, Init

\* A packet joins the running group: the state after it, and the frames that may
\* be live then.
LEMMA EncodeFacts ==
  ASSUME FInv, NEW len \in Lengths, Encode(len)
  PROVE  LET k == Len(groupBuffer)
             n == Len(packets)
             p == [id |-> n + 1, len |-> len]
             group == Append(groupBuffer, p)
             full == k + 1 = DataShards
         IN
         /\ p \in Packet /\ group \in Seq(Packet) /\ Len(group) = k + 1
         /\ group[k + 1] = p /\ \A i \in 1 .. k : group[i] = groupBuffer[i]
         /\ packets' = Append(packets, p)
         /\ groupBuffer' = IF full THEN <<>> ELSE group
         /\ nextSeqid' = SeqidAfter(nextSeqid, full)
         /\ net' \subseteq net \cup {DataFrame(nextSeqid, p)}
                               \cup (IF full THEN ParityFrames(nextSeqid + 1, group) ELSE {})
         /\ UNCHANGED <<rx, given, held>>
         /\ k \in 0 .. DataShards - 1 /\ Slot(nextSeqid) = k /\ nextSeqid \in 0 .. PawsLimit - 1
         /\ \A f \in Live : Base(f.seqid) = Base(nextSeqid) =>
              f.isData /\ Slot(f.seqid) < k /\ f.word[1] = groupBuffer[Slot(f.seqid) + 1]
<1> DEFINE k == Len(groupBuffer)
           n == Len(packets)
           p == [id |-> n + 1, len |-> len]
           group == Append(groupBuffer, p)
           full == k + 1 = DataShards
<1>1. /\ groupBuffer \in Seq(Packet) /\ packets \in Seq(Packet)
      /\ k \in Nat /\ k < DataShards /\ n \in Nat /\ DataShards \in Nat \ {0}
      /\ nextSeqid \in 0 .. PawsLimit - 1 /\ PawsLimit \in Nat \ {0} /\ len \in Nat
  BY FecAssumption DEF FInv, TypeOK
<1>2. p \in Packet
  BY <1>1 DEF Packet
<1>3. group \in Seq(Packet) /\ Len(group) = k + 1 /\ group[k + 1] = p
      /\ \A i \in 1 .. k : group[i] = groupBuffer[i]
  <2> HIDE DEF p
  <2>1. QED
    BY <1>1, <1>2
<1>4. /\ packets' = Append(packets, p)
      /\ groupBuffer' = IF full THEN <<>> ELSE group
      /\ nextSeqid' = SeqidAfter(nextSeqid, full)
      /\ net' \subseteq net \cup {DataFrame(nextSeqid, p)}
                            \cup (IF full THEN ParityFrames(nextSeqid + 1, group) ELSE {})
      /\ UNCHANGED <<rx, given, held>>
      /\ groupBuffer = <<>> => Fresh(nextSeqid)
  <2>1. Len(group) = DataShards <=> full
    BY <1>3
  <2> HIDE DEF p, group, full
  <2>2. QED
    BY <2>1 DEF Encode, Transmit, p, group
<1>5. k \in 0 .. DataShards - 1 /\ Slot(nextSeqid) = k
  BY <1>1 DEF FInv, GroupBegun
<1>6. ASSUME NEW f \in Live, Base(f.seqid) = Base(nextSeqid)
      PROVE  f.isData /\ Slot(f.seqid) < k /\ f.word[1] = groupBuffer[Slot(f.seqid) + 1]
  <2>1. CASE groupBuffer = <<>>
    <3>1. Base(nextSeqid) = nextSeqid
      BY <1>1, <1>5, <2>1 DEF Base
    <3>2. QED
      BY <1>4, <1>6, <2>1, <3>1 DEF Fresh, Live
  <2>2. CASE groupBuffer # <<>>
    BY <1>6, <2>2 DEF FInv, InGroup
  <2>3. QED
    BY <2>1, <2>2
<1>7. QED
  BY <1>1, <1>2, <1>3, <1>4, <1>5, <1>6

\* The frames Encode makes are in the group of nextSeqid, each in a slot of its
\* kind.
LEMMA NewSlots ==
  ASSUME NEW sq \in Nat, Slot(sq) < DataShards
  PROVE  /\ \A s \in sq + 1 .. sq + ParityShards :
              Slot(sq) + 1 = DataShards =>
                Base(s) = Base(sq) /\ Slot(s) >= DataShards
         /\ Slot(sq) + 1 < DataShards => Slot(sq + 1) = Slot(sq) + 1 /\ Base(sq + 1) = Base(sq)
         /\ Slot(sq) + 1 = DataShards => Slot(sq + 1 + ParityShards) = 0
<1>1. DataShards \in Nat \ {0} /\ ParityShards \in Nat \ {0} /\ Total = DataShards + ParityShards
  BY FecAssumption DEF Total
<1>2. Slot(sq) \in 0 .. Total - 1
  BY SlotOfNext, 0 \in Nat
<1>3. ASSUME NEW s \in sq + 1 .. sq + ParityShards, Slot(sq) + 1 = DataShards
      PROVE  Base(s) = Base(sq) /\ Slot(s) >= DataShards
  <2>1. s - sq \in Nat /\ s = sq + (s - sq) /\ Slot(sq) + (s - sq) < Total
    BY <1>1, <1>2, <1>3
  <2>2. Slot(s) = Slot(sq) + (s - sq) /\ Base(s) = Base(sq)
    BY <2>1, SlotOfNext
  <2>3. QED
    BY <1>1, <1>2, <1>3, <2>1, <2>2
<1>4. ASSUME Slot(sq) + 1 < DataShards PROVE Slot(sq + 1) = Slot(sq) + 1 /\ Base(sq + 1) = Base(sq)
  <2>1. Slot(sq) + 1 < Total
    BY <1>1, <1>2, <1>4
  <2>2. QED
    BY <2>1, SlotOfNext
<1>5. ASSUME Slot(sq) + 1 = DataShards PROVE Slot(sq + 1 + ParityShards) = 0
  <2>1. Slot(sq) + (1 + ParityShards) = Total /\ 1 + ParityShards \in Nat
        /\ sq + 1 + ParityShards = sq + (1 + ParityShards)
    BY <1>1, <1>2, <1>5
  <2>2. QED
    BY <2>1, SlotOfNext
<1>6. QED
  BY <1>3, <1>4, <1>5

\* The values of a function on a finite domain are finitely many, and at most as
\* many as its arguments.
LEMMA FiniteImage ==
  ASSUME NEW g, IsFiniteSet(DOMAIN g), g = [x \in DOMAIN g |-> g[x]]
  PROVE  LET image == {g[x] : x \in DOMAIN g}
         IN IsFiniteSet(image) /\ Cardinality(image) <= Cardinality(DOMAIN g)
<1> DEFINE image == {g[x] : x \in DOMAIN g}
<1>1. g \in [DOMAIN g -> image]
  OBVIOUS
<1>2. g \in Surjection(DOMAIN g, image)
  BY <1>1 DEF Surjection
<1>3. QED
  BY <1>2, FS_Surjection

\* The lengths of the packets of a group are a finite set of numbers.
LEMMA LengthsOf ==
  ASSUME NEW group \in Seq(Packet)
  PROVE  LET lengths == {group[i].len : i \in DOMAIN group}
         IN lengths \subseteq Nat /\ IsFiniteSet(lengths) /\ Longest(lengths) \in Nat
<1> DEFINE lengths == {group[i].len : i \in DOMAIN group}
<1>1. lengths \subseteq Nat
  <2>1. ASSUME NEW i \in DOMAIN group PROVE group[i] \in Packet
    BY <2>1
  <2>2. QED
    BY <2>1 DEF Packet
<1>2. IsFiniteSet(1 .. Len(group))
  BY FS_Interval
<1>3. DOMAIN group = 1 .. Len(group)
  OBVIOUS
<1>4. IsFiniteSet(lengths)
  <2> DEFINE I == 1 .. Len(group)
  <2>1. lengths = {group[i].len : i \in I}
    BY <1>3
  <2>2. IsFiniteSet(I)
    BY <1>2
  <2> DEFINE g == [i \in I |-> group[i].len]
  <2>3. {group[i].len : i \in I} = {g[i] : i \in I}
    OBVIOUS
  <2>4. IsFiniteSet({g[i] : i \in I})
    <3>1. DOMAIN g = I /\ g = [x \in DOMAIN g |-> g[x]]
      OBVIOUS
    <3> HIDE DEF I, g
    <3>2. QED
      BY <2>2, <3>1, FiniteImage
  <2>5. QED
    BY <2>1, <2>3, <2>4
<1> HIDE DEF lengths
<1>5. Longest(lengths) \in lengths \cup {0}
  BY <1>1, <1>4, LongestIs
<1>6. QED
  BY <1>1, <1>4, <1>5 DEF lengths

\* Encoding a packet keeps the invariant: its frames and the parity of a full
\* group agree with every frame of the group that is still live.
LEMMA EncodePreserves ==
  ASSUME FInv, NEW len \in Lengths, Encode(len)
  PROVE  FInv'
<1> DEFINE k == Len(groupBuffer)
           n == Len(packets)
           p == [id |-> n + 1, len |-> len]
           group == Append(groupBuffer, p)
           full == k + 1 = DataShards
           d == DataFrame(nextSeqid, p)
           parity == ParityFrames(nextSeqid + 1, group)
<1>1. /\ p \in Packet /\ group \in Seq(Packet) /\ Len(group) = k + 1
      /\ group[k + 1] = p /\ \A i \in 1 .. k : group[i] = groupBuffer[i]
      /\ packets' = Append(packets, p)
      /\ groupBuffer' = IF full THEN <<>> ELSE group
      /\ nextSeqid' = SeqidAfter(nextSeqid, full)
      /\ net' \subseteq net \cup {d} \cup (IF full THEN parity ELSE {})
      /\ UNCHANGED <<rx, given, held>>
      /\ k \in 0 .. DataShards - 1 /\ Slot(nextSeqid) = k /\ nextSeqid \in 0 .. PawsLimit - 1
      /\ \A f \in Live : Base(f.seqid) = Base(nextSeqid) =>
           f.isData /\ Slot(f.seqid) < k /\ f.word[1] = groupBuffer[Slot(f.seqid) + 1]
  BY EncodeFacts
<1>2. /\ DataShards \in Nat \ {0} /\ ParityShards \in Nat \ {0} /\ PawsLimit \in Nat \ {0}
      /\ packets \in Seq(Packet) /\ groupBuffer \in Seq(Packet) /\ k \in Nat /\ n \in Nat
      /\ k <= n /\ (n - k) % DataShards = 0
  BY FecAssumption DEF FInv, TypeOK, GroupBegun
<1>3. p.id = n + 1 /\ p.len = len
  OBVIOUS
<1>4. /\ d.seqid = nextSeqid /\ d.isData /\ d.word = <<p>> /\ d.len = p.len
      /\ Base(d.seqid) = Base(nextSeqid) /\ Slot(d.seqid) = k
  BY <1>1 DEF DataFrame
<1>5. ASSUME full, NEW f \in parity
      PROVE  /\ ~ f.isData /\ f.word = group /\ f.seqid \in Nat
             /\ f.len = Longest({group[i].len : i \in DOMAIN group})
             /\ Base(f.seqid) = Base(nextSeqid) /\ Slot(f.seqid) >= DataShards
  <2> DEFINE lengths == {group[i].len : i \in DOMAIN group}
  <2>1. PICK s \in nextSeqid + 1 .. nextSeqid + 1 + ParityShards - 1 :
          f = [seqid |-> s, isData |-> FALSE, word |-> group, len |-> Longest(lengths)]
    BY <1>5 DEF ParityFrames
  <2>2. s \in nextSeqid + 1 .. nextSeqid + ParityShards /\ s \in Nat /\ nextSeqid \in Nat
    BY <1>1, <1>2
  <2>3. Base(s) = Base(nextSeqid) /\ Slot(s) >= DataShards
    BY <1>1, <1>2, <1>5, <2>2, NewSlots
  <2> HIDE DEF lengths, group
  <2>4. QED
    BY <2>1, <2>2, <2>3 DEF lengths
<1>6. Live' \subseteq Live \cup {d} \cup (IF full THEN parity ELSE {})
  BY <1>1 DEF Live
<1> HIDE DEF p, group, d, parity
<1>7. Range(packets') = Range(packets) \cup {p}
  <2>1. DOMAIN packets' = 1 .. n + 1 /\ DOMAIN packets = 1 .. n
        /\ packets'[n + 1] = p /\ \A i \in 1 .. n : packets'[i] = packets[i]
    BY <1>1, <1>2
  <2>2. QED
    BY <1>2, <2>1 DEF Range
<1>8. TypeOK'
  <2>1. nextSeqid' \in 0 .. PawsLimit - 1
    BY <1>1, <1>2 DEF SeqidAfter
  <2>2. groupBuffer' \in Seq(Packet) /\ Len(groupBuffer') < DataShards
    BY <1>1, <1>2
  <2>3. packets' \in Seq(Packet)
    BY <1>1, <1>2
  <2>4. net \subseteq Frame /\ rx \subseteq Frame /\ Cardinality(rx) <= RxLimit
        /\ given \subseteq Packet /\ held \subseteq Frame
    BY DEF FInv, TypeOK
  <2>5. d \in Frame
    <3>1. nextSeqid \in Nat /\ <<p>> \in Seq(Packet) /\ p.len \in Nat
      BY <1>1 DEF Packet
    <3>2. QED
      BY <3>1 DEF Frame, DataFrame, d
  <2>6. ASSUME full PROVE parity \subseteq Frame
    <3> DEFINE lengths == {group[i].len : i \in DOMAIN group}
    <3>1. Longest(lengths) \in Nat
      BY <1>1, LengthsOf
    <3>2. \A s \in nextSeqid + 1 .. nextSeqid + 1 + ParityShards - 1 : s \in Nat
      BY <1>1, <1>2
    <3> HIDE DEF lengths
    <3>3. \A s \in nextSeqid + 1 .. nextSeqid + 1 + ParityShards - 1 :
            [seqid |-> s, isData |-> FALSE, word |-> group, len |-> Longest(lengths)] \in Frame
      BY <1>1, <3>1, <3>2 DEF Frame
    <3>4. parity = {[seqid |-> s, isData |-> FALSE, word |-> group, len |-> Longest(lengths)] :
                      s \in nextSeqid + 1 .. nextSeqid + 1 + ParityShards - 1}
      BY DEF parity, ParityFrames, lengths
    <3>5. QED
      BY <3>3, <3>4
  <2>7. net' \subseteq Frame
    BY <1>1, <2>4, <2>5, <2>6
  <2>8. QED
    BY <1>1, <2>1, <2>2, <2>3, <2>4, <2>7 DEF TypeOK
<1>9. GroupBegun'
  <2>1. DOMAIN packets = 1 .. n /\ Len(packets') = n + 1
        /\ packets'[n + 1] = p /\ \A i \in 1 .. n : packets'[i] = packets[i]
    BY <1>1, <1>2
  <2>2. \A i \in 1 .. n + 1 : packets'[i].id = i
    BY <1>2, <1>3, <2>1 DEF FInv, GroupBegun
  <2>3. n - k \in Nat /\ (n - k) + (k + 1) = n + 1
    BY <1>2
  <2>4. CASE full
    <3>1. groupBuffer' = <<>> /\ Len(groupBuffer') = 0
      BY <1>1, <2>4
    <3>2. (n + 1) % DataShards = 0
      <4>1. PICK m \in Nat : m = n - k
        BY <2>3
      <4>2. PICK i \in Nat : i = k + 1
        BY <1>2
      <4>3. n + 1 = m + i /\ (m % DataShards) + i = DataShards
        BY <1>2, <2>3, <2>4, <4>1, <4>2
      <4>4. (m + i) % DataShards = 0
        <5> HIDE DEF k, n
        <5>1. DataShards \in Nat \ {0} /\ m \in Nat /\ i \in Nat
          BY <1>2
        <5>2. (m % DataShards) + i = DataShards
          BY <4>3
        <5>3. QED
          BY <5>1, <5>2, RemainderOfSum, Zenon
      <4>5. QED
        BY <4>3, <4>4
    <3>3. Slot(nextSeqid') = 0
      <4>1. Slot(nextSeqid + 1 + ParityShards) = 0
        <5>1. nextSeqid \in Nat /\ Slot(nextSeqid) < DataShards /\ Slot(nextSeqid) + 1 = DataShards
          BY <1>1, <1>2, <2>4
        <5>2. QED
          BY <5>1, NewSlots
      <4>2. Slot(0) = 0
        <5>1. Total \in Nat \ {0}
          BY <1>2 DEF Total
        <5>2. QED
          BY <5>1 DEF Slot
      <4>3. nextSeqid' = nextSeqid + 1 + ParityShards \/ nextSeqid' = 0
        BY <1>1, <2>4 DEF SeqidAfter
      <4>4. QED
        BY <4>1, <4>2, <4>3
    <3>4. QED
      BY <1>2, <2>1, <2>2, <3>1, <3>2, <3>3 DEF GroupBegun
  <2>5. CASE ~ full
    <3>1. groupBuffer' = group /\ k + 1 < DataShards
      BY <1>1, <1>2, <2>5
    <3>2. nextSeqid' = nextSeqid + 1 /\ Slot(nextSeqid') = k + 1
      <4>1. nextSeqid + 1 < PawsLimit
        <5>1. Slot(nextSeqid) # Total - 1
          BY <1>1, <1>2, <3>1 DEF Total
        <5>2. QED
          BY <1>1, <1>2, <5>1, RolloverBetweenGroups
      <4>2. nextSeqid' = nextSeqid + 1
        BY <1>1, <1>2, <2>5, <4>1 DEF SeqidAfter
      <4>3. QED
        BY <1>1, <1>2, <3>1, <4>2, NewSlots
    <3>3. \A i \in 1 .. k + 1 : group[i] = packets'[n - k + i]
      <4>1. ASSUME NEW i \in 1 .. k PROVE group[i] = packets'[n - k + i]
        <5>1. groupBuffer[i] = packets[n - k + i] /\ n - k + i \in 1 .. n
          BY <1>2 DEF FInv, GroupBegun
        <5>2. QED
          BY <1>1, <2>1, <5>1
      <4>2. group[k + 1] = packets'[n - k + (k + 1)]
        BY <1>1, <2>1, <2>3
      <4>3. QED
        BY <1>2, <4>1, <4>2
    <3>4. (n + 1) - (k + 1) = n - k /\ k + 1 <= n + 1
      BY <1>2
    <3>5. Len(groupBuffer') = k + 1
      BY <1>1, <3>1
    <3> HIDE DEF k, n
    <3>6. QED
      BY <1>2, <2>1, <2>2, <3>1, <3>2, <3>3, <3>4, <3>5 DEF GroupBegun
  <2>6. QED
    BY <2>4, <2>5
<1>10. ASSUME NEW f \in Live' PROVE FrameOK(f)'
  <2>1. CASE f \in Live
    <3>1. FrameOK(f)
      BY <2>1 DEF FInv
    <3>2. QED
      BY <1>7, <3>1 DEF FrameOK
  <2>2. CASE f = d
    <3>1. n % DataShards = k
      <4>1. PICK m \in Nat : m = n - k
        BY <1>2
      <4>2. n = m + k /\ m % DataShards = 0 /\ 0 + k < DataShards
        BY <1>1, <1>2, <4>1
      <4>3. (m + k) % DataShards = 0 + k
        <5>1. PICK i \in Nat : i = k
          BY <1>2
        <5>2. (m % DataShards) + i < DataShards
          BY <4>2, <5>1
        <5>3. (m + i) % DataShards = (m % DataShards) + i
          <6>1. DataShards \in Nat \ {0}
            BY <1>2
          <6> HIDE DEF k, n, full
          <6>2. (m % DataShards) + i < DataShards =>
                  (m + i) % DataShards = (m % DataShards) + i
            BY <6>1, RemainderOfSum
          <6>3. QED
            BY <5>2, <6>2
        <5>4. QED
          BY <4>2, <5>1, <5>3
      <4>4. QED
        BY <1>2, <4>2, <4>3
    <3>2. f.word[1] = p /\ Len(f.word) = 1 /\ DOMAIN f.word = {1} /\ p.id - 1 = n
      <4>1. f.word = <<p>>
        BY <1>4, <2>2
      <4>2. <<p>>[1] = p /\ Len(<<p>>) = 1 /\ DOMAIN <<p>> = {1}
        OBVIOUS
      <4>3. p.id - 1 = n
        BY <1>2, <1>3
      <4>4. QED
        BY <4>1, <4>2, <4>3
    <3>3. Slot(f.seqid) = k /\ f.isData /\ f.len = p.len /\ k < DataShards
      BY <1>1, <1>4, <2>2
    <3>4. QED
      BY <1>7, <3>1, <3>2, <3>3 DEF FrameOK
  <2>3. CASE full /\ f \in parity
    <3>1. \A i \in DOMAIN group : group[i] \in Range(packets')
      <4>1. ASSUME NEW i \in 1 .. k PROVE group[i] \in Range(packets)
        <5>1. group[i] = packets[n - k + i] /\ n - k + i \in 1 .. n /\ DOMAIN packets = 1 .. n
          BY <1>1, <1>2 DEF FInv, GroupBegun
        <5>2. QED
          BY <5>1 DEF Range
      <4>2. DOMAIN group = 1 .. k + 1 /\ group[k + 1] = p
        BY <1>1
      <4>3. QED
        BY <1>2, <1>7, <4>1, <4>2
    <3>2. /\ ~ f.isData /\ f.word = group /\ Slot(f.seqid) >= DataShards
          /\ f.len = Longest({group[i].len : i \in DOMAIN group})
      BY <1>5, <2>3
    <3>3. Len(group) = DataShards
      BY <1>1, <2>3
    <3>4. QED
      BY <3>1, <3>2, <3>3 DEF FrameOK
  <2>4. QED
    BY <1>6, <2>1, <2>2, <2>3
<1>11. ASSUME NEW f \in Live', NEW g \in Live' PROVE Agree(f, g)'
  <2> SUFFICES ASSUME Base(f.seqid) = Base(g.seqid), ~ g.isData
               PROVE  IF f.isData THEN f.word[1] = g.word[Slot(f.seqid) + 1] ELSE f.word = g.word
    BY DEF Agree
  <2>1. CASE g \in Live
    <3>1. Base(g.seqid) # Base(nextSeqid)
      BY <1>1, <2>1
    <3>2. f \in Live
      BY <1>4, <1>5, <1>6, <3>1
    <3>3. QED
      BY <2>1, <3>2 DEF FInv, Agree
  <2>2. CASE full /\ g \in parity
    <3>1. g.word = group /\ Base(f.seqid) = Base(nextSeqid)
      BY <1>5, <2>2
    <3>2. CASE f \in Live
      <4>1. /\ f.isData /\ Slot(f.seqid) < k /\ f.word[1] = groupBuffer[Slot(f.seqid) + 1]
        BY <1>1, <3>1, <3>2
      <4>2. f.seqid \in Nat
        BY <3>2 DEF Live, FInv, TypeOK, Frame
      <4>3. Slot(f.seqid) \in Nat
        BY <4>2, SlotOfNext, 0 \in Nat
      <4>4. Slot(f.seqid) + 1 \in 1 .. k
        BY <1>2, <4>1, <4>3
      <4>5. QED
        BY <1>1, <3>1, <4>1, <4>4
    <3>3. CASE f = d
      BY <1>1, <1>4, <3>1, <3>3
    <3>4. CASE f \in parity
      BY <1>5, <2>2, <3>1, <3>4
    <3>5. QED
      BY <1>6, <2>2, <3>2, <3>3, <3>4
  <2>3. QED
    BY <1>4, <1>6, <2>1, <2>2
<1>12. ASSUME groupBuffer' # <<>>, NEW f \in Live' PROVE InGroup(f)'
  <2>1. ~ full /\ groupBuffer' = group /\ k + 1 < DataShards
    BY <1>1, <1>2, <1>12
  <2>2. nextSeqid + 1 < PawsLimit
    <3>1. Slot(nextSeqid) # Total - 1
      BY <1>1, <1>2, <2>1 DEF Total
    <3>2. QED
      BY <1>1, <1>2, <3>1, RolloverBetweenGroups
  <2>3. nextSeqid' = nextSeqid + 1
    BY <1>1, <1>2, <2>1, <2>2 DEF SeqidAfter
  <2>4. Base(nextSeqid') = Base(nextSeqid)
    BY <1>1, <1>2, <2>1, <2>3, NewSlots
  <2> SUFFICES ASSUME Base(f.seqid) = Base(nextSeqid)
               PROVE  f.isData /\ Slot(f.seqid) < k + 1 /\ f.word[1] = group[Slot(f.seqid) + 1]
    BY <1>1, <2>1, <2>4 DEF InGroup
  <2>5. CASE f \in Live
    <3>1. f.isData /\ Slot(f.seqid) < k /\ f.word[1] = groupBuffer[Slot(f.seqid) + 1]
      BY <1>1, <2>5
    <3>2. f.seqid \in Nat
      BY <2>5 DEF Live, FInv, TypeOK, Frame
    <3>3. Slot(f.seqid) \in Nat
      BY <3>2, SlotOfNext, 0 \in Nat
    <3>4. Slot(f.seqid) + 1 \in 1 .. k /\ Slot(f.seqid) < k + 1
      BY <1>2, <3>1, <3>3
    <3>5. QED
      BY <1>1, <3>1, <3>4
  <2>6. CASE f = d
    BY <1>1, <1>2, <1>4, <2>6
  <2>7. QED
    BY <1>6, <2>1, <2>5, <2>6
<1>13. Genuine'
  BY <1>1, <1>7 DEF FInv, Genuine
<1>14. IsFiniteSet(rx)' /\ (\A f, g \in rx : f.seqid = g.seqid => f = g)' /\ RxTidy'
  BY <1>1 DEF FInv, RxTidy
<1>15. QED
  BY <1>8, <1>9, <1>10, <1>11, <1>12, <1>13, <1>14 DEF FInv

-----------------------------------------------------------------------------
(* The decoder                                                             *)

\* A finite group is done when it has DataShards shards: that all its data
\* arrived is a special case.
LEMMA DoneIs ==
  ASSUME NEW S, IsFiniteSet(S)
  PROVE  /\ Done(S) <=> Cardinality(S) >= DataShards
         /\ Cardinality(S) \in Nat
         /\ IsFiniteSet(DataOf(S)) /\ Cardinality(DataOf(S)) \in Nat
<1>1. DataOf(S) \in SUBSET S
  BY DEF DataOf
<1>2. IsFiniteSet(DataOf(S)) /\ Cardinality(DataOf(S)) <= Cardinality(S)
  BY <1>1, FS_Subset
<1>3. Cardinality(S) \in Nat /\ Cardinality(DataOf(S)) \in Nat /\ DataShards \in Nat
  BY <1>2, FS_CardinalityType, FecAssumption
<1>4. QED
  BY <1>2, <1>3 DEF Done, Enough

\* What is left of an unfinished group is unfinished.
LEMMA DoneMonotone ==
  ASSUME NEW S, IsFiniteSet(S), NEW R \in SUBSET S, ~ Done(S)
  PROVE  ~ Done(R)
<1>1. IsFiniteSet(R) /\ Cardinality(R) <= Cardinality(S)
  BY FS_Subset
<1>2. Cardinality(R) \in Nat /\ Cardinality(S) \in Nat /\ DataShards \in Nat
  BY <1>1, FS_CardinalityType, FecAssumption
<1>3. QED
  BY <1>1, <1>2, DoneIs

\* Bounded keeps at most RxLimit shards: the lowest of them has fewer than
\* RxLimit above it.
LEMMA BoundedIs ==
  ASSUME NEW S, S \subseteq Frame, IsFiniteSet(S),
         \A f, g \in S : f.seqid = g.seqid => f = g
  PROVE  /\ Bounded(S) \subseteq S /\ IsFiniteSet(Bounded(S))
         /\ Cardinality(Bounded(S)) <= RxLimit
<1> DEFINE B == Bounded(S)
           above(f) == {g \in S : g.seqid > f.seqid}
           seqids == {f.seqid : f \in B}
<1>1. B \in SUBSET S /\ \A f \in B : Cardinality(above(f)) < RxLimit
  BY DEF Bounded
<1>2. IsFiniteSet(B) /\ Cardinality(B) \in Nat /\ RxLimit \in Nat
  BY <1>1, FS_Subset, FS_CardinalityType, FecAssumption
<1>3. CASE B = {}
  <2>1. Cardinality(B) = 0
    BY <1>3, FS_EmptySet
  <2> HIDE DEF B
  <2>2. QED
    BY <1>1, <1>2, <2>1 DEF B
<1>4. CASE B # {}
  <2>1. \A f \in S : f.seqid \in Nat
    BY DEF Frame
  <2>2. seqids \subseteq Nat /\ seqids # {}
    BY <1>1, <1>4, <2>1
  <2>3. PICK m \in seqids : \A j \in seqids : m <= j
    <3> HIDE DEF seqids
    <3>1. QED
      BY <2>2, Least
  <2>4. PICK f \in B : m = f.seqid
    OBVIOUS
  <2>5. ASSUME NEW g \in B \ {f} PROVE g \in above(f)
    <3>1. f.seqid <= g.seqid /\ f.seqid # g.seqid /\ g \in S /\ f \in S
      BY <1>1, <2>3, <2>4
    <3>2. g.seqid > f.seqid
      BY <2>1, <3>1
    <3>3. QED
      BY <3>1, <3>2
  <2>6. above(f) \in SUBSET S
    OBVIOUS
  <2>7. IsFiniteSet(above(f)) /\ Cardinality(above(f)) \in Nat /\ Cardinality(above(f)) < RxLimit
    BY <1>1, <2>6, FS_Subset, FS_CardinalityType
  <2>8. Cardinality(B \ {f}) <= Cardinality(above(f))
    <3> DEFINE high == above(f)
               rest == B \ {f}
    <3>1. rest \in SUBSET high /\ IsFiniteSet(high)
      BY <2>5, <2>7
    <3> HIDE DEF high, rest
    <3>2. Cardinality(rest) <= Cardinality(high)
      BY <3>1, FS_Subset
    <3>3. QED
      BY <3>2 DEF high, rest
  <2>9. Cardinality(B \ {f}) = Cardinality(B) - 1
    <3> HIDE DEF B
    <3>1. QED
      BY <1>2, FS_RemoveElement
  <2>10. Cardinality(B) - 1 <= Cardinality(above(f))
    BY <2>8, <2>9
  <2>11. Cardinality(B) <= RxLimit
    <3> HIDE DEF B, above
    <3>1. QED
      BY <1>2, <2>7, <2>10
  <2>12. QED
    BY <1>1, <1>2, <2>11
<1>5. QED
  BY <1>3, <1>4

\* Frames of a group whose slots are below m are at most m, for each has a slot of
\* its own; if they are m, they fill all of those slots.
LEMMA SlotsFit ==
  ASSUME NEW S, S \subseteq Frame, IsFiniteSet(S), NEW b, NEW m \in Nat,
         \A f \in S : Base(f.seqid) = b /\ Slot(f.seqid) < m,
         \A f, g \in S : f.seqid = g.seqid => f = g
  PROVE  /\ Cardinality(S) <= m
         /\ Cardinality(S) = m => \A j \in 0 .. m - 1 : \E f \in S : Slot(f.seqid) = j
<1> DEFINE T == 0 .. m - 1
           slot == [f \in S |-> Slot(f.seqid)]
<1>1. ASSUME NEW f \in S PROVE slot[f] \in T /\ slot[f] = Slot(f.seqid) /\ f.seqid \in Nat
  <2>1. f.seqid \in Nat
    BY DEF Frame
  <2>2. Slot(f.seqid) \in 0 .. Total - 1
    BY <2>1, SlotOfNext, 0 \in Nat
  <2>3. QED
    BY <2>1, <2>2
<1>2. ASSUME NEW f \in S, NEW g \in S, slot[f] = slot[g] PROVE f = g
  <2>1. f.seqid - Slot(f.seqid) = g.seqid - Slot(g.seqid)
    BY DEF Base
  <2>2. f.seqid = g.seqid
    BY <1>1, <1>2, <2>1
  <2>3. QED
    BY <2>2
<1>3. slot \in [S -> T]
  BY <1>1
<1>4. slot \in Injection(S, T)
  <2> HIDE DEF T, slot
  <2>1. QED
    BY <1>2, <1>3 DEF Injection, IsInjective
<1>5. IsFiniteSet(T) /\ Cardinality(T) = m
  <2>1. 0 > m - 1 <=> m = 0
    OBVIOUS
  <2>2. QED
    BY <2>1, FS_Interval
<1>6. \A f \in S : slot[f] = Slot(f.seqid)
  OBVIOUS
<1>7. /\ Cardinality(S) <= Cardinality(T)
      /\ Cardinality(S) = Cardinality(T) => slot \in Surjection(S, T)
  <2> HIDE DEF T, slot
  <2>1. QED
    BY <1>4, <1>5, FS_Injection
<1>8. ASSUME Cardinality(S) = m, NEW j \in T PROVE \E f \in S : Slot(f.seqid) = j
  <2>1. slot \in Surjection(S, T)
    BY <1>5, <1>7, <1>8
  <2> HIDE DEF T, slot
  <2>2. \E f \in S : slot[f] = j
    BY <1>8, <2>1 DEF Surjection
  <2>3. QED
    BY <1>6, <2>2
<1>9. QED
  BY <1>5, <1>7, <1>8

\* A group has at most DataShards data shards; if that many, all its data.
LEMMA DataFits ==
  ASSUME NEW S, S \subseteq Frame, IsFiniteSet(S), NEW b,
         \A f \in S : Base(f.seqid) = b /\ FrameOK(f),
         \A f, g \in S : f.seqid = g.seqid => f = g
  PROVE  /\ Cardinality(DataOf(S)) <= DataShards
         /\ Cardinality(DataOf(S)) = DataShards =>
              \A j \in 0 .. DataShards - 1 : \E f \in DataOf(S) : Slot(f.seqid) = j
<1> DEFINE D == DataOf(S)
<1>1. D \subseteq S /\ \A f \in D : f.isData
  BY DEF DataOf
<1>2. IsFiniteSet(D) /\ DataShards \in Nat
  BY DoneIs, FecAssumption
<1>3. \A f \in D : Base(f.seqid) = b /\ Slot(f.seqid) < DataShards
  BY <1>1 DEF FrameOK
<1>4. D \subseteq Frame /\ \A f, g \in D : f.seqid = g.seqid => f = g
  BY <1>1
<1> HIDE DEF D
<1>5. /\ Cardinality(D) <= DataShards
      /\ Cardinality(D) = DataShards =>
           \A j \in 0 .. DataShards - 1 : \E f \in D : Slot(f.seqid) = j
  BY <1>2, <1>3, <1>4, SlotsFit
<1>6. QED
  BY <1>5 DEF D

\* Finitely many frames have finitely many lengths.
LEMMA FrameLengths ==
  ASSUME NEW S, IsFiniteSet(S)
  PROVE  IsFiniteSet({f.len : f \in S})
<1> DEFINE g == [f \in S |-> f.len]
<1>1. DOMAIN g = S /\ g = [x \in DOMAIN g |-> g[x]]
  OBVIOUS
<1>2. {f.len : f \in S} = {g[f] : f \in S}
  OBVIOUS
<1>3. IsFiniteSet({g[f] : f \in S})
  <2> HIDE DEF g
  <2>1. QED
    BY <1>1, FiniteImage
<1>4. QED
  BY <1>2, <1>3

\* What reconstruct returns is a packet of the group: a group that lacks data but
\* has enough shards has a parity frame, whose code word all the shards agree on
\* and whose length they are padded to.
LEMMA ReconstructedIs ==
  ASSUME NEW S, S \subseteq Frame, IsFiniteSet(S), NEW b,
         \A f \in S : Base(f.seqid) = b /\ FrameOK(f),
         \A f, g \in S : f.seqid = g.seqid => f = g,
         \A f, g \in S : Agree(f, g),
         Cardinality(DataOf(S)) # DataShards, Enough(S), NEW i \in 0 .. DataShards - 1
  PROVE  \E parity \in S : /\ ~ parity.isData
                           /\ i + 1 \in DOMAIN parity.word
                           /\ Reconstructed(S, i) = parity.word[i + 1]
                           /\ parity.word[i + 1] \in Range(packets)
<1>1. DataShards \in Nat
  BY FecAssumption
<1>2. \E f \in S : ~ f.isData
  <2>1. CASE DataOf(S) = S
    <3>1. Cardinality(S) <= DataShards
      BY <2>1, DataFits
    <3>2. Cardinality(S) >= DataShards /\ Cardinality(S) \in Nat /\ Cardinality(S) # DataShards
      BY <2>1, FS_CardinalityType DEF Enough
    <3>3. QED
      BY <1>1, <3>1, <3>2
  <2>2. CASE DataOf(S) # S
    BY <2>2 DEF DataOf
  <2>3. QED
    BY <2>1, <2>2
<1> DEFINE parity == CHOOSE f \in S : ~ f.isData
           word == parity.word
           lens == {f.len : f \in S}
           wordLens == {word[j].len : j \in DOMAIN word}
<1>3. parity \in S /\ ~ parity.isData
  BY <1>2
<1> HIDE DEF parity
<1>4. /\ word \in Seq(Packet) /\ Len(word) = DataShards /\ DOMAIN word = 1 .. DataShards
      /\ \A j \in DOMAIN word : word[j] \in Range(packets)
      /\ parity.len = Longest(wordLens) /\ parity.len \in Nat
  <2>1. word \in Seq(Packet) /\ parity.len \in Nat
    BY <1>3 DEF Frame
  <2>2. FrameOK(parity)
    BY <1>3
  <2>3. QED
    BY <1>3, <2>1, <2>2 DEF FrameOK
<1>5. ASSUME NEW f \in S
      PROVE  IF f.isData THEN f.word = <<word[Slot(f.seqid) + 1]>> /\ Slot(f.seqid) + 1 \in DOMAIN word
                         ELSE f.word = word
  <2>1. Agree(f, parity) /\ Base(f.seqid) = Base(parity.seqid) /\ FrameOK(f)
    BY <1>3
  <2>2. CASE f.isData
    <3>1. f.word[1] = word[Slot(f.seqid) + 1]
      BY <1>3, <2>1, <2>2 DEF Agree
    <3>2. f.word \in Seq(Packet) /\ Len(f.word) = 1
      BY <2>1, <2>2 DEF FrameOK, Frame
    <3>3. f.word = <<f.word[1]>>
      <4> DEFINE w == f.word
      <4>1. w \in Seq(Packet) /\ Len(w) = 1
        BY <3>2
      <4> HIDE DEF w
      <4>2. w = <<w[1]>>
        BY <4>1
      <4>3. QED
        BY <4>2 DEF w
    <3>4. f.seqid \in Nat
      BY DEF Frame
    <3>5. Slot(f.seqid) \in 0 .. Total - 1 /\ Slot(f.seqid) < DataShards
      BY <2>1, <2>2, <3>4, SlotOfNext, 0 \in Nat DEF FrameOK
    <3>6. Slot(f.seqid) + 1 \in 1 .. DataShards
      BY <1>1, <3>5
    <3>7. QED
      BY <1>4, <2>2, <3>1, <3>3, <3>6
  <2>3. CASE ~ f.isData
    BY <1>3, <2>1, <2>3 DEF Agree
  <2>4. QED
    BY <2>2, <2>3
<1>6. wordLens \subseteq Nat /\ IsFiniteSet(wordLens) /\ \A x \in wordLens : x <= parity.len
  <2>1. wordLens \subseteq Nat /\ IsFiniteSet(wordLens)
    BY <1>4, LengthsOf
  <2> HIDE DEF wordLens
  <2>2. QED
    BY <1>4, <2>1, LongestIs
<1>7. ASSUME NEW f \in S PROVE f.len <= parity.len /\ f.len \in Nat
  <2>1. f.len \in Nat /\ FrameOK(f)
    BY DEF Frame
  <2>2. CASE f.isData
    <3>1. f.len = f.word[1].len
      BY <2>1, <2>2 DEF FrameOK
    <3>2. f.word = <<word[Slot(f.seqid) + 1]>> /\ Slot(f.seqid) + 1 \in DOMAIN word
      BY <1>5, <2>2
    <3>3. f.len \in wordLens
      BY <3>1, <3>2
    <3>4. QED
      BY <1>6, <2>1, <3>3
  <2>3. CASE ~ f.isData
    <3>1. f.word = word /\ f.len = Longest({f.word[j].len : j \in DOMAIN f.word})
      BY <1>5, <2>1, <2>3 DEF FrameOK
    <3>2. f.len = Longest(wordLens)
      BY <3>1
    <3>3. f.len = parity.len
      BY <1>4, <3>2
    <3>4. QED
      BY <1>4, <3>3
  <2>4. QED
    BY <2>2, <2>3
<1>8. PaddedTo(S) = parity.len
  <2>1. lens \subseteq Nat /\ parity.len \in lens /\ \A x \in lens : x <= parity.len
    BY <1>3, <1>7
  <2>2. IsFiniteSet(lens)
    BY FrameLengths
  <2>3. PaddedTo(S) = Longest(lens)
    BY DEF PaddedTo
  <2> HIDE DEF lens
  <2>4. Longest(lens) \in lens \cup {0} /\ \A x \in lens : x <= Longest(lens)
    BY <2>1, <2>2, LongestIs
  <2>5. Longest(lens) <= parity.len /\ parity.len <= Longest(lens) /\ Longest(lens) \in Nat
    <3>1. PICK l : l = Longest(lens)
      OBVIOUS
    <3>2. PICK q \in Nat : q = parity.len
      BY <1>4
    <3>3. CASE l = 0
      BY <2>1, <2>4, <3>1, <3>2, <3>3
    <3>4. CASE l \in lens
      BY <2>1, <2>4, <3>1, <3>2, <3>4
    <3>5. QED
      BY <2>4, <3>1, <3>3, <3>4
  <2>6. QED
    BY <1>4, <2>3, <2>5
<1>9. /\ PaddedTo(S) = parity.len
      /\ \A f \in S : IF f.isData THEN f.word = <<word[Slot(f.seqid) + 1]>>
                                  ELSE f.word = word
  BY <1>5, <1>8
<1>10. Reconstructed(S, i) = word[i + 1]
  BY <1>9 DEF Reconstructed, parity
<1>11. i + 1 \in DOMAIN word
  BY <1>1, <1>4
<1>12. QED
  BY <1>3, <1>4, <1>10, <1>11

\* What tryReconstruct recovers was encoded.
LEMMA RecoveredGenuine ==
  ASSUME NEW S, S \subseteq Frame, IsFiniteSet(S), NEW b,
         \A f \in S : Base(f.seqid) = b /\ FrameOK(f),
         \A f, g \in S : f.seqid = g.seqid => f = g,
         \A f, g \in S : Agree(f, g)
  PROVE  Recovered(S) \subseteq Range(packets)
<1>1. ASSUME Cardinality(DataOf(S)) # DataShards, Enough(S), NEW i \in 0 .. DataShards - 1
      PROVE  Reconstructed(S, i) \in Range(packets)
  BY <1>1, ReconstructedIs
<1>2. QED
  BY <1>1 DEF Recovered

\* The shards the decoder looks at when a frame arrives: the live ones and the
\* new one, all of them live frames that agree.
LEMMA DecodeFacts ==
  ASSUME FInv, NEW f \in net, NEW live \in SUBSET rx
  PROVE  LET all == live \cup {f}
             group == Siblings(all, f.seqid)
         IN
         /\ all \subseteq Live /\ IsFiniteSet(all) /\ IsFiniteSet(live)
         /\ all \subseteq Frame /\ \A g \in all : FrameOK(g) /\ \A h \in all : Agree(g, h)
         /\ \A g, h \in live : g.seqid = h.seqid => g = h
         /\ (~ \E g \in live : g.seqid = f.seqid) =>
              \A g, h \in all : g.seqid = h.seqid => g = h
         /\ group \subseteq all /\ IsFiniteSet(group) /\ f \in group
         /\ \A g \in all : g \in group <=> Base(g.seqid) = Base(f.seqid)
<1> DEFINE all == live \cup {f}
           group == Siblings(all, f.seqid)
<1>1. all \subseteq Live /\ live \subseteq rx
  BY DEF Live
<1>2. IsFiniteSet(live) /\ IsFiniteSet(all)
  BY FS_Subset, FS_AddElement DEF FInv
<1>3. all \subseteq Frame
  BY <1>1 DEF Live, FInv, TypeOK
<1>4. \A g \in all : FrameOK(g) /\ \A h \in all : Agree(g, h)
  BY <1>1 DEF FInv
<1>5. \A g, h \in live : g.seqid = h.seqid => g = h
  BY <1>1 DEF FInv
<1>6. group \in SUBSET all /\ f \in group
      /\ \A g \in all : g \in group <=> Base(g.seqid) = Base(f.seqid)
  BY DEF Siblings
<1>7. IsFiniteSet(group)
  BY <1>2, <1>6, FS_Subset
<1>8. ASSUME ~ \E g \in live : g.seqid = f.seqid
      PROVE  \A g, h \in all : g.seqid = h.seqid => g = h
  BY <1>5, <1>8
<1>9. QED
  BY <1>1, <1>2, <1>3, <1>4, <1>5, <1>6, <1>7, <1>8

\* A frame arriving keeps the invariant.
LEMMA DecodePreserves ==
  ASSUME FInv, NEW f \in net, NEW live \in SUBSET rx, Decode(f, live)
  PROVE  FInv'
<1> DEFINE duplicate == \E g \in live : g.seqid = f.seqid
           all == live \cup {f}
           group == Siblings(all, f.seqid)
           left == IF Done(group) THEN all \ group ELSE all
           surfaced == IF f.isData THEN {f.word[1]} ELSE {}
<1>1. /\ all \subseteq Live /\ IsFiniteSet(all) /\ IsFiniteSet(live)
      /\ all \subseteq Frame /\ \A g \in all : FrameOK(g) /\ \A h \in all : Agree(g, h)
      /\ \A g, h \in live : g.seqid = h.seqid => g = h
      /\ ~ duplicate => \A g, h \in all : g.seqid = h.seqid => g = h
      /\ group \subseteq all /\ IsFiniteSet(group) /\ f \in group
      /\ \A g \in all : g \in group <=> Base(g.seqid) = Base(f.seqid)
  BY DecodeFacts
<1>2. /\ duplicate => rx' = live /\ given' = given \cup surfaced
      /\ ~ duplicate => rx' = Bounded(left) /\ given' = given \cup surfaced \cup Recovered(group)
      /\ held' \subseteq held \cup {f}
      /\ UNCHANGED <<nextSeqid, groupBuffer, packets, net>>
  BY DEF Decode
<1> HIDE DEF group, duplicate, surfaced
<1>3. /\ left \in SUBSET all /\ IsFiniteSet(left) /\ left \subseteq Frame
      /\ ~ duplicate => \A g, h \in left : g.seqid = h.seqid => g = h
  <2>1. left \in SUBSET all
    OBVIOUS
  <2>2. IsFiniteSet(left)
    BY <1>1, <2>1, FS_Subset
  <2>3. QED
    BY <1>1, <2>1, <2>2
<1>4. rx' \subseteq (IF duplicate THEN live ELSE left) /\ IsFiniteSet(rx') /\ Cardinality(rx') <= RxLimit
  <2>1. CASE duplicate
    <3>1. Cardinality(live) <= Cardinality(rx) /\ Cardinality(live) \in Nat
          /\ Cardinality(rx) \in Nat /\ Cardinality(rx) <= RxLimit /\ RxLimit \in Nat
      BY <1>1, FS_Subset, FS_CardinalityType, FecAssumption DEF FInv, TypeOK
    <3>2. QED
      BY <1>1, <1>2, <2>1, <3>1
  <2>2. CASE ~ duplicate
    <3> HIDE DEF left
    <3>1. left \subseteq Frame /\ IsFiniteSet(left)
          /\ \A g, h \in left : g.seqid = h.seqid => g = h
      BY <1>3, <2>2
    <3>2. Bounded(left) \subseteq left /\ IsFiniteSet(Bounded(left))
          /\ Cardinality(Bounded(left)) <= RxLimit
      BY <3>1, BoundedIs
    <3>3. QED
      BY <1>2, <2>2, <3>2
  <2>3. QED
    BY <2>1, <2>2
<1>5. rx' \subseteq all /\ Live' \subseteq Live
  BY <1>1, <1>2, <1>3, <1>4 DEF Live
<1>6. f \in Frame /\ (f.isData => f.word[1] \in Range(packets))
  <2>1. f \in Frame /\ FrameOK(f)
    BY <1>1
  <2>2. ASSUME f.isData PROVE f.word[1] \in Range(packets)
    <3>1. f.word \in Seq(Packet) /\ Len(f.word) = 1
      BY <2>1, <2>2 DEF Frame, FrameOK
    <3>2. 1 \in DOMAIN f.word
      BY <3>1
    <3>3. QED
      BY <2>1, <3>2 DEF FrameOK
  <2>3. QED
    BY <2>1, <2>2
<1>7. ~ duplicate => Recovered(group) \subseteq Range(packets)
  <2>1. group \subseteq Frame /\ \A g \in group : Base(g.seqid) = Base(f.seqid) /\ FrameOK(g)
    BY <1>1
  <2>2. \A g, h \in group : Agree(g, h)
    BY <1>1
  <2>3. ~ duplicate => \A g, h \in group : g.seqid = h.seqid => g = h
    BY <1>1
  <2>4. QED
    BY <1>1, <2>1, <2>2, <2>3, RecoveredGenuine
<1>8. Genuine'
  BY <1>2, <1>6, <1>7 DEF FInv, Genuine, surfaced
<1>9. TypeOK'
  <2>1. Range(packets) \subseteq Packet
    BY DEF FInv, TypeOK, Range
  <2>2. given' \subseteq Packet
    BY <1>2, <1>8, <2>1 DEF Genuine
  <2>3. rx' \subseteq Frame /\ held' \subseteq Frame
    BY <1>1, <1>2, <1>5, <1>6 DEF FInv, TypeOK
  <2>4. QED
    BY <1>2, <1>4, <2>2, <2>3 DEF FInv, TypeOK
<1>10. RxTidy'
  <2> SUFFICES ASSUME NEW h \in rx' PROVE ~ Done(Siblings(rx', h.seqid))
    BY DEF RxTidy
  <2>1. CASE h \in live /\ Siblings(rx', h.seqid) \subseteq Siblings(rx, h.seqid)
    <3> DEFINE old == Siblings(rx, h.seqid)
    <3>1. ~ Done(old) /\ old \in SUBSET rx
      BY <2>1 DEF FInv, RxTidy, Siblings
    <3>2. IsFiniteSet(old)
      BY <3>1, FS_Subset DEF FInv
    <3> HIDE DEF old
    <3>3. Siblings(rx', h.seqid) \in SUBSET old
      BY <2>1 DEF old
    <3>4. QED
      BY <3>1, <3>2, <3>3, DoneMonotone
  <2>2. CASE duplicate
    BY <1>4, <2>1, <2>2 DEF Siblings
  <2>3. CASE ~ duplicate /\ Base(h.seqid) = Base(f.seqid)
    <3>1. ~ Done(group)
      BY <1>1, <1>4, <1>5, <2>3
    <3>2. Siblings(rx', h.seqid) \in SUBSET group
      BY <1>1, <1>5, <2>3 DEF Siblings
    <3>3. QED
      BY <1>1, <3>1, <3>2, DoneMonotone
  <2>4. CASE ~ duplicate /\ Base(h.seqid) # Base(f.seqid)
    <3>1. h \in live
      BY <1>5, <2>4
    <3>2. Siblings(rx', h.seqid) \subseteq Siblings(rx, h.seqid)
      BY <1>5, <2>4 DEF Siblings
    <3>3. QED
      BY <2>1, <3>1, <3>2
  <2>5. QED
    BY <2>2, <2>3, <2>4
<1>11. GroupBegun' /\ (\A g \in Live : FrameOK(g))' /\ (\A g, h \in Live : Agree(g, h))'
  BY <1>2, <1>5 DEF FInv, GroupBegun, FrameOK, Agree
<1>12. (groupBuffer # <<>> => \A g \in Live : InGroup(g))'
  BY <1>2, <1>5 DEF FInv, InGroup
<1>13. (\A g, h \in rx : g.seqid = h.seqid => g = h)'
  BY <1>1, <1>3, <1>4
<1>14. QED
  BY <1>4, <1>8, <1>9, <1>10, <1>11, <1>12, <1>13 DEF FInv

\* Every step of encoder, path and decoder keeps the invariant.
THEOREM FecStep == FInv /\ [Next]_vars => FInv'
<1> SUFFICES ASSUME FInv, [Next]_vars PROVE FInv'
  OBVIOUS
<1>1. CASE \E len \in Lengths : Encode(len)
  BY <1>1, EncodePreserves
<1>2. CASE \E f \in net, live \in SUBSET rx : Decode(f, live)
  BY <1>2, DecodePreserves
<1>3. CASE UNCHANGED vars
  BY <1>3 DEF vars, FInv, TypeOK, GroupBegun, Live, FrameOK, Agree, InGroup, Genuine, RxTidy
<1>4. QED
  BY <1>1, <1>2, <1>3 DEF Next

\* The invariant holds in every reachable state.
THEOREM FecInvariance == Spec => []FInv
<1>1. QED
  BY FecInit, FecStep, PTL DEF Spec

\* The variables have their types and rx never holds more than RxLimit shards.
THEOREM FecTypes == Spec => []TypeOK
<1>1. FInv => TypeOK
  BY DEF FInv
<1>2. QED
  BY <1>1, FecInvariance, PTL

\* The FEC layer only loses, repeats and reorders: whatever frames the path lost,
\* repeated, delayed or rx evicted, what the decoder surfaces are packets that
\* KCP wrote at the other end.
THEOREM OnlyGenuinePackets == Spec => []Genuine
<1>1. FInv => Genuine
  BY DEF FInv
<1>2. QED
  BY <1>1, FecInvariance, PTL

\* The slot the decoder computes from a seqid is the one the encoder filled,
\* before and after the rollover of the seqids.
THEOREM SlotsAgree == Spec => []GroupsAligned
<1>1. FInv => GroupsAligned
  BY DEF FInv, GroupsAligned, Live, FrameOK
<1>2. QED
  BY <1>1, FecInvariance, PTL

\* No finished group stays in rx.
THEOREM NothingStale == Spec => []RxTidy
<1>1. FInv => RxTidy
  BY DEF FInv
<1>2. QED
  BY <1>1, FecInvariance, PTL

-----------------------------------------------------------------------------
(* Nothing is withheld                                                     *)

\* The group that is being filled, or the next one.
Current == Len(packets) \div DataShards

\* The packets of a code word are those of one group, in order.
Numbered(f) ==
  ~ f.isData => \A i \in 1 .. DataShards : f.word[i].id = DataShards * GroupOf(f) + i

\* The frames of the group that is being filled have the numbers it is using.
Placed(f) ==
  /\ GroupOf(f) <= Current
  /\ GroupOf(f) = Current => groupBuffer # <<>> /\ Base(f.seqid) = Base(nextSeqid)

\* Every group that shards were held of is complete and surfaced, or what was
\* held of it is still in rx.
Settled(f) ==
  /\ GroupOf(f) \in Nat
  /\ \/ GroupOf(f) < Current /\ PacketsOf(GroupOf(f)) \subseteq given
     \/ {h \in held : GroupOf(h) = GroupOf(f)} \subseteq rx

WInv ==
  /\ \A f \in Live : Numbered(f) /\ Placed(f)
  /\ \A f, g \in Live : Base(f.seqid) = Base(g.seqid) <=> GroupOf(f) = GroupOf(g)
  /\ \A f \in rx : f.isData => f.word[1] \in given
  /\ \A f \in held : Settled(f)

\* The packets of the group being filled follow its first number.
LEMMA CurrentIs ==
  ASSUME FInv
  PROVE  LET k == Len(groupBuffer)  n == Len(packets) IN
         /\ Current \in Nat /\ n = DataShards * Current + k
         /\ \A i \in 1 .. k : groupBuffer[i].id = DataShards * Current + i
<1> DEFINE k == Len(groupBuffer)
           n == Len(packets)
<1>1. /\ DataShards \in Nat \ {0} /\ k \in Nat /\ n \in Nat /\ k < DataShards
      /\ k <= n /\ (n - k) % DataShards = 0
  BY FecAssumption DEF FInv, TypeOK, GroupBegun
<1>2. PICK x \in Nat : x = n - k
  BY <1>1
<1>3. PICK m \in Nat : m = x \div DataShards
  BY <1>1, <1>2, QuotientAtLeast, 0 \in Int
<1>4. x = DataShards * m
  <2>1. x = DataShards * m + (x % DataShards) /\ x % DataShards = 0
    BY <1>1, <1>2, <1>3, QuotientAtLeast, 0 \in Int
  <2>2. PICK y \in Nat : y = DataShards * m
    BY <1>1
  <2>3. x = y + 0
    BY <2>1, <2>2
  <2>4. QED
    BY <2>2, <2>3
<1>5. n = DataShards * m + k /\ k \in 0 .. DataShards - 1
  BY <1>1, <1>2, <1>4
<1>6. Current = m
  BY <1>1, <1>5, QuotientIs DEF Current
<1>7. ASSUME NEW i \in 1 .. k PROVE groupBuffer[i].id = DataShards * m + i
  <2>1. groupBuffer[i] = packets[n - k + i] /\ n - k + i \in 1 .. n
    BY <1>1 DEF FInv, GroupBegun
  <2>2. packets[n - k + i].id = n - k + i
    BY <2>1 DEF FInv, GroupBegun
  <2>3. n - k + i = DataShards * m + i
    BY <1>1, <1>2, <1>4
  <2>4. QED
    BY <2>1, <2>2, <2>3
<1>8. QED
  BY <1>5, <1>6, <1>7

\* A packet is known by its number, and a live frame's group by its packets.
LEMMA NumbersOf ==
  ASSUME FInv
  PROVE  /\ \A p, q \in Range(packets) : p.id = q.id => p = q
         /\ \A p \in Range(packets) : p.id \in 1 .. Len(packets)
         /\ \A f \in Live :
              /\ f.word[1] \in Range(packets)
              /\ GroupOf(f) \in Nat
              /\ f.isData => f.word[1].id = DataShards * GroupOf(f) + Slot(f.seqid) + 1
<1>1. packets \in Seq(Packet) /\ DOMAIN packets = 1 .. Len(packets)
      /\ \A i \in 1 .. Len(packets) : packets[i].id = i
  BY DEF FInv, TypeOK, GroupBegun
<1>2. \A p \in Range(packets) : \E i \in 1 .. Len(packets) : p = packets[i]
  BY <1>1 DEF Range
<1>3. \A p \in Range(packets) : p.id \in 1 .. Len(packets) /\ p = packets[p.id]
  BY <1>1, <1>2
<1>4. DataShards \in Nat \ {0}
  BY FecAssumption
<1>5. ASSUME NEW f \in Live
      PROVE  /\ f.word[1] \in Range(packets)
             /\ GroupOf(f) \in Nat
             /\ f.isData => f.word[1].id = DataShards * GroupOf(f) + Slot(f.seqid) + 1
  <2>1. FrameOK(f) /\ f \in Frame
    BY DEF FInv, Live, TypeOK
  <2>2. f.word \in Seq(Packet) /\ Len(f.word) >= 1
    BY <1>4, <2>1 DEF FrameOK, Frame
  <2>3. f.word[1] \in Range(packets)
    BY <2>1, <2>2 DEF FrameOK
  <2>4. PICK x \in Nat : x = f.word[1].id - 1
    BY <1>3, <2>3
  <2>5. x \div DataShards \in Nat /\ x = DataShards * (x \div DataShards) + (x % DataShards)
    BY <1>4, QuotientAtLeast, 0 \in Int
  <2>6. GroupOf(f) = x \div DataShards
    BY <2>4 DEF GroupOf
  <2>7. ASSUME f.isData PROVE f.word[1].id = DataShards * GroupOf(f) + Slot(f.seqid) + 1
    <3>1. Slot(f.seqid) = x % DataShards
      BY <2>1, <2>4, <2>7 DEF FrameOK
    <3>2. f.word[1].id = x + 1
      BY <1>3, <2>3, <2>4
    <3>3. PICK y \in Nat : y = DataShards * (x \div DataShards)
      BY <1>4, <2>5
    <3>4. PICK r \in Nat : r = x % DataShards
      BY <1>4, QuotientAtLeast, 0 \in Int
    <3>5. x = y + r
      BY <2>5, <3>3, <3>4
    <3>6. y = DataShards * GroupOf(f) /\ r = Slot(f.seqid)
      BY <2>6, <3>1, <3>3, <3>4
    <3>7. QED
      BY <3>2, <3>5, <3>6
  <2>8. QED
    BY <2>3, <2>5, <2>6, <2>7
<1>6. QED
  BY <1>3, <1>5

\* The group stays where it is until it is full, and then the next one begins.
LEMMA CurrentAfter ==
  ASSUME FInv, NEW len \in Lengths, Encode(len)
  PROVE  LET k == Len(groupBuffer)  full == k + 1 = DataShards IN
         /\ full => Current' = Current + 1
         /\ ~ full => /\ Current' = Current /\ groupBuffer' # <<>>
                      /\ Base(nextSeqid') = Base(nextSeqid)
<1> DEFINE k == Len(groupBuffer)
           n == Len(packets)
           full == k + 1 = DataShards
<1>1. /\ k \in 0 .. DataShards - 1 /\ Slot(nextSeqid) = k /\ nextSeqid \in 0 .. PawsLimit - 1
      /\ nextSeqid' = SeqidAfter(nextSeqid, full)
      /\ Len(packets') = n + 1
      /\ ~ full => Len(groupBuffer') = k + 1
  <2>1. packets \in Seq(Packet) /\ groupBuffer \in Seq(Packet)
    BY DEF FInv, TypeOK
  <2>2. /\ k \in 0 .. DataShards - 1 /\ Slot(nextSeqid) = k /\ nextSeqid \in 0 .. PawsLimit - 1
        /\ nextSeqid' = SeqidAfter(nextSeqid, full)
    BY EncodeFacts
  <2>3. PICK p \in Packet : /\ packets' = Append(packets, p)
                            /\ groupBuffer' = IF full THEN <<>> ELSE Append(groupBuffer, p)
    BY EncodeFacts
  <2>4. QED
    BY <2>1, <2>2, <2>3
<1>2. DataShards \in Nat \ {0} /\ ParityShards \in Nat \ {0} /\ PawsLimit \in Nat \ {0}
  BY FecAssumption
<1>3. PICK m \in Nat : m = Current /\ n = DataShards * m + k
  BY CurrentIs
<1>4. Current' = Len(packets') \div DataShards
  BY DEF Current
<1>5. ASSUME full PROVE Current' = m + 1
  <2>1. n + 1 = DataShards * (m + 1) + 0 /\ m + 1 \in Nat /\ 0 \in 0 .. DataShards - 1
    BY <1>1, <1>2, <1>3, <1>5
  <2>2. (DataShards * (m + 1) + 0) \div DataShards = m + 1
    BY <1>2, <2>1, QuotientIs
  <2>3. QED
    BY <1>1, <1>4, <2>1, <2>2
<1>6. ASSUME ~ full
      PROVE  Current' = m /\ groupBuffer' # <<>> /\ Base(nextSeqid') = Base(nextSeqid)
  <2>1. n + 1 = DataShards * m + (k + 1) /\ k + 1 \in 0 .. DataShards - 1
    BY <1>1, <1>2, <1>3, <1>6
  <2>2. (DataShards * m + (k + 1)) \div DataShards = m
    BY <1>2, <2>1, QuotientIs
  <2>3. groupBuffer' # <<>>
    BY <1>1, <1>6
  <2>4. nextSeqid + 1 < PawsLimit
    <3>1. Slot(nextSeqid) # Total - 1
      BY <1>1, <1>2, <2>1 DEF Total
    <3>2. QED
      BY <1>1, <1>2, <3>1, RolloverBetweenGroups
  <2>5. nextSeqid' = nextSeqid + 1
    BY <1>1, <1>2, <1>6, <2>4 DEF SeqidAfter
  <2>6. Base(nextSeqid') = Base(nextSeqid)
    BY <1>1, <1>2, <2>1, <2>5, NewSlots
  <2>7. QED
    BY <1>1, <1>4, <2>1, <2>2, <2>3, <2>6
<1>7. QED
  BY <1>3, <1>5, <1>6

\* Encoding keeps what was surfaced and held in order: new frames belong to the
\* current group alone.
LEMMA EncodeKeepsHeld ==
  ASSUME FInv, WInv, NEW len \in Lengths, Encode(len)
  PROVE  WInv'
<1> DEFINE k == Len(groupBuffer)
           n == Len(packets)
           p == [id |-> n + 1, len |-> len]
           group == Append(groupBuffer, p)
           full == k + 1 = DataShards
           d == DataFrame(nextSeqid, p)
           parity == ParityFrames(nextSeqid + 1, group)
<1>1. /\ p \in Packet /\ group \in Seq(Packet) /\ Len(group) = k + 1
      /\ group[k + 1] = p /\ \A i \in 1 .. k : group[i] = groupBuffer[i]
      /\ packets' = Append(packets, p)
      /\ groupBuffer' = IF full THEN <<>> ELSE group
      /\ net' \subseteq net \cup {d} \cup (IF full THEN parity ELSE {})
      /\ UNCHANGED <<rx, given, held>>
      /\ k \in 0 .. DataShards - 1 /\ Slot(nextSeqid) = k /\ nextSeqid \in 0 .. PawsLimit - 1
      /\ \A f \in Live : Base(f.seqid) = Base(nextSeqid) =>
           f.isData /\ Slot(f.seqid) < k /\ f.word[1] = groupBuffer[Slot(f.seqid) + 1]
  BY EncodeFacts
<1>2. /\ DataShards \in Nat \ {0} /\ ParityShards \in Nat \ {0} /\ PawsLimit \in Nat \ {0}
      /\ packets \in Seq(Packet) /\ k \in Nat /\ n \in Nat
  BY FecAssumption DEF FInv, TypeOK
<1>3. PICK m \in Nat : /\ m = Current /\ n = DataShards * m + k
                       /\ \A i \in 1 .. k : groupBuffer[i].id = DataShards * m + i
  BY CurrentIs
<1>4. /\ full => Current' = m + 1
      /\ ~ full => /\ Current' = m /\ groupBuffer' # <<>>
                   /\ Base(nextSeqid') = Base(nextSeqid)
  BY <1>3, CurrentAfter
<1>5. p.id = n + 1
  OBVIOUS
<1>6. d.seqid = nextSeqid /\ d.isData /\ d.word[1] = p
  BY DEF DataFrame
<1>7. ASSUME full, NEW f \in parity
      PROVE  ~ f.isData /\ f.word = group /\ Base(f.seqid) = Base(nextSeqid)
  <2> DEFINE lengths == {group[i].len : i \in DOMAIN group}
  <2>1. PICK s \in nextSeqid + 1 .. nextSeqid + 1 + ParityShards - 1 :
          f = [seqid |-> s, isData |-> FALSE, word |-> group, len |-> Longest(lengths)]
    BY <1>7 DEF ParityFrames
  <2>2. /\ s \in nextSeqid + 1 .. nextSeqid + ParityShards /\ nextSeqid \in Nat
        /\ Slot(nextSeqid) < DataShards /\ Slot(nextSeqid) + 1 = DataShards
    BY <1>1, <1>2, <1>7
  <2> HIDE DEF k, n, group, p, lengths
  <2>3. Base(s) = Base(nextSeqid)
    BY <2>2, NewSlots
  <2> HIDE DEF lengths, group
  <2>4. QED
    BY <2>1, <2>3
<1>8. Live' \subseteq Live \cup {d} \cup (IF full THEN parity ELSE {})
  BY <1>1 DEF Live
<1> HIDE DEF p, group, d, parity
<1>9. \A i \in 1 .. k + 1 : group[i].id = DataShards * m + i
  <2>1. group[k + 1].id = DataShards * m + (k + 1)
    BY <1>1, <1>2, <1>3, <1>5
  <2>2. \A i \in 1 .. k : group[i].id = DataShards * m + i
    BY <1>1, <1>3
  <2>3. QED
    BY <1>2, <2>1, <2>2
<1>10. \A r \in 0 .. DataShards - 1 : (DataShards * m + r) \div DataShards = m
  BY <1>2, QuotientIs
<1>11. GroupOf(d) = m /\ (p.id - 1) \div DataShards = m
  <2>1. p.id - 1 = DataShards * m + k
    BY <1>2, <1>3, <1>5
  <2>2. (p.id - 1) \div DataShards = m
    BY <1>1, <1>10, <2>1
  <2>3. QED
    BY <1>6, <2>2 DEF GroupOf
<1>12. ASSUME full, NEW f \in parity PROVE GroupOf(f) = m
  <2>1. group[1].id = DataShards * m + 1 /\ 1 \in 1 .. k + 1
    BY <1>2, <1>9
  <2>2. f.word[1].id - 1 = DataShards * m + 0
    BY <1>2, <1>7, <1>12, <2>1
  <2>3. QED
    BY <1>2, <1>10, <2>2 DEF GroupOf
<1>13. ASSUME NEW f \in Live
       PROVE  Base(f.seqid) = Base(nextSeqid) <=> GroupOf(f) = m
  <2>1. ASSUME Base(f.seqid) = Base(nextSeqid) PROVE GroupOf(f) = m
    <3>1. Slot(f.seqid) < k /\ f.word[1] = groupBuffer[Slot(f.seqid) + 1]
      BY <1>1, <2>1
    <3>2. f.seqid \in Nat
      BY DEF Live, FInv, TypeOK, Frame
    <3>3. Slot(f.seqid) \in Nat
      BY <3>2, SlotOfNext, 0 \in Nat
    <3>4. PICK j \in 0 .. k - 1 : j = Slot(f.seqid)
      BY <1>2, <3>1, <3>3
    <3>5. f.word[1].id = DataShards * m + (j + 1)
      <4>1. j + 1 \in 1 .. k /\ f.word[1] = groupBuffer[j + 1]
        BY <1>2, <3>1, <3>4
      <4>2. PICK i \in 1 .. k : i = j + 1
        BY <4>1
      <4>3. groupBuffer[i].id = DataShards * m + i
        BY <1>3
      <4>4. QED
        BY <4>1, <4>2, <4>3
    <3>6. f.word[1].id - 1 = DataShards * m + j /\ j \in 0 .. DataShards - 1
      BY <1>1, <1>2, <3>4, <3>5
    <3>7. QED
      BY <1>10, <3>6 DEF GroupOf
  <2>2. ASSUME GroupOf(f) = m PROVE Base(f.seqid) = Base(nextSeqid)
    BY <1>3, <2>2 DEF WInv, Placed
  <2>3. QED
    BY <2>1, <2>2
<1>14. ASSUME NEW f \in Live' PROVE Numbered(f)'
  <2>1. CASE f \in Live
    BY <2>1 DEF WInv, Numbered, GroupOf
  <2>2. CASE f = d
    BY <1>6, <2>2 DEF Numbered
  <2>3. CASE full /\ f \in parity
    <3>1. f.word = group /\ GroupOf(f) = m /\ k + 1 = DataShards
      BY <1>7, <1>12, <2>3
    <3>2. QED
      BY <1>9, <3>1 DEF Numbered, GroupOf
  <2>4. QED
    BY <1>8, <2>1, <2>2, <2>3
<1>15. ASSUME NEW f \in Live' PROVE Placed(f)'
  <2>1. CASE f \in Live
    <3>1. GroupOf(f) <= m /\ GroupOf(f) \in Nat
      BY <1>3, <2>1, NumbersOf DEF WInv, Placed
    <3>2. CASE full
      BY <1>4, <3>1, <3>2 DEF Placed, GroupOf
    <3>3. CASE ~ full
      BY <1>4, <1>13, <2>1, <3>1, <3>3 DEF Placed, GroupOf
    <3>4. QED
      BY <3>2, <3>3
  <2>2. CASE f = d
    <3>1. GroupOf(f) = m /\ Base(f.seqid) = Base(nextSeqid)
      BY <1>6, <1>11, <2>2
    <3>2. QED
      BY <1>4, <3>1 DEF Placed, GroupOf
  <2>3. CASE full /\ f \in parity
    <3>1. GroupOf(f) = m
      BY <1>12, <2>3
    <3>2. QED
      BY <1>4, <2>3, <3>1 DEF Placed, GroupOf
  <2>4. QED
    BY <1>8, <2>1, <2>2, <2>3
<1>16. ASSUME NEW f \in Live', NEW g \in Live'
       PROVE  Base(f.seqid) = Base(g.seqid) <=> GroupOf(f) = GroupOf(g)
  <2>1. \A h \in Live' : h \in Live \/ (Base(h.seqid) = Base(nextSeqid) /\ GroupOf(h) = m)
    BY <1>6, <1>7, <1>8, <1>11, <1>12
  <2>2. CASE f \in Live /\ g \in Live
    BY <2>2 DEF WInv
  <2>3. QED
    BY <1>13, <2>1, <2>2
<1>17. ASSUME NEW f \in held PROVE Settled(f)'
  <2>1. GroupOf(f) \in Nat /\ ((GroupOf(f) < m /\ PacketsOf(GroupOf(f)) \subseteq given)
                               \/ {h \in held : GroupOf(h) = GroupOf(f)} \subseteq rx)
    BY <1>3 DEF WInv, Settled
  <2>2. CASE GroupOf(f) < m /\ PacketsOf(GroupOf(f)) \subseteq given
    <3>1. GroupOf(f) < Current'
      BY <1>4, <2>1, <2>2
    <3>2. Range(packets') = Range(packets) \cup {p}
      <4>1. DOMAIN packets' = 1 .. n + 1 /\ DOMAIN packets = 1 .. n
            /\ packets'[n + 1] = p /\ \A i \in 1 .. n : packets'[i] = packets[i]
        BY <1>1, <1>2
      <4>2. QED
        BY <1>2, <4>1 DEF Range
    <3>3. PacketsOf(GroupOf(f))' \subseteq PacketsOf(GroupOf(f))
      BY <1>11, <2>1, <2>2, <3>2 DEF PacketsOf, GroupOf
    <3>4. QED
      BY <1>1, <2>1, <2>2, <3>1, <3>3 DEF Settled, GroupOf
  <2>3. CASE {h \in held : GroupOf(h) = GroupOf(f)} \subseteq rx
    BY <1>1, <2>1, <2>3 DEF Settled, GroupOf
  <2>4. QED
    BY <2>1, <2>2, <2>3
<1>18. \A f \in rx' : f.isData => f.word[1] \in given'
  BY <1>1 DEF WInv
<1>19. QED
  BY <1>1, <1>14, <1>15, <1>16, <1>17, <1>18 DEF WInv, GroupOf

\* When a group is done its packets are all among those surfaced with its data
\* shards or recovered from them, and the group is no longer the current one.
LEMMA DoneSurfaced ==
  ASSUME FInv, WInv, NEW S, S \subseteq Live, IsFiniteSet(S), NEW f \in S,
         \A g \in S : Base(g.seqid) = Base(f.seqid),
         \A g, h \in S : g.seqid = h.seqid => g = h,
         Done(S), NEW G, Recovered(S) \subseteq G, \A g \in S : g.isData => g.word[1] \in G
  PROVE  GroupOf(f) < Current /\ PacketsOf(GroupOf(f)) \subseteq G
<1> DEFINE q == GroupOf(f)
<1>1. /\ S \subseteq Frame /\ DataShards \in Nat \ {0} /\ Cardinality(S) \in Nat
      /\ \A g \in S : FrameOK(g) /\ \A h \in S : Agree(g, h)
      /\ Cardinality(S) >= DataShards
  <2>1. S \subseteq Frame
    BY DEF FInv, TypeOK, Live
  <2>2. QED
    BY <2>1, DoneIs, FecAssumption DEF FInv
<1>2. q \in Nat /\ q <= Current /\ Current \in Nat
  BY NumbersOf, CurrentIs DEF WInv, Placed
<1>3. q < Current
  <2>1. ASSUME q = Current PROVE FALSE
    <3>1. groupBuffer # <<>> /\ Base(f.seqid) = Base(nextSeqid)
      BY <2>1 DEF WInv, Placed
    <3>2. PICK k \in Nat : k = Len(groupBuffer) /\ k < DataShards
      BY DEF FInv, TypeOK
    <3>3. \A g \in S : Base(g.seqid) = Base(f.seqid) /\ Slot(g.seqid) < k
      BY <3>1, <3>2 DEF FInv, InGroup
    <3>4. Cardinality(S) <= k
      BY <1>1, <3>3, SlotsFit
    <3>5. QED
      BY <1>1, <3>2, <3>4
  <2>2. QED
    BY <1>2, <2>1
<1>4. ASSUME NEW g \in S PROVE GroupOf(g) = q
  BY DEF WInv
<1>5. ASSUME NEW p \in PacketsOf(q) PROVE p \in G
  <2>1. p \in Range(packets) /\ p.id \in 1 .. Len(packets) /\ (p.id - 1) \div DataShards = q
    BY NumbersOf DEF PacketsOf
  <2>2. PICK x \in Nat : x = p.id - 1
    BY <2>1
  <2>3. PICK j \in 0 .. DataShards - 1 : x = DataShards * q + j
    <3>1. x % DataShards \in 0 .. DataShards - 1
          /\ x = DataShards * (x \div DataShards) + (x % DataShards)
      BY <1>1, QuotientAtLeast, 0 \in Int
    <3>2. QED
      BY <2>1, <2>2, <3>1
  <2>4. PICK y \in Nat : y = DataShards * q
    BY <1>1, <1>2
  <2>5. p.id = y + j + 1
    BY <2>1, <2>2, <2>3, <2>4
  <2>6. CASE \E g \in DataOf(S) : Slot(g.seqid) = j
    <3>1. PICK g \in S : g.isData /\ Slot(g.seqid) = j
      BY <2>6 DEF DataOf
    <3>2. g.word[1] \in Range(packets) /\ g.word[1].id = DataShards * q + j + 1
      BY <1>4, <3>1, NumbersOf
    <3>3. g.word[1] = p
      BY <2>1, <2>4, <2>5, <3>2, NumbersOf
    <3>4. QED
      BY <3>1, <3>3
  <2>7. CASE ~ \E g \in DataOf(S) : Slot(g.seqid) = j
    <3>1. Cardinality(DataOf(S)) # DataShards
      BY <1>1, <2>7, DataFits
    <3>2. Enough(S)
      BY <3>1 DEF Done
    <3>3. PICK parity \in S : /\ ~ parity.isData
                              /\ Reconstructed(S, j) = parity.word[j + 1]
                              /\ parity.word[j + 1] \in Range(packets)
      BY <1>1, <3>1, <3>2, ReconstructedIs
    <3>4. parity.word[j + 1].id = DataShards * q + (j + 1)
      <4>1. j + 1 \in 1 .. DataShards
        BY <1>1
      <4>2. PICK i \in 1 .. DataShards : i = j + 1
        BY <4>1
      <4>3. parity.word[i].id = DataShards * q + i
        BY <1>4, <3>3 DEF WInv, Numbered
      <4>4. QED
        BY <4>2, <4>3
    <3>5. parity.word[j + 1] = p
      BY <2>1, <2>4, <2>5, <3>3, <3>4, NumbersOf
    <3>6. Reconstructed(S, j) \in Recovered(S)
      BY <2>7, <3>1, <3>2 DEF Recovered
    <3>7. QED
      BY <3>3, <3>5, <3>6
  <2>8. QED
    BY <2>6, <2>7
<1>6. QED
  BY <1>3, <1>5

\* A frame arriving keeps what was surfaced and held in order: a group leaves rx
\* for being done, which surfaces its packets, or by expiry and eviction, which
\* held follows.
LEMMA DecodeKeepsHeld ==
  ASSUME FInv, WInv, NEW f \in net, NEW live \in SUBSET rx, Decode(f, live)
  PROVE  WInv'
<1> DEFINE duplicate == \E g \in live : g.seqid = f.seqid
           all == live \cup {f}
           group == Siblings(all, f.seqid)
           left == IF Done(group) THEN all \ group ELSE all
           surfaced == IF f.isData THEN {f.word[1]} ELSE {}
           old == held \ (rx \ live)
           like(q) == {h \in held : GroupOf(h) = q}
<1>1. /\ all \subseteq Live /\ IsFiniteSet(all)
      /\ ~ duplicate => \A g, h \in all : g.seqid = h.seqid => g = h
      /\ group \subseteq all /\ IsFiniteSet(group) /\ f \in group
      /\ \A g \in all : g \in group <=> Base(g.seqid) = Base(f.seqid)
  BY DecodeFacts
<1>2. /\ duplicate => /\ rx' = live /\ given' = given \cup surfaced /\ held' = old
      /\ ~ duplicate => /\ rx' = Bounded(left)
                        /\ given' = given \cup surfaced \cup Recovered(group)
                        /\ held' = (old \cup {f}) \ (left \ rx')
      /\ UNCHANGED <<nextSeqid, groupBuffer, packets, net>>
  BY DEF Decode
<1> HIDE DEF group, duplicate, surfaced
<1>3. left \subseteq all /\ (~ duplicate => rx' \subseteq left) /\ rx' \subseteq all
  <2>1. left \subseteq all
    OBVIOUS
  <2>2. Bounded(left) \subseteq left
    BY DEF Bounded
  <2>3. QED
    BY <1>2, <2>1, <2>2
<1>4. Live' \subseteq Live /\ Current' = Current
  BY <1>1, <1>2, <1>3 DEF Live, Current
<1>5. given \subseteq given' /\ surfaced \subseteq given'
      /\ (~ duplicate => Recovered(group) \subseteq given')
  BY <1>2
<1>6. \A g \in all : g.isData => g.word[1] \in given'
  BY <1>5 DEF WInv, surfaced
<1>7. ASSUME NEW q \in Nat, q < Current, PacketsOf(q) \subseteq given, NEW h \in held', GroupOf(h) = q
      PROVE  Settled(h)'
  BY <1>2, <1>4, <1>5, <1>7 DEF Settled, PacketsOf, GroupOf
<1>8. ASSUME NEW h \in held', GroupOf(h) \in Nat,
             {g \in held' : GroupOf(g) = GroupOf(h)} \subseteq rx'
      PROVE  Settled(h)'
  BY <1>8 DEF Settled, GroupOf
<1>9. ASSUME NEW h \in old
      PROVE  /\ GroupOf(h) \in Nat
             /\ \/ GroupOf(h) < Current /\ PacketsOf(GroupOf(h)) \subseteq given
                \/ {g \in old : GroupOf(g) = GroupOf(h)} \subseteq live
  BY DEF WInv, Settled
<1>10. ASSUME NEW h \in held' PROVE Settled(h)'
  <2>1. CASE h \in old /\ GroupOf(h) < Current /\ PacketsOf(GroupOf(h)) \subseteq given
    BY <1>7, <1>9, <2>1
  <2>2. CASE duplicate
    <3>1. h \in old /\ held' = old /\ rx' = live
      BY <1>2, <2>2
    <3>2. QED
      BY <1>8, <1>9, <2>1, <3>1
  <2>3. CASE ~ duplicate /\ GroupOf(h) # GroupOf(f)
    <3>1. h \in old /\ held' = (old \cup {f}) \ (left \ rx')
      BY <1>2, <2>3
    <3>2. CASE {g \in old : GroupOf(g) = GroupOf(h)} \subseteq live
      <4>1. ASSUME NEW g \in live, GroupOf(g) = GroupOf(h) PROVE g \in left
        <5>1. g \in all /\ g \in Live /\ f \in Live /\ Base(g.seqid) # Base(f.seqid)
          BY <1>1, <2>3, <4>1 DEF WInv
        <5>2. g \notin group
          BY <1>1, <5>1
        <5>3. QED
          BY <5>1, <5>2
      <4>2. {g \in held' : GroupOf(g) = GroupOf(h)} \subseteq rx'
        BY <2>3, <3>1, <3>2, <4>1
      <4>3. QED
        BY <1>8, <1>9, <3>1, <4>2
    <3>3. QED
      BY <1>9, <2>1, <3>1, <3>2
  <2>4. CASE ~ duplicate /\ GroupOf(h) = GroupOf(f)
    <3>1. held' = (old \cup {f}) \ (left \ rx') /\ GroupOf(f) \in Nat /\ f \in Live
      BY <1>1, <1>2, <2>4, NumbersOf
    <3>2. CASE Done(group)
      <4>1. GroupOf(f) < Current /\ PacketsOf(GroupOf(f)) \subseteq given'
        <5>1. /\ group \subseteq Live /\ \A g \in group : Base(g.seqid) = Base(f.seqid)
              /\ \A g, h1 \in group : g.seqid = h1.seqid => g = h1
              /\ \A g \in group : g.isData => g.word[1] \in given'
          BY <1>1, <1>6, <2>4
        <5>2. Recovered(group) \subseteq given'
          BY <1>5, <2>4
        <5>3. QED
          BY <1>1, <3>2, <5>1, <5>2, DoneSurfaced
      <4>2. QED
        BY <1>2, <1>4, <2>4, <3>1, <4>1 DEF Settled, PacketsOf, GroupOf
    <3>3. CASE \E g \in old : GroupOf(g) = GroupOf(f)
                              /\ GroupOf(g) < Current /\ PacketsOf(GroupOf(g)) \subseteq given
      BY <1>7, <2>4, <3>1, <3>3
    <3>4. CASE /\ ~ Done(group)
               /\ ~ \E g \in old : GroupOf(g) = GroupOf(f)
                                   /\ GroupOf(g) < Current /\ PacketsOf(GroupOf(g)) \subseteq given
      <4>1. left = all
        BY <3>4
      <4>2. \A g \in old : GroupOf(g) = GroupOf(f) => g \in live
        BY <1>9, <3>4
      <4>3. {g \in held' : GroupOf(g) = GroupOf(h)} \subseteq rx'
        BY <2>4, <3>1, <4>1, <4>2
      <4>4. QED
        BY <1>8, <2>4, <3>1, <4>3
    <3>5. QED
      BY <3>2, <3>3, <3>4
  <2>5. QED
    BY <2>2, <2>3, <2>4
<1>11. \A g \in Live' : Numbered(g)' /\ Placed(g)'
  BY <1>2, <1>4 DEF WInv, Numbered, Placed, GroupOf
<1>12. \A g, h \in Live' : Base(g.seqid) = Base(h.seqid) <=> GroupOf(g) = GroupOf(h)
  BY <1>4 DEF WInv
<1>13. \A g \in rx' : g.isData => g.word[1] \in given'
  BY <1>3, <1>6
<1>14. QED
  BY <1>10, <1>11, <1>12, <1>13 DEF WInv, GroupOf

\* Both invariants hold in every reachable state.
LEMMA HeldInvariance == Spec => [](FInv /\ WInv)
<1>1. Init => WInv
  <2> SUFFICES ASSUME Init PROVE WInv
    OBVIOUS
  <2>1. Live = {} /\ rx = {} /\ held = {}
    BY DEF Init, Live
  <2>2. QED
    BY <2>1 DEF WInv
<1>2. FInv /\ WInv /\ [Next]_vars => WInv'
  <2> SUFFICES ASSUME FInv, WInv, [Next]_vars PROVE WInv'
    OBVIOUS
  <2>1. CASE \E len \in Lengths : Encode(len)
    BY <2>1, EncodeKeepsHeld
  <2>2. CASE \E f \in net, live \in SUBSET rx : Decode(f, live)
    BY <2>2, DecodeKeepsHeld
  <2>3. CASE UNCHANGED vars
    BY <2>3 DEF vars, WInv, Live, Numbered, Placed, Settled, Current, PacketsOf, GroupOf
  <2>4. QED
    BY <2>1, <2>2, <2>3 DEF Next
<1>3. QED
  BY <1>1, <1>2, FecInit, FecStep, PTL DEF Spec

\* Any DataShards shards of a group are enough: once as many were held together,
\* each packet of the group has been surfaced.
THEOREM EnoughSuffices == Spec => []NothingWithheld
<1>1. ASSUME FInv, WInv, NEW f \in held,
             Cardinality({h \in held : GroupOf(h) = GroupOf(f)}) >= DataShards
      PROVE  PacketsOf(GroupOf(f)) \subseteq given
  <2> DEFINE like == {h \in held : GroupOf(h) = GroupOf(f)}
             kept == Siblings(rx, f.seqid)
  <2>1. CASE like \subseteq rx
    <3>1. f \in rx /\ kept \in SUBSET rx /\ ~ Done(kept)
      BY <1>1, <2>1 DEF FInv, RxTidy, Siblings
    <3>2. IsFiniteSet(kept)
      BY <1>1, <3>1, FS_Subset DEF FInv
    <3>3. like \subseteq kept
      BY <1>1, <2>1, <3>1 DEF WInv, Siblings, Live
    <3> HIDE DEF like, kept
    <3>4. ~ Done(like) /\ IsFiniteSet(like)
      BY <3>1, <3>2, <3>3, DoneMonotone, FS_Subset
    <3>5. ~ (Cardinality(like) >= DataShards)
      BY <3>4, DoneIs
    <3>6. QED
      BY <1>1, <3>5 DEF like
  <2>2. QED
    BY <1>1, <2>1 DEF WInv, Settled
<1>2. FInv /\ WInv => NothingWithheld
  BY <1>1 DEF NothingWithheld
<1>3. QED
  BY <1>2, HeldInvariance, PTL

=============================================================================

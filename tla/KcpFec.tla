------------------------------ MODULE KcpFec ------------------------------
(***************************************************************************)
(* The forward error correction layer of a KcpSession                      *)
(* (Sources/Shanghai/KcpFEC.swift): the encoder of one endpoint, the path, *)
(* and the decoder of the other.                                           *)
(*                                                                         *)
(* A packet is its number and its length.  Reed-Solomon is modelled by     *)
(* what it does: a parity shard is the code word of its group, and         *)
(* reconstruction gives back the packets of the word if every shard        *)
(* belongs to it and was padded to its length, and garbage otherwise.      *)
(* Time is abstracted: any entries of rx may have expired when a frame     *)
(* arrives.  The code keeps rx in the order of seqid; here it is a set.    *)
(***************************************************************************)
EXTENDS Integers, Sequences, FiniteSets, FiniteSetsExt, Functions

CONSTANTS
  DataShards, ParityShards,   \* the shape of a group
  RxLimit,                    \* most shards the decoder holds (2048)
  PawsLimit,                  \* seqid starts again from 0 here
  Lengths,                    \* lengths of the packets KCP writes
  MaxPackets,                 \* bound: packets written
  MaxFlight                   \* bound: frames the path holds

Total == DataShards + ParityShards

ASSUME FecAssumption ==
  /\ {DataShards, ParityShards, RxLimit, PawsLimit} \subseteq Nat \ {0}
  /\ PawsLimit % Total = 0
  /\ Lengths \subseteq Nat
  /\ {MaxPackets, MaxFlight} \subseteq Nat

VARIABLES
  nextSeqid,     \* KcpFECEncoder.nextSeqid
  groupBuffer,   \* KcpFECEncoder.groupBuffer: packets of the running group
  packets,       \* history: the packets encoded
  net,           \* frames on their way
  rx,            \* KcpFECDecoder.rx
  given,         \* history: what the decoder surfaced
  held           \* history: the frames that arrived and were not evicted

vars == <<nextSeqid, groupBuffer, packets, net, rx, given, held>>

Packet == [id : Nat, len : Nat]
Frame == [seqid : Nat, isData : BOOLEAN, word : Seq(Packet), len : Nat]
Garbage == [id |-> 0, len |-> 0]

Init ==
  /\ nextSeqid = 0
  /\ groupBuffer = <<>>
  /\ packets = <<>>
  /\ net = {}
  /\ rx = {}
  /\ given = {}
  /\ held = {}

-----------------------------------------------------------------------------
(* KcpFECEncoder                                                           *)

Longest(lengths) == Max(lengths \cup {0})
Slot(seqid) == seqid % Total
Base(seqid) == seqid - Slot(seqid)

DataFrame(seqid, p) == [seqid |-> seqid, isData |-> TRUE, word |-> <<p>>, len |-> p.len]

\* Mistake: the parity frames take no sequence numbers.
SeqidAfterNoParity(seqid, full) == IF seqid + 1 >= PawsLimit THEN 0 ELSE seqid + 1

\* The next seqid, after the parity frames if there are any; back to 0 at the
\* rollover guard.
SeqidAfter(seqid, full) ==
  LET next == seqid + 1 + IF full THEN ParityShards ELSE 0
  IN IF next >= PawsLimit THEN 0 ELSE next

\* Every parity shard has the length of the longest data shard.
ParityFrames(seqid, group) ==
  {[seqid |-> s, isData |-> FALSE, word |-> group,
    len |-> Longest({group[i].len : i \in DOMAIN group})] :
      s \in seqid .. seqid + ParityShards - 1}

\* The path loses any frames, old ones too; those that stay may arrive in any
\* order and again.
Transmit(out) ==
  \E kept \in SUBSET (net \cup out) : Cardinality(kept) <= MaxFlight /\ net' = kept

\* Bound: the numbers of a group are used again only when its old frames are
\* gone, from the path and from rx; a rollover takes 2^32 frames and rx expires
\* after 30 seconds.
Fresh(base) ==
  \A f \in net \cup rx : Base(f.seqid) # base

Encode(len) ==
  LET p == [id |-> Len(packets) + 1, len |-> len]
      group == Append(groupBuffer, p)
      full == Len(group) = DataShards
      parity == IF full THEN ParityFrames(nextSeqid + 1, group) ELSE {}
  IN
  /\ Len(packets) < MaxPackets
  /\ groupBuffer = <<>> => Fresh(nextSeqid)
  /\ packets' = Append(packets, p)
  /\ groupBuffer' = IF full THEN <<>> ELSE group
  /\ nextSeqid' = SeqidAfter(nextSeqid, full)
  /\ Transmit({DataFrame(nextSeqid, p)} \cup parity)
  /\ UNCHANGED <<rx, given, held>>

-----------------------------------------------------------------------------
(* KcpFECDecoder                                                           *)

\* The shards of the group of seqid.
Siblings(shards, seqid) == {f \in shards : Base(f.seqid) = Base(seqid)}
DataOf(group) == {f \in group : f.isData}

\* Mistake: the length of the data shards that arrived.
PaddedToData(group) == Longest({f.len : f \in DataOf(group)})

\* What all shards of a group are padded to.
PaddedTo(group) == Longest({f.len : f \in group})

\* KcpReedSolomon.reconstruct: the packet of data slot i.
Reconstructed(group, i) ==
  LET parity == CHOOSE f \in group : ~ f.isData
      word == parity.word
      consistent ==
        /\ PaddedTo(group) = parity.len
        /\ \A f \in group : IF f.isData THEN f.word = <<word[Slot(f.seqid) + 1]>>
                                        ELSE f.word = word
  IN IF consistent THEN word[i + 1] ELSE Garbage

\* Mistake: one shard too many is waited for.
EnoughLate(group) == Cardinality(group) > DataShards
Enough(group) == Cardinality(group) >= DataShards

\* Mistake: a group whose data all arrived stays.
DoneOnlyRecovered(group) == Cardinality(DataOf(group)) # DataShards /\ Enough(group)

\* tryReconstruct is finished with a group, and drops its entries, when all its
\* data arrived or there are enough siblings to reconstruct it.
Done(group) == Cardinality(DataOf(group)) = DataShards \/ Enough(group)

\* tryReconstruct: the packets of the data slots that no data shard fills.
Recovered(group) ==
  IF Cardinality(DataOf(group)) # DataShards /\ Enough(group)
  THEN {Reconstructed(group, i) :
          i \in (0 .. DataShards - 1) \ {Slot(f.seqid) : f \in DataOf(group)}}
  ELSE {}

\* Mistake: rx is not bounded.
Unbounded(shards) == shards

\* Beyond rxLimit the shards with the lowest seqid are dropped.
Bounded(shards) ==
  {f \in shards : Cardinality({g \in shards : g.seqid > f.seqid}) < RxLimit}

\* A data frame is surfaced at once, and every frame is kept to reconstruct its
\* group unless its seqid is there already; what is not live has expired.
Decode(f, live) ==
  LET duplicate == \E g \in live : g.seqid = f.seqid
      group == Siblings(live \cup {f}, f.seqid)
      left == IF Done(group) THEN (live \cup {f}) \ group ELSE live \cup {f}
      surfaced == IF f.isData THEN {f.word[1]} ELSE {}
  IN
  /\ IF duplicate
     THEN /\ rx' = live
          /\ given' = given \cup surfaced
          /\ held' = held \ (rx \ live)
     ELSE /\ rx' = Bounded(left)
          /\ given' = given \cup surfaced \cup Recovered(group)
          /\ held' = ((held \ (rx \ live)) \cup {f}) \ (left \ rx')
  /\ UNCHANGED <<nextSeqid, groupBuffer, packets, net>>

Next ==
  \/ \E len \in Lengths : Encode(len)
  \/ \E f \in net, live \in SUBSET rx : Decode(f, live)

Spec == Init /\ [][Next]_vars

-----------------------------------------------------------------------------
(* Properties                                                              *)

\* The variables have their types, and rx never holds more than rxLimit shards.
TypeOK ==
  /\ nextSeqid \in 0 .. PawsLimit - 1
  /\ groupBuffer \in Seq(Packet) /\ Len(groupBuffer) < DataShards
  /\ packets \in Seq(Packet)
  /\ net \subseteq Frame
  /\ rx \subseteq Frame /\ Cardinality(rx) <= RxLimit
  /\ given \subseteq Packet
  /\ held \subseteq Frame

\* Everything surfaced is a packet the encoder was given: no reconstruction uses
\* shards of two groups or pads to a wrong length, whatever frames were lost,
\* repeated, evicted or late.  ikcp_input may then take the FEC layer for a path
\* that loses, repeats and reorders.
Genuine == given \subseteq Range(packets)

\* The group a shard was encoded in, whatever its number.
GroupOf(f) == (f.word[1].id - 1) \div DataShards
PacketsOf(g) == {p \in Range(packets) : (p.id - 1) \div DataShards = g}

\* Any DataShards shards of a group are enough: once as many were held together,
\* all the packets of the group have been surfaced.
NothingWithheld ==
  \A g \in {GroupOf(f) : f \in held} :
    Cardinality({f \in held : GroupOf(f) = g}) >= DataShards => PacketsOf(g) \subseteq given

\* Encoder and decoder agree on where a group begins: the slot that the decoder
\* computes from a seqid is the slot the encoder filled, before and after the
\* rollover.
GroupsAligned ==
  \A f \in net :
    IF f.isData THEN Slot(f.seqid) = (f.word[1].id - 1) % DataShards
                ELSE Slot(f.seqid) >= DataShards

\* No group that is finished stays in rx, where it would take the place of live
\* ones until it expires.
RxTidy == \A f \in rx : ~ Done(Siblings(rx, f.seqid))

=============================================================================

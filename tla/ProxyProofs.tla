----------------------------- MODULE ProxyProofs -----------------------------
(***************************************************************************)
(* Proofs about a client of the proxy, for any number of chunks, whatever  *)
(* the connector and the peer do.                                          *)
(***************************************************************************)
EXTENDS ProxyRuntime, CommonLemmas

-----------------------------------------------------------------------------
(* The inductive invariant                                                 *)

Places == {"request", "start", "reading", "passing", "ending", "ended", "gone"}

\* What the proxy holds of its client are chunks; nothing is known of the answer.
ClientTypes ==
  /\ sent \in Nat /\ cut \in Nat /\ cut <= sent /\ request \in Requests
  /\ reader \in [at : Places, hand : Nat, seen : BOOLEAN, last : BOOLEAN]
  /\ context \in [established : BOOLEAN, buffered : Seq(Nat)]
  /\ passed \in Seq(Nat)
  /\ DOMAIN runtime = DOMAIN Fresh /\ runtime.todo \in Seq(Nat)

\* Where the reader is tells what it has.
ReaderOK ==
  /\ reader.hand # 0 => reader.at = "passing" /\ reader.hand = sent
  /\ reader.at \in {"request", "start"} => sent = cut
  /\ ~ runtime.busy => runtime.todo = <<>>

\* A forwarded request never waits.
ForwardOK ==
  request = "forward" =>
    /\ context.buffered = <<>> /\ runtime.todo = <<>>
    /\ reader.at \notin {"request", "start"} => context.established
    /\ reader.at = "passing" => reader.seen

\* The chunks, and how many there are, wherever they are.
HandSet == IF reader.hand = 0 THEN {} ELSE {reader.hand}
HandSize == IF reader.hand = 0 THEN 0 ELSE 1
Chunks0 == Range(passed) \cup Range(runtime.todo) \cup Range(context.buffered) \cup HandSet
Size0 == Len(passed) + Len(runtime.todo) + Len(context.buffered) + HandSize
Counted == Chunks0 = (cut + 1)..sent /\ Size0 = sent - cut

\* What a forwarded request has sent is the beginning of its body.
PassedInOrder ==
  request = "forward" =>
    /\ Len(passed) = sent - cut - HandSize
    /\ \A i \in 1..Len(passed) : passed[i] = cut + i

PInv == ClientTypes /\ ReaderOK /\ ForwardOK /\ Counted /\ PassedInOrder

\* Nothing has been read.
THEOREM ProxyInit == Init => PInv
<1> SUFFICES ASSUME Init PROVE PInv
  OBVIOUS
<1>1. /\ sent = 0 /\ cut = 0 /\ reader = Idle /\ passed = <<>> /\ request \in Requests
      /\ context = [established |-> FALSE, buffered |-> <<>>] /\ runtime = Fresh
  BY DEF Init
<1>2. reader.hand = 0 /\ reader.at = "request" /\ context.buffered = <<>>
        /\ runtime.todo = <<>> /\ runtime.busy = FALSE
  BY <1>1 DEF Idle, Fresh
<1>3. ClientTypes
  BY <1>1, <1>2 DEF ClientTypes, Places, Idle
<1>4. ReaderOK /\ ForwardOK /\ PassedInOrder
  BY <1>1, <1>2 DEF ReaderOK, ForwardOK, PassedInOrder, HandSize
<1>5. Range(passed) = {} /\ Range(runtime.todo) = {} /\ Range(context.buffered) = {}
  BY <1>1, <1>2 DEF Range
<1>6. Counted
  BY <1>1, <1>2, <1>5 DEF Counted, Chunks0, Size0, HandSet, HandSize
<1> QED
  BY <1>3, <1>4, <1>6 DEF PInv

-----------------------------------------------------------------------------
(* Lemmas                                                                  *)

\* A sequence with one more chunk, and without its first.
LEMMA OneMoreChunk ==
  ASSUME NEW s \in Seq(Nat), NEW x \in Nat
  PROVE  /\ Append(s, x) \in Seq(Nat) /\ Len(Append(s, x)) = Len(s) + 1
         /\ Len(s) \in Nat
         /\ \A i \in 1..Len(s) : Append(s, x)[i] = s[i]
         /\ Append(s, x)[Len(s) + 1] = x
         /\ s \o <<x>> = Append(s, x)
OBVIOUS

\* The elements of a sequence with one more.
LEMMA ChunkAdded ==
  ASSUME NEW s \in Seq(Nat), NEW x \in Nat
  PROVE  Range(Append(s, x)) = Range(s) \cup {x}
<1>1. /\ Append(s, x) \in Seq(Nat) /\ Len(Append(s, x)) = Len(s) + 1 /\ Len(s) \in Nat
      /\ \A i \in 1..Len(s) : Append(s, x)[i] = s[i]
      /\ Append(s, x)[Len(s) + 1] = x
  BY OneMoreChunk
<1>2. DOMAIN s = 1..Len(s) /\ DOMAIN Append(s, x) = 1..Len(s) + 1
  BY <1>1
<1>3. \A i \in 1..Len(s) + 1 : i \in 1..Len(s) \/ i = Len(s) + 1
  BY <1>1
<1>4. 1..Len(s) \subseteq 1..Len(s) + 1 /\ Len(s) + 1 \in 1..Len(s) + 1
  BY <1>1
<1>5. Range(Append(s, x)) \subseteq Range(s) \cup {x}
  BY <1>1, <1>2, <1>3 DEF Range
<1>6. Range(s) \cup {x} \subseteq Range(Append(s, x))
  BY <1>1, <1>2, <1>4 DEF Range
<1> QED
  BY <1>5, <1>6

\* The elements of a sequence are its head and those of the rest.
LEMMA ChunkTaken ==
  ASSUME NEW s \in Seq(Nat), s # <<>>
  PROVE  /\ Range(s) = Range(Tail(s)) \cup {Head(s)} /\ Len(s) = Len(Tail(s)) + 1
         /\ Head(s) \in Nat /\ Tail(s) \in Seq(Nat) /\ Len(Tail(s)) \in Nat
<1>1. /\ Tail(s) \in Seq(Nat) /\ Head(s) \in Nat /\ Head(s) = s[1]
      /\ Len(s) \in Nat /\ Len(s) > 0 /\ Len(Tail(s)) = Len(s) - 1
      /\ \A i \in 1..Len(Tail(s)) : Tail(s)[i] = s[i + 1]
  OBVIOUS
<1>2. DOMAIN s = 1..Len(s) /\ DOMAIN Tail(s) = 1..Len(Tail(s))
  BY <1>1
<1>3. ASSUME NEW i \in 1..Len(s) PROVE s[i] = Head(s) \/ s[i] \in Range(Tail(s))
  <2>1. CASE i = 1
    BY <1>1, <2>1
  <2>2. CASE i # 1
    <3>1. i - 1 \in 1..Len(Tail(s)) /\ Tail(s)[i - 1] = s[i]
      BY <1>1, <2>2
    <3> QED
      BY <1>2, <3>1 DEF Range
  <2> QED
    BY <2>1, <2>2
<1>4. ASSUME NEW i \in 1..Len(Tail(s)) PROVE Tail(s)[i] \in Range(s)
  <2>1. i + 1 \in 1..Len(s) /\ Tail(s)[i] = s[i + 1]
    BY <1>1
  <2> QED
    BY <1>2, <2>1 DEF Range
<1>5. Head(s) \in Range(s)
  BY <1>1, <1>2 DEF Range
<1>6. Range(s) \subseteq Range(Tail(s)) \cup {Head(s)}
  BY <1>2, <1>3 DEF Range
<1>7. Range(Tail(s)) \subseteq Range(s)
  BY <1>2, <1>4 DEF Range
<1> QED
  BY <1>1, <1>5, <1>6, <1>7

\* A sum whose terms trade places.
LEMMA SameSum ==
  ASSUME NEW a \in Nat, NEW b \in Nat, NEW c \in Nat, NEW h \in Nat,
         NEW a1 \in Nat, NEW b1 \in Nat, NEW c1 \in Nat, NEW h1 \in Nat,
         \/ a1 = a + h /\ b1 = b /\ c1 = c /\ h1 = 0
         \/ a1 = a /\ b1 = b /\ c1 = c + h /\ h1 = 0
         \/ a1 = a + 1 /\ b = b1 + 1 /\ c1 = c /\ h1 = h
         \/ a1 = a /\ b1 + c1 = b + c /\ h1 = h
  PROVE  a1 + b1 + c1 + h1 = a + b + c + h
OBVIOUS

\* The number of chunks, before and after a step.
LEMMA SizeKept ==
  ASSUME Len(passed) \in Nat, Len(runtime.todo) \in Nat, Len(context.buffered) \in Nat,
         Len(passed') \in Nat, Len(runtime'.todo) \in Nat, Len(context'.buffered) \in Nat,
         \/ /\ Len(passed') = Len(passed) + HandSize /\ HandSize' = 0
            /\ Len(runtime'.todo) = Len(runtime.todo) /\ Len(context'.buffered) = Len(context.buffered)
         \/ /\ Len(context'.buffered) = Len(context.buffered) + HandSize /\ HandSize' = 0
            /\ Len(runtime'.todo) = Len(runtime.todo) /\ Len(passed') = Len(passed)
         \/ /\ Len(passed') = Len(passed) + 1 /\ Len(runtime.todo) = Len(runtime'.todo) + 1
            /\ Len(context'.buffered) = Len(context.buffered) /\ HandSize' = HandSize
         \/ /\ Len(runtime'.todo) + Len(context'.buffered) = Len(runtime.todo) + Len(context.buffered)
            /\ Len(passed') = Len(passed) /\ HandSize' = HandSize
  PROVE  Size0' = Size0
<1>1. HandSize \in Nat /\ HandSize' \in Nat
  BY DEF HandSize
<1> DEFINE a == Len(passed)   b == Len(runtime.todo)   c == Len(context.buffered)
           a1 == Len(passed')   b1 == Len(runtime'.todo)   c1 == Len(context'.buffered)
           h == HandSize   h1 == HandSize'
<1>2. /\ a \in Nat /\ b \in Nat /\ c \in Nat /\ h \in Nat
      /\ a1 \in Nat /\ b1 \in Nat /\ c1 \in Nat /\ h1 \in Nat
      /\ \/ a1 = a + h /\ b1 = b /\ c1 = c /\ h1 = 0
         \/ a1 = a /\ b1 = b /\ c1 = c + h /\ h1 = 0
         \/ a1 = a + 1 /\ b = b1 + 1 /\ c1 = c /\ h1 = h
         \/ a1 = a /\ b1 + c1 = b + c /\ h1 = h
  BY <1>1, Zenon
<1>3. Size0 = a + b + c + h /\ Size0' = a1 + b1 + c1 + h1
  BY DEF Size0
<1> HIDE DEF a, b, c, a1, b1, c1, h, h1
<1>4. a1 + b1 + c1 + h1 = a + b + c + h
  BY <1>2, SameSum
<1> QED
  BY <1>3, <1>4, Zenon

\* A step that leaves what the proxy holds of its client where it is.
Untouched ==
  /\ UNCHANGED <<sent, cut, request, context, passed>>
  /\ reader'.hand = reader.hand
  /\ reader' \in [at : Places, hand : Nat, seen : BOOLEAN, last : BOOLEAN]
  /\ DOMAIN runtime' = DOMAIN runtime /\ runtime'.todo = runtime.todo

\* Such a step keeps what counts the chunks.
LEMMA UntouchedKeeps ==
  ASSUME PInv, Untouched
  PROVE  ClientTypes' /\ Counted' /\ PassedInOrder'
<1>1. ClientTypes'
  BY DEF PInv, Untouched, ClientTypes
<1>2. Counted' /\ PassedInOrder'
  BY DEF PInv, Untouched, Counted, Chunks0, Size0, HandSet, HandSize, PassedInOrder
<1> QED
  BY <1>1, <1>2

\* A step that does not even move the reader.
LEMMA ReaderStays ==
  ASSUME PInv, UNCHANGED <<clientVars, request, context, passed>>,
         DOMAIN runtime' = DOMAIN runtime, runtime'.todo = runtime.todo,
         runtime'.busy = runtime.busy \/ runtime.todo = <<>>
  PROVE  PInv'
<1>1. UNCHANGED <<sent, cut, reader, request, context, passed>>
  BY DEF clientVars
<1>2. Untouched
  BY <1>1 DEF PInv, ClientTypes, Untouched
<1>3. ReaderOK' /\ ForwardOK'
  BY <1>1 DEF PInv, ReaderOK, ForwardOK
<1> QED
  BY <1>2, <1>3, UntouchedKeeps DEF PInv

\* The fields of the reader after it has moved on.
LEMMA ReaderMoves ==
  ASSUME PInv, NEW from, NEW to \in Places, Go(from, to)
  PROVE  /\ reader.at = from /\ reader'.at = to /\ reader'.hand = reader.hand
         /\ reader'.seen = reader.seen
         /\ reader' \in [at : Places, hand : Nat, seen : BOOLEAN, last : BOOLEAN]
BY DEF PInv, ClientTypes, Go

-----------------------------------------------------------------------------
(* The listener's queue                                                    *)

\* The request is read, and start(with:) called.
LEMMA StartingPreserves ==
  ASSUME PInv, ReadConnectRequest \/ Start
  PROVE  PInv'
<1>1. runtime' = runtime /\ passed' = passed /\ request' = request
  BY DEF ReadConnectRequest, Start, answerVars
<1>2. sent = cut /\ reader.hand = 0 /\ sent \in Nat
  BY DEF ReadConnectRequest, Start, Go, PInv, ReaderOK, ClientTypes
<1>3. CASE ReadConnectRequest
  <2>1. PICK n \in {0, 1} : sent' = n /\ cut' = n
    BY <1>3 DEF ReadConnectRequest
  <2>2. Go("request", "start") /\ context' = context
    BY <1>3 DEF ReadConnectRequest
  <2>3. /\ reader'.at = "start" /\ reader'.hand = 0
        /\ reader' \in [at : Places, hand : Nat, seen : BOOLEAN, last : BOOLEAN]
    BY <1>2, <2>2, ReaderMoves DEF Places
  <2>4. ClientTypes' /\ ReaderOK' /\ ForwardOK'
    BY <1>1, <2>1, <2>2, <2>3 DEF PInv, ClientTypes, ReaderOK, ForwardOK
  <2>5. Chunks0' = Chunks0 /\ Size0' = Size0 /\ HandSize' = HandSize
    BY <1>1, <1>2, <2>2, <2>3 DEF Chunks0, Size0, HandSet, HandSize
  <2>6. Counted'
    BY <1>2, <2>1, <2>5 DEF PInv, Counted
  <2>7. PassedInOrder'
    <3>1. HandSize = 0
      BY <1>2 DEF HandSize
    <3> QED
      BY <1>1, <1>2, <2>1, <2>5, <3>1 DEF PInv, PassedInOrder
  <2> QED
    BY <2>4, <2>6, <2>7 DEF PInv
<1>4. CASE Start
  <2>1. /\ Go("start", "reading") /\ UNCHANGED <<sent, cut>>
        /\ context' = [context EXCEPT !.established = (request = "forward")]
    BY <1>4 DEF Start
  <2>2. /\ reader'.at = "reading" /\ reader'.hand = 0
        /\ reader' \in [at : Places, hand : Nat, seen : BOOLEAN, last : BOOLEAN]
    BY <1>2, <2>1, ReaderMoves DEF Places
  <2>3. /\ context' \in [established : BOOLEAN, buffered : Seq(Nat)]
        /\ context'.buffered = context.buffered
        /\ context'.established = (request = "forward")
    BY <2>1 DEF PInv, ClientTypes
  <2>4. ClientTypes' /\ ReaderOK' /\ ForwardOK'
    BY <1>1, <2>1, <2>2, <2>3 DEF PInv, ClientTypes, ReaderOK, ForwardOK
  <2>5. Chunks0' = Chunks0 /\ Size0' = Size0 /\ HandSize' = HandSize
    BY <1>1, <1>2, <2>2, <2>3 DEF Chunks0, Size0, HandSet, HandSize
  <2>6. Counted' /\ PassedInOrder'
    BY <1>1, <2>1, <2>5 DEF PInv, Counted, PassedInOrder
  <2> QED
    BY <2>4, <2>6 DEF PInv
<1> QED
  BY <1>3, <1>4

\* A chunk is read: it is the next, and in hand.
LEMMA ReceivePreserves ==
  ASSUME PInv, Receive
  PROVE  PInv'
<1>1. /\ reader.at = "reading" /\ runtime' = runtime
      /\ UNCHANGED <<cut, request, context, passed>>
  BY DEF Receive, answerVars
<1>2. PICK data \in BOOLEAN, last \in BOOLEAN :
        /\ sent' = IF data THEN sent + 1 ELSE sent
        /\ reader' = [at |-> "passing", hand |-> IF data THEN sent + 1 ELSE 0,
                      seen |-> context.established, last |-> last]
  BY DEF Receive
<1>3. reader.hand = 0 /\ sent \in Nat /\ cut \in Nat /\ cut <= sent
        /\ context.established \in BOOLEAN
  BY <1>1 DEF PInv, ReaderOK, ClientTypes
<1>4. /\ reader'.at = "passing" /\ reader'.seen = context.established
      /\ reader'.hand = IF data THEN sent + 1 ELSE 0
      /\ reader' \in [at : Places, hand : Nat, seen : BOOLEAN, last : BOOLEAN]
  BY <1>2, <1>3 DEF Places
<1>5. ClientTypes' /\ ReaderOK' /\ ForwardOK'
  BY <1>1, <1>2, <1>3, <1>4 DEF PInv, ClientTypes, ReaderOK, ForwardOK
<1>6. /\ HandSet = {} /\ HandSize = 0
      /\ HandSet' = IF data THEN {sent + 1} ELSE {}
      /\ HandSize' = IF data THEN 1 ELSE 0
  BY <1>3, <1>4 DEF HandSet, HandSize
<1>7. /\ Chunks0' = Chunks0 \cup IF data THEN {sent + 1} ELSE {}
      /\ Size0' = Size0 + IF data THEN 1 ELSE 0
  <2>1. Size0 = Len(passed) + Len(runtime.todo) + Len(context.buffered) /\ Size0 \in Int
    <3>1. Len(passed) \in Nat /\ Len(runtime.todo) \in Nat /\ Len(context.buffered) \in Nat
      BY LenProperties DEF PInv, ClientTypes
    <3> QED
      BY <1>6, <3>1 DEF Size0
  <2> QED
    BY <1>1, <1>6, <2>1 DEF Chunks0, Size0
<1>8. Counted' /\ PassedInOrder'
  BY <1>1, <1>2, <1>3, <1>6, <1>7 DEF PInv, Counted, PassedInOrder
<1> QED
  BY <1>5, <1>8 DEF PInv

\* The chunk in hand is sent or buffered.
LEMMA PassPreserves ==
  ASSUME PInv, Pass
  PROVE  PInv'
<1>1. /\ reader.at = "passing" /\ runtime' = runtime /\ UNCHANGED <<sent, cut, request>>
      /\ reader' = [reader EXCEPT !.at = IF reader.last THEN "ending" ELSE "reading", !.hand = 0]
  BY DEF Pass, answerVars
<1>2. /\ sent \in Nat /\ cut \in Nat /\ cut <= sent /\ reader.hand \in Nat
      /\ passed \in Seq(Nat) /\ context.buffered \in Seq(Nat) /\ runtime.todo \in Seq(Nat)
      /\ context \in [established : BOOLEAN, buffered : Seq(Nat)]
      /\ reader \in [at : Places, hand : Nat, seen : BOOLEAN, last : BOOLEAN]
  BY DEF PInv, ClientTypes
<1>3. /\ reader'.at \in {"ending", "reading"} /\ reader'.hand = 0
      /\ reader' \in [at : Places, hand : Nat, seen : BOOLEAN, last : BOOLEAN]
  BY <1>1, <1>2 DEF Places
<1>4. HandSet' = {} /\ HandSize' = 0
  BY <1>3 DEF HandSet, HandSize
<1>5. Len(passed) \in Nat /\ Len(runtime.todo) \in Nat /\ Len(context.buffered) \in Nat
  BY <1>2, LenProperties
<1> DEFINE x == reader.hand
           q == IF reader.seen THEN passed ELSE context.buffered
           r == IF x = 0 THEN q ELSE Append(q, x)
<1>6. q \in Seq(Nat)
  BY <1>2
<1>7. IF reader.seen THEN passed' = r /\ context' = context
      ELSE passed' = passed /\ context' = [context EXCEPT !.buffered = r]
  <2>1. q \o <<>> = q
    BY <1>6, ConcatEmptySeq
  <2>2. q \o <<x>> = Append(q, x)
    BY <1>2, <1>6, OneMoreChunk
  <2> QED
    BY <2>1, <2>2 DEF Pass
<1> HIDE DEF q
<1>8. /\ r \in Seq(Nat) /\ Range(r) = Range(q) \cup HandSet /\ Len(r) = Len(q) + HandSize
      /\ \A i \in 1..Len(q) : r[i] = q[i]
      /\ x # 0 => r[Len(q) + 1] = x
  <2>1. CASE x = 0
    BY <1>6, <2>1 DEF HandSet, HandSize
  <2>2. CASE x # 0
    BY <1>2, <1>6, <2>2, OneMoreChunk, ChunkAdded DEF HandSet, HandSize
  <2> QED
    BY <2>1, <2>2
<1> HIDE DEF r
<1>9. CASE reader.seen
  <2>1. passed' = r /\ context' = context /\ q = passed
    BY <1>7, <1>9 DEF q
  <2>2. ClientTypes' /\ ReaderOK' /\ ForwardOK'
    BY <1>1, <1>3, <1>8, <2>1 DEF PInv, ClientTypes, ReaderOK, ForwardOK
  <2>3. Chunks0' = Chunks0
    BY <1>1, <1>4, <1>8, <2>1 DEF Chunks0
  <2>4. Size0' = Size0
    <3>1. Len(passed') = Len(passed) + HandSize
      BY <1>8, <2>1
    <3>2. runtime'.todo = runtime.todo /\ context'.buffered = context.buffered
      BY <1>1, <2>1
    <3>3. HandSize \in Nat
      BY DEF HandSize
    <3>4. Len(passed') \in Nat /\ Len(context'.buffered) \in Nat
      BY <1>5, <3>1, <3>2, <3>3
    <3> QED
      BY <1>4, <1>5, <3>1, <3>2, <3>4, SizeKept, Zenon
  <2>5. Counted'
    BY <1>1, <2>3, <2>4 DEF PInv, Counted
  <2>6. PassedInOrder'
    <3> SUFFICES ASSUME request = "forward"
                 PROVE  /\ Len(r) = sent - cut
                        /\ \A i \in 1..Len(r) : r[i] = cut + i
      BY <1>1, <1>2, <1>4, <1>5, <1>8, <2>1 DEF PassedInOrder, HandSize
    <3>1. /\ Len(passed) = sent - cut - HandSize
          /\ \A i \in 1..Len(passed) : passed[i] = cut + i
      BY DEF PInv, PassedInOrder
    <3>2. x # 0 => x = sent
      BY DEF PInv, ReaderOK
    <3>3. CASE x = 0
      BY <1>2, <1>5, <1>8, <2>1, <3>1, <3>3 DEF HandSize
    <3>4. CASE x # 0
      <4>1. /\ HandSize = 1 /\ Len(passed) = sent - cut - 1 /\ Len(r) = Len(passed) + 1
            /\ r[Len(passed) + 1] = sent
        BY <1>8, <2>1, <3>1, <3>2, <3>4 DEF HandSize
      <4>2. ASSUME NEW i \in 1..Len(r) PROVE r[i] = cut + i
        <5>1. CASE i = Len(passed) + 1
          BY <1>2, <1>5, <4>1, <5>1
        <5>2. CASE i # Len(passed) + 1
          <6>1. i \in 1..Len(passed)
            BY <1>5, <4>1, <5>2
          <6> QED
            BY <1>8, <2>1, <3>1, <6>1
        <5> QED
          BY <5>1, <5>2
      <4> QED
        BY <1>2, <1>5, <4>1, <4>2
    <3> QED
      BY <3>3, <3>4
  <2> QED
    BY <2>2, <2>5, <2>6 DEF PInv
<1>10. CASE ~ reader.seen
  <2>1. /\ passed' = passed /\ context' = [context EXCEPT !.buffered = r]
        /\ q = context.buffered
    BY <1>7, <1>10 DEF q
  <2>2. /\ context' \in [established : BOOLEAN, buffered : Seq(Nat)]
        /\ context'.buffered = r
    BY <1>2, <1>8, <2>1
  <2>3. request # "forward"
    BY <1>1, <1>10 DEF PInv, ForwardOK
  <2>4. ClientTypes' /\ ReaderOK' /\ ForwardOK' /\ PassedInOrder'
    BY <1>1, <1>3, <2>1, <2>2, <2>3
       DEF PInv, ClientTypes, ReaderOK, ForwardOK, PassedInOrder
  <2>5. Chunks0' = Chunks0
    BY <1>1, <1>4, <1>8, <2>1, <2>2 DEF Chunks0
  <2>6. Size0' = Size0
    <3>1. Len(context'.buffered) = Len(context.buffered) + HandSize
      BY <1>8, <2>1, <2>2
    <3>2. runtime'.todo = runtime.todo /\ passed' = passed
      BY <1>1, <2>1
    <3>3. HandSize \in Nat
      BY DEF HandSize
    <3>4. Len(passed') \in Nat /\ Len(context'.buffered) \in Nat
      BY <1>5, <3>1, <3>2, <3>3
    <3> QED
      BY <1>4, <1>5, <3>1, <3>2, <3>4, SizeKept, Zenon
  <2>7. Counted'
    BY <1>1, <2>5, <2>6 DEF PInv, Counted
  <2> QED
    BY <2>4, <2>7 DEF PInv
<1> QED
  BY <1>9, <1>10

\* The reader ends, or finds the runtime gone.
LEMMA EndPreserves ==
  ASSUME PInv, End \/ ReceiveAfterEnd
  PROVE  PInv'
<1>1. /\ Go("ending", "ended") \/ Go("reading", "gone")
      /\ UNCHANGED <<sent, cut, request, context, passed, runtime>>
  BY DEF End, ReceiveAfterEnd, answerVars
<1>2. /\ reader.at \in {"ending", "reading"} /\ reader'.at \in {"ended", "gone"}
      /\ reader'.hand = reader.hand
      /\ reader' \in [at : Places, hand : Nat, seen : BOOLEAN, last : BOOLEAN]
  BY <1>1, ReaderMoves DEF Places
<1>3. Untouched
  BY <1>1, <1>2 DEF Untouched
<1>4. ReaderOK' /\ ForwardOK'
  BY <1>1, <1>2 DEF PInv, ReaderOK, ForwardOK
<1> QED
  BY <1>3, <1>4, UntouchedKeeps DEF PInv

-----------------------------------------------------------------------------
(* The runtime's queue                                                     *)

\* The header is complete: the chunks that were buffered are taken out to be sent.
LEMMA AnswerPreserves ==
  ASSUME PInv, Answer
  PROVE  PInv'
<1>1. /\ ~ runtime.busy /\ UNCHANGED <<sent, cut, reader, request, passed>>
      /\ IF request # "refused"
         THEN context' = [established |-> TRUE, buffered |-> <<>>] ELSE context' = context
      /\ runtime' = [handshake |-> <<>>, forwarding |-> TRUE, busy |-> TRUE, rest |-> Remainder,
                     todo |-> IF request = "connect" THEN context.buffered ELSE <<>>]
  BY DEF Answer, Block, MarkEstablished, clientVars
<1>2. /\ DOMAIN runtime' = DOMAIN Fresh /\ runtime'.busy
      /\ runtime'.todo = IF request = "connect" THEN context.buffered ELSE <<>>
  BY <1>1 DEF Fresh
<1>3. /\ runtime.todo = <<>> /\ request \in Requests
      /\ context \in [established : BOOLEAN, buffered : Seq(Nat)]
  BY <1>1 DEF PInv, ReaderOK, ClientTypes
<1>4. request = "forward" => context.buffered = <<>>
  BY DEF PInv, ForwardOK
<1>5. /\ context' \in [established : BOOLEAN, buffered : Seq(Nat)]
      /\ request # "refused" => context'.established /\ context'.buffered = <<>>
      /\ request = "refused" => context' = context
  <2>1. CASE request = "refused"
    BY <1>1, <1>3, <2>1
  <2>2. CASE request # "refused"
    <3>1. context' = [established |-> TRUE, buffered |-> <<>>] /\ <<>> \in Seq(Nat)
      BY <1>1, <2>2
    <3> QED
      BY <2>2, <3>1
  <2> QED
    BY <2>1, <2>2
<1>6. runtime'.todo \in Seq(Nat)
  BY <1>2, <1>3
<1>7. ClientTypes' /\ ReaderOK' /\ ForwardOK'
  BY <1>1, <1>2, <1>4, <1>5, <1>6 DEF PInv, ClientTypes, ReaderOK, ForwardOK
<1>8. Range(<<>>) = {}
  BY DEF Range
<1>9. /\ Range(runtime'.todo) \cup Range(context'.buffered)
           = Range(runtime.todo) \cup Range(context.buffered)
      /\ Len(runtime'.todo) + Len(context'.buffered)
           = Len(runtime.todo) + Len(context.buffered)
  <2>0. Len(context.buffered) \in Nat
    BY <1>3, LenProperties
  <2>1. CASE request = "connect"
    BY <1>2, <1>3, <1>5, <1>8, <2>0, <2>1
  <2>2. CASE request = "forward"
    BY <1>2, <1>3, <1>4, <1>5, <2>2
  <2>3. CASE request = "refused"
    BY <1>2, <1>3, <1>5, <2>3
  <2> QED
    BY <1>3, <2>1, <2>2, <2>3 DEF Requests
<1>10. Chunks0' = Chunks0
  BY <1>1, <1>9 DEF Chunks0, HandSet
<1>11. Size0' = Size0
  <2>1. /\ Len(passed) \in Nat /\ Len(runtime.todo) \in Nat /\ Len(context.buffered) \in Nat
        /\ Len(runtime'.todo) \in Nat /\ Len(context'.buffered) \in Nat /\ HandSize \in Nat
    <3>1. /\ passed \in Seq(Nat) /\ runtime.todo \in Seq(Nat) /\ context.buffered \in Seq(Nat)
          /\ context'.buffered \in Seq(Nat)
      BY <1>5 DEF PInv, ClientTypes
    <3> QED
      BY <1>6, <3>1, LenProperties DEF HandSize
  <2>2. HandSize' = HandSize /\ Len(passed') = Len(passed)
    BY <1>1 DEF HandSize
  <2> QED
    BY <1>9, <2>1, <2>2, SizeKept, Zenon
<1>12. Counted' /\ PassedInOrder'
  BY <1>1, <1>10, <1>11 DEF PInv, Counted, PassedInOrder, HandSize
<1> QED
  BY <1>7, <1>12 DEF PInv

\* A buffered chunk is sent.
LEMMA SendBufferedPreserves ==
  ASSUME PInv, SendBuffered
  PROVE  PInv'
<1>1. /\ runtime.busy /\ runtime.todo # <<>> /\ UNCHANGED <<sent, cut, reader, request, context>>
      /\ passed' = Append(passed, Head(runtime.todo))
      /\ runtime' = [runtime EXCEPT !.todo = Tail(@)]
  BY DEF SendBuffered, clientVars
<1>2. passed \in Seq(Nat) /\ runtime.todo \in Seq(Nat) /\ DOMAIN runtime = DOMAIN Fresh
  BY DEF PInv, ClientTypes
<1>3. DOMAIN runtime' = DOMAIN runtime /\ runtime'.todo = Tail(runtime.todo)
        /\ runtime'.busy = runtime.busy
  BY <1>1, <1>2 DEF Fresh
<1>4. /\ Range(runtime.todo) = Range(Tail(runtime.todo)) \cup {Head(runtime.todo)}
      /\ Len(runtime.todo) = Len(Tail(runtime.todo)) + 1
      /\ Head(runtime.todo) \in Nat /\ Tail(runtime.todo) \in Seq(Nat)
      /\ Len(Tail(runtime.todo)) \in Nat
  BY <1>1, <1>2, ChunkTaken
<1>5. /\ passed' \in Seq(Nat) /\ Len(passed') = Len(passed) + 1 /\ Len(passed) \in Nat
      /\ Range(passed') = Range(passed) \cup {Head(runtime.todo)}
  BY <1>1, <1>2, <1>4, OneMoreChunk, ChunkAdded
<1>6. request # "forward"
  BY <1>1 DEF PInv, ForwardOK
<1>7. ClientTypes' /\ ReaderOK' /\ ForwardOK' /\ PassedInOrder'
  BY <1>1, <1>3, <1>4, <1>5, <1>6
     DEF PInv, ClientTypes, ReaderOK, ForwardOK, PassedInOrder
<1>8. Chunks0' = Chunks0
  BY <1>1, <1>3, <1>4, <1>5 DEF Chunks0, HandSet
<1>9. Size0' = Size0
  <2>1. Len(context.buffered) \in Nat /\ HandSize \in Nat
    BY LenProperties DEF PInv, ClientTypes, HandSize
  <2>2. HandSize' = HandSize /\ context'.buffered = context.buffered
    BY <1>1 DEF HandSize
  <2>3. Len(runtime'.todo) = Len(Tail(runtime.todo))
    BY <1>3
  <2>4. Len(passed') \in Nat /\ Len(runtime'.todo) \in Nat /\ Len(runtime.todo) \in Nat
    BY <1>4, <1>5, <2>3
  <2> QED
    BY <1>4, <1>5, <2>1, <2>2, <2>3, <2>4, SizeKept, Zenon
<1>10. Counted'
  BY <1>1, <1>8, <1>9 DEF PInv, Counted
<1> QED
  BY <1>7, <1>10 DEF PInv

\* The other blocks of the runtime, the registry and the connector take no chunk.
LEMMA OthersPreserve ==
  ASSUME PInv,
         \/ Forward \/ Collect \/ SendRemainder \/ Disconnect \/ Registry \/ ConnectorStep
         \/ Read \/ (StartSession /\ UNCHANGED quietVars) \/ (SessionEnds /\ UNCHANGED quietVars)
         \/ UNCHANGED vars
  PROVE  PInv'
<1>1. DOMAIN runtime = DOMAIN Fresh
  BY DEF PInv, ClientTypes
<1>2. CASE Collect
  <2>1. runtime' = [runtime EXCEPT !.handshake = Received]
        /\ UNCHANGED <<clientVars, request, context, passed>>
    BY <1>2 DEF Collect
  <2>2. DOMAIN runtime' = DOMAIN runtime /\ runtime'.todo = runtime.todo
          /\ runtime'.busy = runtime.busy
    BY <1>1, <2>1 DEF Fresh
  <2> QED
    BY <2>1, <2>2, ReaderStays
<1>3. CASE SendRemainder
  <2>1. runtime' = [runtime EXCEPT !.busy = FALSE, !.rest = <<>>] /\ runtime.todo = <<>>
        /\ UNCHANGED <<clientVars, request, context, passed>>
    BY <1>3 DEF SendRemainder
  <2>2. DOMAIN runtime' = DOMAIN runtime /\ runtime'.todo = runtime.todo
    BY <1>1, <2>1 DEF Fresh
  <2> QED
    BY <2>1, <2>2, ReaderStays
<1>4. CASE \/ Forward \/ Disconnect \/ Registry \/ ConnectorStep
           \/ Read \/ (StartSession /\ UNCHANGED quietVars)
           \/ (SessionEnds /\ UNCHANGED quietVars) \/ UNCHANGED vars
  <2>1. UNCHANGED <<clientVars, request, context, passed, runtime>>
    BY <1>4 DEF Forward, Disconnect, Registry, ConnectorStep, Open, SendRequest, Close, Data,
                Process, Stop, Read, quietVars, restVars, answerVars, vars
  <2> QED
    BY <2>1, ReaderStays
<1> QED
  BY <1>2, <1>3, <1>4

-----------------------------------------------------------------------------
(* Theorems                                                                *)

\* Every step of the three queues preserves the invariant.
THEOREM ProxyStep == PInv /\ [Next]_vars => PInv'
<1> SUFFICES ASSUME PInv, [Next]_vars PROVE PInv'
  OBVIOUS
<1>1. CASE ReadConnectRequest \/ Start
  BY <1>1, StartingPreserves
<1>2. CASE Receive \/ Pass \/ End \/ ReceiveAfterEnd
  BY <1>2, ReceivePreserves, PassPreserves, EndPreserves
<1>3. CASE Answer \/ SendBuffered
  BY <1>3, AnswerPreserves, SendBufferedPreserves
<1> QED
  BY <1>1, <1>2, <1>3, OthersPreserve DEF Next, ReaderStep, RuntimeStep

\* The invariant holds whatever the peer sends and whenever a session ends.
THEOREM ProxyInvariance == Spec => []PInv
BY ProxyInit, ProxyStep, PTL DEF Spec

\* Every chunk read from the client is in one place exactly: sent, about to be sent,
\* buffered or in hand.
THEOREM NoChunkLost == Spec => []ClientBytesKept
<1>1. ASSUME PInv PROVE ClientBytesKept
  <2>1. /\ passed \in Seq(Nat) /\ runtime.todo \in Seq(Nat) /\ context.buffered \in Seq(Nat)
        /\ reader.hand \in Nat
    BY <1>1 DEF PInv, ClientTypes
  <2>2. Hand \in Seq(Nat) /\ Range(Hand) = HandSet /\ Len(Hand) = HandSize
    <3>1. CASE reader.hand = 0
      BY <3>1 DEF Hand, HandSet, HandSize, Range
    <3>2. CASE reader.hand # 0
      BY <2>1, <3>2 DEF Hand, HandSet, HandSize, Range
    <3> QED
      BY <3>1, <3>2
  <2> DEFINE a == passed \o runtime.todo
             b == a \o context.buffered
  <2>3. /\ a \in Seq(Nat) /\ Range(a) = Range(passed) \cup Range(runtime.todo)
        /\ Len(a) = Len(passed) + Len(runtime.todo)
    <3>1. Range(passed \o runtime.todo) = Range(passed) \cup Range(runtime.todo)
      BY <2>1, RangeConcatenation
    <3>2. /\ passed \o runtime.todo \in Seq(Nat)
          /\ Len(passed \o runtime.todo) = Len(passed) + Len(runtime.todo)
      BY <2>1, ConcatProperties
    <3> QED
      BY <3>1, <3>2
  <2> HIDE DEF a
  <2>4. /\ b \in Seq(Nat) /\ Range(b) = Range(a) \cup Range(context.buffered)
        /\ Len(b) = Len(a) + Len(context.buffered)
    <3>1. Range(a \o context.buffered) = Range(a) \cup Range(context.buffered)
      BY <2>1, <2>3, RangeConcatenation
    <3>2. /\ a \o context.buffered \in Seq(Nat)
          /\ Len(a \o context.buffered) = Len(a) + Len(context.buffered)
      BY <2>1, <2>3, ConcatProperties
    <3> QED
      BY <3>1, <3>2
  <2> HIDE DEF b
  <2>5. Range(b \o Hand) = Range(b) \cup HandSet /\ Len(b \o Hand) = Len(b) + HandSize
    <3>1. Range(b \o Hand) = Range(b) \cup Range(Hand)
      BY <2>2, <2>4, RangeConcatenation
    <3>2. Len(b \o Hand) = Len(b) + Len(Hand)
      BY <2>2, <2>4, ConcatProperties
    <3> QED
      BY <2>2, <3>1, <3>2
  <2>6. b \o Hand = passed \o runtime.todo \o context.buffered \o Hand
    BY DEF a, b
  <2>7. Range(b \o Hand) = Chunks0 /\ Len(b \o Hand) = Size0
    BY <2>3, <2>4, <2>5 DEF Chunks0, Size0
  <2> QED
    BY <1>1, <2>6, <2>7, Zenon DEF PInv, Counted, ClientBytesKept
<1> QED
  BY <1>1, ProxyInvariance, PTL

\* The body of a forwarded request is sent in order, and all of it that was read but the
\* chunk in hand: it never waits for the answer.
ForwardedInOrder ==
  request = "forward" => passed \o Hand = [i \in 1..(sent - cut) |-> cut + i]

\* It holds whenever the answer comes and whatever becomes of the session.
THEOREM ForwardNeverWaits == Spec => []ForwardedInOrder
<1>1. ASSUME PInv, request = "forward"
      PROVE  passed \o Hand = [i \in 1..(sent - cut) |-> cut + i]
  <2>1. /\ passed \in Seq(Nat) /\ reader.hand \in Nat /\ Len(passed) \in Nat
        /\ sent \in Nat /\ cut \in Nat /\ cut <= sent
    BY <1>1, LenProperties DEF PInv, ClientTypes
  <2>2. /\ Len(passed) = sent - cut - HandSize
        /\ \A i \in 1..Len(passed) : passed[i] = cut + i
        /\ reader.hand # 0 => reader.hand = sent
    BY <1>1 DEF PInv, PassedInOrder, ReaderOK
  <2>3. CASE reader.hand = 0
    <3>1. passed \o Hand = passed
      BY <2>1, <2>3, ConcatEmptySeq DEF Hand
    <3>2. passed = [i \in 1..Len(passed) |-> passed[i]] /\ Len(passed) = sent - cut
      BY <2>1, <2>2, <2>3 DEF HandSize
    <3> QED
      BY <2>2, <3>1, <3>2
  <2>4. CASE reader.hand # 0
    <3> DEFINE all == Append(passed, sent)
    <3>0. passed \o Hand = all
      <4>1. Hand = <<sent>>
        BY <2>2, <2>4 DEF Hand
      <4>2. passed \o <<sent>> = Append(passed, sent)
        BY <2>1, OneMoreChunk
      <4> QED
        BY <4>1, <4>2
    <3>1. /\ all \in Seq(Nat) /\ Len(all) = Len(passed) + 1
          /\ \A i \in 1..Len(passed) : all[i] = passed[i]
          /\ all[Len(passed) + 1] = sent
      BY <2>1, OneMoreChunk
    <3> HIDE DEF all
    <3>2. Len(all) = sent - cut /\ Len(passed) + 1 = sent - cut
      BY <2>1, <2>2, <2>4, <3>1 DEF HandSize
    <3>3. ASSUME NEW i \in 1..(sent - cut) PROVE all[i] = cut + i
      <4>1. CASE i = Len(passed) + 1
        BY <2>1, <3>1, <3>2, <4>1
      <4>2. CASE i # Len(passed) + 1
        <5>1. i \in 1..Len(passed)
          BY <2>1, <3>2, <4>2
        <5> QED
          BY <2>2, <3>1, <5>1
      <4> QED
        BY <4>1, <4>2
    <3>4. all = [i \in 1..Len(all) |-> all[i]]
      BY <3>1, SeqDef
    <3> QED
      BY <3>0, <3>2, <3>3, <3>4
  <2> QED
    BY <2>3, <2>4
<1>2. PInv => ForwardedInOrder
  BY <1>1 DEF ForwardedInOrder
<1> QED
  BY <1>2, ProxyInvariance, PTL

-----------------------------------------------------------------------------
(* Slices of a stream                                                      *)

\* The elements of a sequence from one place to another.
Slice(s, a, b) == SubSeq(s, a + 1, b)

\* What is in a slice.
LEMMA SliceIs ==
  ASSUME NEW S, NEW s \in Seq(S), NEW a \in Nat, NEW b \in Nat, a <= b, b <= Len(s)
  PROVE  /\ Slice(s, a, b) \in Seq(S) /\ Len(Slice(s, a, b)) = b - a
         /\ \A i \in 1..(b - a) : Slice(s, a, b)[i] = s[a + i]
<1>1. Len(s) \in Nat /\ \A i \in 1..Len(s) : s[i] \in S
  BY LenProperties, ElementOfSeq
<1>2. \A i \in a + 1..b : s[i] \in S
  BY <1>1
<1>3. a + 1 \in Int /\ b \in Int /\ b - (a + 1) + 1 = b - a
  OBVIOUS
<1>4. /\ SubSeq(s, a + 1, b) \in Seq(S)
      /\ Len(SubSeq(s, a + 1, b)) = IF a + 1 <= b THEN b - (a + 1) + 1 ELSE 0
      /\ \A i \in 1..(b - (a + 1) + 1) : SubSeq(s, a + 1, b)[i] = s[a + 1 + i - 1]
  BY <1>2, <1>3, SubSeqProperties
<1>5. (IF a + 1 <= b THEN b - a ELSE 0) = b - a
  OBVIOUS
<1>6. ASSUME NEW i \in 1..(b - a) PROVE a + 1 + i - 1 = a + i
  OBVIOUS
<1> QED
  BY <1>3, <1>4, <1>5, <1>6 DEF Slice

\* Two sequences of as many equal elements.
LEMMA SameElements ==
  ASSUME NEW S, NEW s \in Seq(S), NEW t \in Seq(S), NEW n \in Nat, Len(s) = n, Len(t) = n,
         \A i \in 1..n : s[i] = t[i]
  PROVE  s = t
BY SeqEqual

\* A slice of a slice.
LEMMA SliceOfSlice ==
  ASSUME NEW S, NEW s \in Seq(S), NEW a \in Nat, NEW b \in Nat, a <= b, b <= Len(s),
         NEW c \in Nat, NEW d \in Nat, c <= d, d <= b - a
  PROVE  Slice(Slice(s, a, b), c, d) = Slice(s, a + c, a + d)
<1> DEFINE t == Slice(s, a, b)   u == Slice(t, c, d)   v == Slice(s, a + c, a + d)
<1>1. t \in Seq(S) /\ Len(t) = b - a /\ \A i \in 1..(b - a) : t[i] = s[a + i]
  BY SliceIs
<1>2. Len(s) \in Nat
  BY LenProperties
<1> HIDE DEF t
<1>3. u \in Seq(S) /\ Len(u) = d - c /\ \A i \in 1..(d - c) : u[i] = t[c + i]
  <2>1. ASSUME NEW q \in Seq(S), d <= Len(q)
        PROVE  /\ Slice(q, c, d) \in Seq(S) /\ Len(Slice(q, c, d)) = d - c
               /\ \A i \in 1..(d - c) : Slice(q, c, d)[i] = q[c + i]
    BY <2>1, SliceIs
  <2>2. d <= Len(t)
    BY <1>1
  <2> HIDE DEF u, v
  <2> QED
    BY <1>1, <2>1, <2>2 DEF u
<1>4. PICK m \in Nat, k \in Nat :
        m = a + c /\ k = a + d /\ m <= k /\ k <= Len(s) /\ k - m = d - c
  BY <1>2
<1>5. v \in Seq(S) /\ Len(v) = d - c /\ \A i \in 1..(d - c) : v[i] = s[a + c + i]
  <2> HIDE DEF u, v
  <2>1. m <= k /\ k <= Len(s)
    BY <1>4
  <2>2. /\ Slice(s, m, k) \in Seq(S) /\ Len(Slice(s, m, k)) = k - m
        /\ \A i \in 1..(k - m) : Slice(s, m, k)[i] = s[m + i]
    BY <2>1, SliceIs
  <2>3. v = Slice(s, m, k)
    BY <1>4, Zenon DEF v
  <2>4. \A i \in 1..(d - c) : m + i = a + c + i
    BY <1>4
  <2> QED
    BY <1>4, <2>2, <2>3, <2>4
<1> HIDE DEF u, v
<1>6. ASSUME NEW i \in 1..(d - c) PROVE u[i] = v[i]
  <2>1. c + i \in 1..(b - a) /\ a + (c + i) = a + c + i
    OBVIOUS
  <2> QED
    BY <1>1, <1>3, <1>5, <2>1
<1>7. d - c \in Nat
  OBVIOUS
<1>8. u = v
  BY <1>3, <1>5, <1>6, <1>7, SameElements
<1> QED
  BY <1>8 DEF u, v, t

\* Two slices that meet.
LEMMA SlicesJoin ==
  ASSUME NEW S, NEW s \in Seq(S), NEW a \in Nat, NEW b \in Nat, NEW c \in Nat,
         a <= b, b <= c, c <= Len(s)
  PROVE  Slice(s, a, b) \o Slice(s, b, c) = Slice(s, a, c)
<1>1. Len(s) \in Nat
  BY LenProperties
<1>2. a + 1 \in 1..Len(s) + 1 /\ b \in a + 1 - 1..Len(s) /\ c \in b..Len(s)
  BY <1>1
<1> QED
  BY <1>2, ConcatAdjacentSubSeq DEF Slice

\* What follows in a slice.
LEMMA AfterSlice ==
  ASSUME NEW S, NEW s \in Seq(S), NEW a \in Nat, NEW b \in Nat, a <= b, b <= Len(s),
         NEW c \in Nat, c <= b - a
  PROVE  After(Slice(s, a, b), c) = Slice(s, a + c, b)
<1>1. Len(Slice(s, a, b)) = b - a
  BY SliceIs
<1>2. After(Slice(s, a, b), c) = Slice(Slice(s, a, b), c, b - a)
  BY <1>1 DEF After, Slice
<1>3. b - a \in Nat /\ c <= b - a /\ a + (b - a) = b
  OBVIOUS
<1> HIDE DEF Slice
<1>4. Slice(Slice(s, a, b), c, b - a) = Slice(s, a + c, a + (b - a))
  BY <1>3, SliceOfSlice
<1> QED
  BY <1>2, <1>3, <1>4

\* The whole of a sequence, and nothing of it.
LEMMA WholeSlice ==
  ASSUME NEW S, NEW s \in Seq(S)
  PROVE  /\ Slice(s, 0, Len(s)) = s
         /\ \A a \in 0..Len(s) : Slice(s, a, a) = <<>>
<1>1. Slice(s, 0, Len(s)) = s
  BY SubSeqFull DEF Slice
<1>2. ASSUME NEW a \in 0..Len(s) PROVE Slice(s, a, a) = <<>>
  <2>1. a \in Nat /\ a <= Len(s) /\ a - a = 0
    BY LenProperties
  <2>2. Slice(s, a, a) \in Seq(S) /\ Len(Slice(s, a, a)) = 0
    BY <2>1, SliceIs
  <2> QED
    BY <2>2, EmptySeq
<1> QED
  BY <1>1, <1>2

-----------------------------------------------------------------------------
(* The stream of a session                                                 *)

Bytes == [of : Nat, at : Nat]

\* Where the first f frames end in the stream.
EndOf(lens, f) == Len(FirstFrames(lens, f))

\* The bytes of a frame.
LEMMA FrameBytesAre ==
  ASSUME NEW lens \in Seq(Nat), NEW f \in 1..Len(lens)
  PROVE  /\ lens[f] \in Nat /\ HeaderSize \in Nat \ {0}
         /\ FrameBytes(lens, f) \in Seq(Bytes)
         /\ Len(FrameBytes(lens, f)) = HeaderSize + lens[f]
         /\ \A i \in 1..(HeaderSize + lens[f]) : FrameBytes(lens, f)[i] = Byte(f, i)
<1>1. lens[f] \in Nat /\ HeaderSize \in Nat \ {0} /\ f \in Nat
  BY ElementOfSeq, LenProperties, DecoderAssumption
<1>2. PICK n \in Nat : n = HeaderSize + lens[f]
  BY <1>1
<1>3. \A i \in 1..n : Byte(f, i) \in Bytes
  BY <1>1 DEF Byte, Bytes
<1>4. FrameBytes(lens, f) = [i \in 1..n |-> Byte(f, i)]
  BY <1>2 DEF FrameBytes
<1>5. [i \in 1..n |-> Byte(f, i)] \in [1..n -> Bytes]
  BY <1>3
<1>6. [i \in 1..n |-> Byte(f, i)] \in Seq(Bytes)
  BY <1>5, SeqDef
<1>7. Len([i \in 1..n |-> Byte(f, i)]) = n
  BY <1>6, LenProperties
<1> QED
  BY <1>1, <1>2, <1>4, <1>6, <1>7

\* The stream is put together frame by frame.
LEMMA FirstFramesAre ==
  ASSUME NEW lens \in Seq(Nat)
  PROVE  /\ FirstFrames(lens, 0) = <<>>
         /\ \A f \in 0..Len(lens) : FirstFrames(lens, f) \in Seq(Bytes)
         /\ \A f \in 1..Len(lens) :
              FirstFrames(lens, f) = FirstFrames(lens, f - 1) \o FrameBytes(lens, f)
<1>1. Len(lens) \in Nat
  BY LenProperties
<1> DEFINE F(f) == [h \in 1..f |-> FrameBytes(lens, h)]
<1>2. ASSUME NEW f \in 0..Len(lens) PROVE F(f) \in Seq(Seq(Bytes)) /\ Len(F(f)) = f
  <2>1. \A h \in 1..f : FrameBytes(lens, h) \in Seq(Bytes)
    BY <1>1, FrameBytesAre
  <2>2. f \in Nat /\ F(f) \in [1..f -> Seq(Bytes)]
    BY <1>1, <2>1
  <2>3. F(f) \in Seq(Seq(Bytes))
    BY <2>2, SeqDef
  <2> QED
    BY <2>2, <2>3, LenProperties
<1>3. FirstFrames(lens, 0) = <<>>
  <2>1. F(0) \in Seq(Seq(Bytes)) /\ Len(F(0)) = 0
    BY <1>1, <1>2
  <2>2. F(0) = <<>>
    BY <2>1, EmptySeq
  <2> QED
    BY <2>1, <2>2 DEF FirstFrames, FlattenSeq
<1>4. ASSUME NEW f \in 0..Len(lens) PROVE FirstFrames(lens, f) \in Seq(Bytes)
  <2>1. F(f) \in Seq(Seq(Bytes)) /\ <<>> \in Seq(Bytes)
    BY <1>2
  <2> HIDE DEF F
  <2>2. FlattenSeq(F(f)) \in Seq(Bytes)
    BY <2>1, FlattenAppended
  <2> QED
    BY <2>2 DEF FirstFrames, F
<1>5. ASSUME NEW f \in 1..Len(lens)
      PROVE  FirstFrames(lens, f) = FirstFrames(lens, f - 1) \o FrameBytes(lens, f)
  <2>1. PICK e \in 0..Len(lens) : e = f - 1 /\ e + 1 = f /\ f \in 0..Len(lens)
    BY <1>1
  <2>2. FrameBytes(lens, f) \in Seq(Bytes)
    BY FrameBytesAre
  <2> DEFINE a == F(e)   b == F(f)   x == FrameBytes(lens, f)   c == Append(a, x)
  <2>3. a \in Seq(Seq(Bytes)) /\ Len(a) = e /\ b \in Seq(Seq(Bytes)) /\ Len(b) = f
    BY <1>2, <2>1
  <2>4. \A i \in 1..e : a[i] = b[i]
    BY <1>1, <2>1
  <2>5. b[f] = x
    BY <1>1
  <2> HIDE DEF a, b, x, F
  <2>6. /\ c \in Seq(Seq(Bytes)) /\ Len(c) = e + 1 /\ c[e + 1] = x
        /\ \A i \in 1..e : c[i] = a[i]
    BY <2>2, <2>3, AppendProperties DEF x
  <2>7. \A i \in 1..f : c[i] = b[i]
    <3>1. \A i \in 1..f : i \in 1..e \/ i = e + 1
      BY <1>1, <2>1
    <3> HIDE DEF c
    <3> QED
      BY <2>1, <2>4, <2>5, <2>6, <3>1
  <2>8. c = b
    <3> HIDE DEF c
    <3>1. f \in Nat /\ Len(c) = f
      BY <1>1, <2>1, <2>6
    <3> QED
      BY <2>3, <2>6, <2>7, <3>1, SameElements
  <2>9. FlattenSeq(b) = FlattenSeq(a) \o x
    BY <2>2, <2>3, <2>8, FlattenAppended DEF x
  <2>10. FlattenSeq(F(f)) = FlattenSeq(F(e)) \o FrameBytes(lens, f)
    BY <2>9 DEF a, b, x
  <2> QED
    BY <2>1, <2>10, Zenon DEF FirstFrames, F
<1> QED
  BY <1>3, <1>4, <1>5

\* Where they end.
LEMMA EndsAre ==
  ASSUME NEW lens \in Seq(Nat)
  PROVE  /\ EndOf(lens, 0) = 0
         /\ \A f \in 0..Len(lens) : EndOf(lens, f) \in Nat
         /\ \A f \in 1..Len(lens) : EndOf(lens, f) = EndOf(lens, f - 1) + HeaderSize + lens[f]
<1>1. Len(lens) \in Nat
  BY LenProperties
<1>2. EndOf(lens, 0) = 0
  BY FirstFramesAre, EmptySeq DEF EndOf
<1>3. \A f \in 0..Len(lens) : EndOf(lens, f) \in Nat
  BY FirstFramesAre, LenProperties DEF EndOf
<1>4. ASSUME NEW f \in 1..Len(lens)
      PROVE  EndOf(lens, f) = EndOf(lens, f - 1) + HeaderSize + lens[f]
  <2>1. f - 1 \in 0..Len(lens)
    BY <1>1
  <2> DEFINE a == FirstFrames(lens, f - 1)   b == FrameBytes(lens, f)
  <2>2. a \in Seq(Bytes)
    BY <2>1, FirstFramesAre
  <2>3. b \in Seq(Bytes) /\ Len(b) = HeaderSize + lens[f] /\ HeaderSize \in Nat /\ lens[f] \in Nat
    BY FrameBytesAre
  <2>4. FirstFrames(lens, f) = a \o b
    BY FirstFramesAre
  <2> HIDE DEF a, b
  <2>5. Len(a \o b) = Len(a) + Len(b) /\ Len(a) \in Nat
    BY <2>2, <2>3, ConcatProperties, LenProperties
  <2>6. EndOf(lens, f) = Len(a) + (HeaderSize + lens[f])
    BY <2>3, <2>4, <2>5 DEF EndOf
  <2> QED
    BY <2>3, <2>5, <2>6 DEF EndOf, a
<1> QED
  BY <1>2, <1>3, <1>4

\* The ends follow each other.
LEMMA EndsGrow ==
  ASSUME NEW lens \in Seq(Nat), NEW f \in 0..Len(lens), NEW g \in 0..Len(lens), f <= g
  PROVE  EndOf(lens, f) <= EndOf(lens, g)
<1>1. Len(lens) \in Nat /\ HeaderSize \in Nat /\ \A h \in 1..Len(lens) : lens[h] \in Nat
  BY LenProperties, ElementOfSeq, DecoderAssumption
<1>2. /\ \A h \in 0..Len(lens) : EndOf(lens, h) \in Nat
      /\ \A h \in 1..Len(lens) : EndOf(lens, h) = EndOf(lens, h - 1) + HeaderSize + lens[h]
  BY EndsAre
<1> DEFINE T == {h \in f..Len(lens) : ~ (EndOf(lens, f) <= EndOf(lens, h))}
<1>3. T = {}
  <2> SUFFICES ASSUME T # {} PROVE FALSE
    OBVIOUS
  <2>1. PICK m \in T : \A k \in T : m <= k
    <3>1. T \subseteq Nat
      BY <1>1
    <3> HIDE DEF T
    <3> QED
      BY <3>1, Least
  <2>2. m \in f..Len(lens) /\ ~ (EndOf(lens, f) <= EndOf(lens, m))
    OBVIOUS
  <2>3. m # f
    BY <1>2, <2>2
  <2>4. m - 1 \in f..Len(lens) /\ m \in 1..Len(lens) /\ m - 1 \in 0..Len(lens) /\ ~ (m <= m - 1)
    BY <1>1, <2>2, <2>3
  <2>5. EndOf(lens, f) <= EndOf(lens, m - 1)
    BY <2>1, <2>4
  <2> HIDE DEF T
  <2> DEFINE a == EndOf(lens, f)   b == EndOf(lens, m - 1)   c == EndOf(lens, m)   d == lens[m]
  <2>6. a \in Nat /\ b \in Nat /\ c = b + HeaderSize + d /\ d \in Nat
    BY <1>1, <1>2, <2>4
  <2> HIDE DEF a, b, c, d
  <2>7. a <= b => a <= c
    BY <1>1, <2>6
  <2> QED
    BY <2>2, <2>5, <2>7 DEF a, b, c
<1> QED
  BY <1>1, <1>3

\* The stream has each frame in its place.
LEMMA FrameInStream ==
  ASSUME NEW lens \in Seq(Nat)
  PROVE  /\ StreamBytes(lens) \in Seq(Bytes)
         /\ Len(StreamBytes(lens)) = EndOf(lens, Len(lens))
         /\ \A f \in 1..Len(lens) : \A i \in 1..(HeaderSize + lens[f]) :
              StreamBytes(lens)[EndOf(lens, f - 1) + i] = Byte(f, i)
<1>1. Len(lens) \in Nat /\ Len(lens) \in 0..Len(lens)
  BY LenProperties
<1>2. StreamBytes(lens) \in Seq(Bytes) /\ Len(StreamBytes(lens)) = EndOf(lens, Len(lens))
  BY <1>1, FirstFramesAre DEF StreamBytes, EndOf
<1>3. ASSUME NEW f \in 1..Len(lens), NEW i \in 1..(HeaderSize + lens[f])
      PROVE  StreamBytes(lens)[EndOf(lens, f - 1) + i] = Byte(f, i)
  <2>1. PICK e \in 0..Len(lens) : e = f - 1 /\ f \in 0..Len(lens) /\ f \in f..Len(lens)
    BY <1>1
  <2>2. /\ EndOf(lens, e) \in Nat /\ EndOf(lens, f) = EndOf(lens, e) + HeaderSize + lens[f]
        /\ HeaderSize \in Nat /\ lens[f] \in Nat
    BY <2>1, EndsAre, FrameBytesAre
  <2>3. PICK j \in Nat : j = EndOf(lens, e) + i /\ j <= EndOf(lens, f) /\ 1 <= j
    BY <2>2
  <2> DEFINE T == {g \in f..Len(lens) : ~ (FirstFrames(lens, g)[j] = Byte(f, i))}
  <2>4. T = {}
    <3> SUFFICES ASSUME T # {} PROVE FALSE
      OBVIOUS
    <3>1. PICK m \in T : \A k \in T : m <= k
      <4>1. T \subseteq Nat
        BY <1>1
      <4> HIDE DEF T
      <4> QED
        BY <4>1, Least
    <3>2. m \in f..Len(lens) /\ ~ (FirstFrames(lens, m)[j] = Byte(f, i))
      OBVIOUS
    <3>3. PICK l \in 0..Len(lens) : l = m - 1 /\ m \in 1..Len(lens) /\ ~ (m <= l)
      BY <1>1, <3>2
    <3> DEFINE a == FirstFrames(lens, l)   b == FrameBytes(lens, m)
    <3>4. a \in Seq(Bytes) /\ b \in Seq(Bytes)
      BY <3>3, FirstFramesAre, FrameBytesAre
    <3>5. FirstFrames(lens, m) = a \o b
      BY <3>3, FirstFramesAre
    <3>6. Len(a) = EndOf(lens, l)
      BY DEF EndOf
    <3>7. CASE m = f
      <4>1. Len(b) = HeaderSize + lens[f] /\ b[i] = Byte(f, i) /\ l = e
        BY <2>1, <3>3, <3>7, FrameBytesAre
      <4> HIDE DEF T, a, b
      <4>2. (a \o b)[Len(a) + i] = b[i]
        BY <3>4, <4>1, ConcatProperties
      <4> QED
        BY <2>3, <3>2, <3>5, <3>6, <4>1, <4>2
    <3>8. CASE m # f
      <4>1. l \in f..Len(lens)
        BY <1>1, <3>2, <3>3, <3>8
      <4>2. a[j] = Byte(f, i)
        BY <3>1, <3>3, <4>1
      <4>3. EndOf(lens, f) <= EndOf(lens, l) /\ EndOf(lens, f) \in Nat /\ EndOf(lens, l) \in Nat
        BY <2>1, <3>3, <4>1, EndsGrow, EndsAre
      <4>4. j \in 1..Len(a)
        BY <2>3, <3>6, <4>3
      <4> HIDE DEF T, a, b
      <4>5. (a \o b)[j] = a[j]
        BY <3>4, <4>4, ConcatProperties
      <4> QED
        BY <3>2, <3>5, <4>2, <4>5
    <3> QED
      BY <3>7, <3>8
  <2>5. Len(lens) \in f..Len(lens)
    BY <1>1
  <2> QED
    BY <2>1, <2>3, <2>4, <2>5 DEF StreamBytes
<1> QED
  BY <1>2, <1>3

\* What the decoder should give of a frame.
Payload0(lens, f) == After(FrameBytes(lens, f), HeaderSize)
Frames(lens, k) == [f \in 1..k |-> [of |-> f, payload |-> Payload0(lens, f)]]
FrameSet == [of : Nat, payload : Seq(Bytes)]

\* A payload is what the stream has from the header to the end of the frame.
LEMMA PayloadInStream ==
  ASSUME NEW lens \in Seq(Nat), NEW f \in 1..Len(lens)
  PROVE  /\ EndOf(lens, f - 1) \in Nat /\ EndOf(lens, f) \in Nat
         /\ EndOf(lens, f - 1) + HeaderSize <= EndOf(lens, f)
         /\ EndOf(lens, f) <= Len(StreamBytes(lens))
         /\ Payload0(lens, f) \in Seq(Bytes) /\ Len(Payload0(lens, f)) = lens[f]
         /\ Payload0(lens, f) = Slice(StreamBytes(lens), EndOf(lens, f - 1) + HeaderSize, EndOf(lens, f))
<1> DEFINE s == StreamBytes(lens)   b == FrameBytes(lens, f)
<1>1. PICK e \in 0..Len(lens) : e = f - 1 /\ f \in 0..Len(lens) /\ Len(lens) \in 0..Len(lens) /\ f <= Len(lens)
  BY LenProperties
<1>2. /\ EndOf(lens, e) \in Nat /\ EndOf(lens, f) \in Nat
      /\ EndOf(lens, f) = EndOf(lens, e) + HeaderSize + lens[f]
      /\ HeaderSize \in Nat /\ lens[f] \in Nat
  BY <1>1, EndsAre, FrameBytesAre
<1>3. EndOf(lens, f) <= Len(s) /\ s \in Seq(Bytes) /\ Len(s) \in Nat
  BY <1>1, EndsGrow, FrameInStream, LenProperties
<1>4. /\ b \in Seq(Bytes) /\ Len(b) = HeaderSize + lens[f]
      /\ \A i \in 1..(HeaderSize + lens[f]) : b[i] = Byte(f, i)
  BY FrameBytesAre
<1>5. \A i \in 1..(HeaderSize + lens[f]) : s[EndOf(lens, e) + i] = Byte(f, i)
  BY <1>1, FrameInStream
<1> HIDE DEF s, b
<1> DEFINE h == HeaderSize   n == HeaderSize + lens[f]   c == EndOf(lens, e) + HeaderSize
           d == EndOf(lens, f)   l == lens[f]
<1>6. /\ h \in Nat /\ n \in Nat /\ c \in Nat /\ d \in Nat /\ l \in Nat
      /\ h <= n /\ c <= d /\ d - c = l /\ n - h = l
      /\ n <= Len(b) /\ d <= Len(s)
  <2> DEFINE p == EndOf(lens, e)
  <2>1. /\ p \in Nat /\ h \in Nat /\ l \in Nat /\ d \in Nat
        /\ d = p + h + l /\ n = h + l /\ c = p + h /\ Len(b) = n /\ d <= Len(s)
    BY <1>2, <1>3, <1>4
  <2> HIDE DEF p, h, l, d, n, c
  <2>2. n \in Nat /\ c \in Nat /\ h <= n /\ c <= d /\ d - c = l /\ n - h = l /\ n <= Len(b)
    BY <2>1
  <2> QED
    BY <2>1, <2>2
<1>7. ASSUME NEW i \in 1..l
      PROVE  h + i \in 1..(HeaderSize + lens[f]) /\ c + i = EndOf(lens, e) + (h + i)
  BY <1>2
<1>8. Payload0(lens, f) = Slice(b, h, n)
  BY <1>4 DEF Payload0, After, Slice, b
<1> HIDE DEF h, n, c, d, l
<1> DEFINE u == Slice(b, h, n)   v == Slice(s, c, d)
<1> HIDE DEF u, v
<1>9. u \in Seq(Bytes) /\ Len(u) = n - h /\ \A i \in 1..(n - h) : u[i] = b[h + i]
  <2>1. /\ h \in Nat /\ n \in Nat /\ h <= n /\ n <= Len(b) /\ b \in Seq(Bytes)
    BY <1>4, <1>6
  <2> QED
    BY <2>1, SliceIs DEF u
<1>10. v \in Seq(Bytes) /\ Len(v) = d - c /\ \A i \in 1..(d - c) : v[i] = s[c + i]
  <2>1. /\ c \in Nat /\ d \in Nat /\ c <= d /\ d <= Len(s) /\ s \in Seq(Bytes)
    BY <1>3, <1>6
  <2> QED
    BY <2>1, SliceIs DEF v
<1>11. u = v
  <2>1. ASSUME NEW i \in 1..l PROVE u[i] = v[i]
    <3>1. b[h + i] = s[EndOf(lens, e) + (h + i)]
      BY <1>4, <1>5, <1>7
    <3>2. u[i] = b[h + i] /\ v[i] = s[c + i]
      BY <1>6, <1>9, <1>10
    <3> QED
      BY <1>7, <3>1, <3>2
  <2>2. Len(u) = l /\ Len(v) = l
    BY <1>6, <1>9, <1>10
  <2> QED
    BY <1>6, <1>9, <1>10, <2>1, <2>2, SameElements
<1>13. Len(u) = lens[f] /\ v = Slice(s, EndOf(lens, e) + HeaderSize, EndOf(lens, f))
  BY <1>6, <1>9 DEF l, v, c, d
<1>12. EndOf(lens, e) + HeaderSize <= EndOf(lens, f)
  BY <1>2
<1> QED
  BY <1>1, <1>2, <1>3, <1>8, <1>9, <1>11, <1>12, <1>13 DEF s, u

\* The sequence of frames.
LEMMA FramesAre ==
  ASSUME NEW lens \in Seq(Nat), NEW k \in 0..Len(lens)
  PROVE  /\ Frames(lens, k) \in Seq(FrameSet) /\ Len(Frames(lens, k)) = k
         /\ \A f \in 1..k : Frames(lens, k)[f] = [of |-> f, payload |-> Payload0(lens, f)]
<1>1. Len(lens) \in Nat /\ k \in Nat
  BY LenProperties
<1>2. \A f \in 1..k : [of |-> f, payload |-> Payload0(lens, f)] \in FrameSet
  BY <1>1, PayloadInStream DEF FrameSet
<1>3. Frames(lens, k) \in [1..k -> FrameSet]
  BY <1>2 DEF Frames
<1>4. Frames(lens, k) \in Seq(FrameSet)
  BY <1>1, <1>3, SeqDef
<1>5. Len(Frames(lens, k)) = k
  BY <1>1, <1>3, <1>4, LenProperties
<1> QED
  BY <1>4, <1>5 DEF Frames

\* All that has come of the stream is given with frame k.
Caught(lens, k, p) == k = Len(lens) \/ p < EndOf(lens, k + 1)

\* The frames that have come whole.
LEMMA WholeIs ==
  ASSUME NEW lens \in Seq(Nat), NEW p \in Nat, NEW k \in 0..Len(lens), EndOf(lens, k) <= p
  PROVE  /\ IsPrefix(Frames(lens, k), Whole(lens, p))
         /\ Caught(lens, k, p) => Frames(lens, k) = Whole(lens, p)
<1>1. Len(lens) \in Nat /\ \A f \in 0..Len(lens) : EndOf(lens, f) \in Nat
  BY LenProperties, EndsAre
<1> DEFINE R == {f \in 0..Len(lens) : EndOf(lens, f) <= p}
<1>2. PICK m \in R : \A f \in R : f <= m
  <2>1. R \subseteq Int /\ R # {}
    OBVIOUS
  <2>2. IsFiniteSet(R)
    <3>1. IsFiniteSet(0..Len(lens)) /\ R \subseteq 0..Len(lens)
      BY <1>1, FS_Interval
    <3> QED
      BY <3>1, FS_Subset
  <2> HIDE DEF R
  <2> QED
    BY <2>1, <2>2, Greatest
<1>3. m \in 0..Len(lens) /\ EndOf(lens, m) <= p
  OBVIOUS
<1>4. k <= m
  BY <1>2
<1> DEFINE C == {f \in DOMAIN lens : Len(FirstFrames(lens, f)) <= p}
<1>5. C = 1..m
  <2>1. DOMAIN lens = 1..Len(lens)
    BY LenProperties
  <2>2. ASSUME NEW f \in C PROVE f \in 1..m
    <3>1. f \in 1..Len(lens) /\ EndOf(lens, f) <= p
      BY <2>1 DEF EndOf
    <3>2. f <= m
      BY <1>1, <1>2, <3>1
    <3> QED
      BY <1>1, <3>1, <3>2
  <2>3. ASSUME NEW f \in 1..m PROVE f \in C
    <3>1. f \in 1..Len(lens) /\ f \in 0..Len(lens) /\ f <= m
      BY <1>1, <1>3
    <3>2. EndOf(lens, f) <= EndOf(lens, m)
      BY <1>3, <3>1, EndsGrow
    <3>3. EndOf(lens, f) <= p
      <4>1. EndOf(lens, f) \in Nat /\ EndOf(lens, m) \in Nat
        BY <1>1, <1>3, <3>1
      <4> QED
        BY <1>3, <3>2, <4>1
    <3> QED
      BY <2>1, <3>1, <3>3 DEF EndOf
  <2> HIDE DEF C
  <2> QED
    BY <2>2, <2>3
<1>6. Cardinality(C) = m
  <2>1. Cardinality(1..m) = m
    BY <1>3, FS_Interval
  <2> QED
    BY <1>5, <2>1
<1>7. Whole(lens, p) = Frames(lens, m)
  <2> HIDE DEF C
  <2>1. Whole(lens, p) = [f \in 1..Cardinality(C) |-> [of |-> f, payload |-> Payload0(lens, f)]]
    BY DEF Whole, Payload0, C
  <2> QED
    BY <1>6, <2>1 DEF Frames
<1> HIDE DEF C, R
<1>8. IsPrefix(Frames(lens, k), Frames(lens, m))
  <2>1. /\ Frames(lens, k) \in Seq(FrameSet) /\ Len(Frames(lens, k)) = k
        /\ \A f \in 1..k : Frames(lens, k)[f] = [of |-> f, payload |-> Payload0(lens, f)]
    BY FramesAre
  <2>2. /\ Frames(lens, m) \in Seq(FrameSet) /\ Len(Frames(lens, m)) = m
        /\ \A f \in 1..m : Frames(lens, m)[f] = [of |-> f, payload |-> Payload0(lens, f)]
    BY <1>3, FramesAre
  <2>3. \A f \in 1..k : f \in 1..m
    BY <1>1, <1>3, <1>4
  <2>4. \A f \in 1..Len(Frames(lens, k)) : Frames(lens, m)[f] = Frames(lens, k)[f]
    BY <2>1, <2>2, <2>3, Zenon
  <2>5. Len(Frames(lens, k)) <= Len(Frames(lens, m))
    BY <1>4, <2>1, <2>2
  <2> QED
    BY <2>1, <2>2, <2>4, <2>5, PrefixByElements
<1>9. ASSUME Caught(lens, k, p) PROVE k = m
  <2>1. CASE k = Len(lens)
    BY <1>1, <1>3, <1>4, <2>1
  <2>2. CASE k # Len(lens) /\ k # m
    <3>1. k + 1 \in 0..Len(lens) /\ k + 1 <= m
      BY <1>1, <1>3, <1>4, <2>2
    <3>2. EndOf(lens, k + 1) <= EndOf(lens, m)
      BY <1>3, <3>1, EndsGrow
    <3>3. EndOf(lens, k + 1) \in Nat /\ EndOf(lens, m) \in Nat /\ p < EndOf(lens, k + 1)
      BY <1>1, <1>3, <1>9, <2>2, <3>1 DEF Caught
    <3> QED
      BY <1>3, <3>2, <3>3
  <2> QED
    BY <2>1, <2>2
<1> QED
  BY <1>7, <1>8, <1>9

-----------------------------------------------------------------------------
(* The decoder                                                             *)

\* The decoder stands between two frames: k are given and p bytes have come.
Between(d, k, p) ==
  /\ EndOf(shape, k) <= p
  /\ d = [buffer |-> Slice(StreamBytes(shape), EndOf(shape, k), p), frame |-> 0,
          payload |-> <<>>, left |-> 0]

\* It has begun the frame after them, and taken the stream as far as q.
Within(d, k, p, q) ==
  /\ k + 1 \in 1..Len(shape)
  /\ EndOf(shape, k) + HeaderSize <= q /\ q <= p /\ q < EndOf(shape, k + 1)
  /\ d = [buffer |-> Slice(StreamBytes(shape), q, p), frame |-> k + 1,
          payload |-> Slice(StreamBytes(shape), EndOf(shape, k) + HeaderSize, q),
          left |-> EndOf(shape, k + 1) - q]

DecoderAt(d, k, p) == Between(d, k, p) \/ \E q \in Nat : Within(d, k, p, q)

\* What nextFrame gives: the next frame, whole, if all of it has come.
NextIs(r, k, p) ==
  \/ /\ r.error = "none" /\ k + 1 \in 1..Len(shape) /\ EndOf(shape, k + 1) <= p
     /\ r.frame = k + 1 /\ r.payload = Payload0(shape, k + 1)
     /\ Between(r.decoder, k + 1, p)
  \/ /\ r.error \in {"noHeader", "bodyNotFull"}
     /\ DecoderAt(r.decoder, k, p) /\ Caught(shape, k, p)

\* It begins at the header of the next frame.
LEMMA BeginIs ==
  ASSUME shape \in Seq(Nat), NEW k \in 0..Len(shape), NEW p \in Nat,
         p <= Len(StreamBytes(shape)), NEW d, Between(d, k, p)
  PROVE  NextIs(NextFrame(d), k, p)
<1> DEFINE s == StreamBytes(shape)   a == EndOf(shape, k)   h == HeaderSize   n == Len(shape)
           b == Slice(s, a, p)
<1>1. /\ n \in Nat /\ h \in Nat \ {0} /\ a \in Nat /\ s \in Seq(Bytes) /\ Len(s) = EndOf(shape, n)
      /\ a <= p /\ p <= Len(s)
  BY LenProperties, DecoderAssumption, EndsAre, FrameInStream DEF Between
<1>2. d = [buffer |-> b, frame |-> 0, payload |-> <<>>, left |-> 0]
  BY DEF Between
<1>3. d.buffer = b /\ d.left = 0 /\ d.frame = 0 /\ d.payload = <<>>
  BY <1>2
<1>4. b \in Seq(Bytes) /\ Len(b) = p - a /\ \A i \in 1..(p - a) : b[i] = s[a + i]
  <2> HIDE DEF s, a, b, h, n
  <2>1. s \in Seq(Bytes) /\ a \in Nat /\ a <= p /\ p <= Len(s)
    BY <1>1
  <2> QED
    BY <2>1, SliceIs DEF b
<1>5. CASE Len(b) < h
  <2>1. NextFrame(d) = Result(d, 0, <<>>, "noHeader")
    BY <1>3, <1>5 DEF NextFrame
  <2>2. Caught(shape, k, p)
    <3>1. CASE k = n
      BY <3>1 DEF Caught
    <3>2. CASE k # n
      <4>1. k + 1 \in 1..n /\ k + 1 - 1 = k
        BY <1>1, <3>2
      <4>2. EndOf(shape, k + 1) = a + h + shape[k + 1] /\ shape[k + 1] \in Nat
        BY <4>1, EndsAre, ElementOfSeq
      <4> DEFINE l == shape[k + 1]   c == EndOf(shape, k + 1)
      <4> HIDE DEF l, c, a, b, h
      <4>3. c = a + h + l /\ l \in Nat
        BY <4>2 DEF c, l, a, h
      <4>4. p < c
        BY <1>1, <1>4, <1>5, <4>3
      <4> QED
        BY <4>4 DEF Caught, c
    <3> QED
      BY <3>1, <3>2
  <2> QED
    BY <2>1, <2>2 DEF NextIs, Result, DecoderAt
<1>6. CASE ~ (Len(b) < h)
  <2>1. k # n
    <3>1. CASE k = n
      <4>1. a = Len(s)
        BY <1>1, <3>1
      <4> HIDE DEF a, s, b, h
      <4>2. p - a = 0
        BY <1>1, <4>1
      <4> QED
        BY <1>1, <1>4, <1>6, <4>2
    <3> QED
      BY <3>1
  <2>2. k + 1 \in 1..n /\ k + 1 - 1 = k
    BY <1>1, <2>1
  <2> DEFINE l == shape[k + 1]   c == EndOf(shape, k + 1)   t == h + l
  <2>3. c = a + h + l /\ l \in Nat
    BY <2>2, EndsAre, ElementOfSeq
  <2>4. Head(b) = Byte(k + 1, 1)
    <3>1. 1 \in 1..(h + l) /\ 1 \in 1..(p - a)
      <4> HIDE DEF a, b, h, l
      <4> QED
        BY <1>1, <1>4, <1>6, <2>3
    <3>2. s[EndOf(shape, k + 1 - 1) + 1] = Byte(k + 1, 1)
      BY <2>2, <3>1, FrameInStream
    <3>3. b[1] = s[a + 1]
      BY <1>4, <3>1
    <3>4. b # <<>>
      <4> HIDE DEF a, b
      <4> QED
        BY <1>4, <3>1
    <3>5. Head(b) = b[1]
      <4> HIDE DEF b
      <4> QED
        BY <1>4, <3>4, HeadTailProperties
    <3> QED
      BY <2>2, <3>2, <3>3, <3>5
  <2>5. Head(b).of = k + 1 /\ Head(b).at = 1
    BY <2>4 DEF Byte
  <2>6. NextFrame(d) = Begin(d)
    <3> HIDE DEF b, h
    <3> QED
      BY <1>3, <1>6, <2>5 DEF NextFrame, h
  <2>7. /\ t \in Nat /\ h \in Nat /\ c = a + t /\ h <= t /\ c \in Nat /\ a + h \in Nat
    <3> HIDE DEF a, h, l, c
    <3> QED
      BY <1>1, <2>3
  <2>8. CASE Len(b) >= t
    <3>1. Begin(d) = Result([Empty EXCEPT !.buffer = After(b, t)], k + 1, SubSeq(b, h + 1, t), "none")
      <4> HIDE DEF b
      <4> QED
        BY <1>3, <2>5, <2>8 DEF Begin
    <3>2. t <= p - a /\ c <= p /\ a + t = c
      <4> HIDE DEF a, b, t, c
      <4> QED
        BY <1>1, <1>4, <2>7, <2>8
    <3>3. After(b, t) = Slice(s, c, p)
      <4> HIDE DEF s, a, t, c
      <4>1. After(Slice(s, a, p), t) = Slice(s, a + t, p)
        BY <1>1, <2>7, <3>2, AfterSlice
      <4> QED
        BY <3>2, <4>1
    <3>4. SubSeq(b, h + 1, t) = Payload0(shape, k + 1)
      <4>1. SubSeq(b, h + 1, t) = Slice(b, h, t)
        BY DEF Slice
      <4>2. Slice(Slice(s, a, p), h, t) = Slice(s, a + h, a + t)
        <5> HIDE DEF s, a, t, c, h
        <5> QED
          BY <1>1, <2>7, <3>2, SliceOfSlice
      <4>3. Payload0(shape, k + 1) = Slice(s, EndOf(shape, k + 1 - 1) + h, c)
        BY <2>2, PayloadInStream
      <4> HIDE DEF s, t, c, h
      <4> QED
        BY <2>2, <3>2, <4>1, <4>2, <4>3
    <3>5. Between([Empty EXCEPT !.buffer = After(b, t)], k + 1, p)
      BY <3>2, <3>3 DEF Between, Empty
    <3> HIDE DEF b, t
    <3> QED
      BY <2>2, <2>6, <3>1, <3>2, <3>4, <3>5 DEF NextIs, Result
  <2>9. CASE ~ (Len(b) >= t)
    <3> DEFINE e == [buffer |-> <<>>, frame |-> k + 1, payload |-> SubSeq(b, h + 1, Len(b)),
                     left |-> t - Len(b)]
    <3>1. Begin(d) = Result(e, k + 1, SubSeq(b, h + 1, Len(b)), "bodyNotFull")
      <4> HIDE DEF b
      <4> QED
        BY <1>3, <2>5, <2>9 DEF Begin
    <3>2. /\ p - a < t /\ p < c /\ t - Len(b) = c - p /\ a + h <= p /\ h <= p - a
          /\ p - a \in Nat /\ a + (p - a) = p
      <4> HIDE DEF a, b, t, c, h
      <4> QED
        BY <1>1, <1>4, <1>6, <2>7, <2>9
    <3>3. SubSeq(b, h + 1, Len(b)) = Slice(s, a + h, p)
      <4>1. SubSeq(b, h + 1, Len(b)) = Slice(b, h, p - a)
        BY <1>4 DEF Slice
      <4>2. Slice(Slice(s, a, p), h, p - a) = Slice(s, a + h, a + (p - a))
        <5> HIDE DEF s, a, t, c, h
        <5> QED
          BY <1>1, <2>7, <3>2, SliceOfSlice
      <4> QED
        BY <3>2, <4>1, <4>2
    <3>4. Slice(s, p, p) = <<>>
      <4> HIDE DEF s
      <4> QED
        BY <1>1, WholeSlice, LenProperties
    <3>5. Within(e, k, p, p)
      <4>1. e = [buffer |-> Slice(s, p, p), frame |-> k + 1, payload |-> Slice(s, a + h, p),
                 left |-> c - p]
        <5> HIDE DEF b, t, s, a, h, c
        <5> QED
          BY <3>2, <3>3, <3>4, Zenon
      <4>2. p <= p
        BY <1>1
      <4> HIDE DEF e
      <4> QED
        BY <2>2, <3>2, <4>1, <4>2 DEF Within
    <3>6. Caught(shape, k, p)
      BY <3>2 DEF Caught
    <3> HIDE DEF e, b, t
    <3> QED
      BY <2>6, <3>1, <3>5, <3>6 DEF NextIs, Result, DecoderAt
  <2> QED
    BY <2>8, <2>9
<1> QED
  BY <1>5, <1>6

\* It takes what the pending frame lacks, as far as it is there.
LEMMA ContinueIs ==
  ASSUME shape \in Seq(Nat), NEW k \in 0..Len(shape), NEW p \in Nat,
         p <= Len(StreamBytes(shape)), NEW d, NEW q \in Nat, Within(d, k, p, q)
  PROVE  NextIs(NextFrame(d), k, p)
<1> DEFINE s == StreamBytes(shape)   a == EndOf(shape, k) + HeaderSize   c == EndOf(shape, k + 1)
           b == Slice(s, q, p)   y == Slice(s, a, q)   n == Len(shape)   z == c - q
<1>1. /\ s \in Seq(Bytes) /\ a \in Nat /\ c \in Nat /\ a <= q /\ q <= p /\ q < c /\ p <= Len(s)
      /\ k + 1 \in 1..n /\ k + 1 - 1 = k /\ c <= Len(s) /\ Payload0(shape, k + 1) = Slice(s, a, c)
  <2>1. k + 1 \in 1..n /\ k + 1 - 1 = k
    BY LenProperties DEF Within
  <2>2. EndOf(shape, k) \in Nat /\ HeaderSize \in Nat /\ s \in Seq(Bytes)
    BY DecoderAssumption, EndsAre, FrameInStream
  <2>3. /\ EndOf(shape, k + 1) \in Nat /\ EndOf(shape, k + 1) <= Len(s)
        /\ Payload0(shape, k + 1) = Slice(s, EndOf(shape, k + 1 - 1) + HeaderSize, EndOf(shape, k + 1))
    BY <2>1, PayloadInStream
  <2>4. a <= q /\ q <= p /\ q < c /\ p <= Len(s)
    BY DEF Within
  <2>5. a \in Nat
    BY <2>2
  <2>6. Payload0(shape, k + 1) = Slice(s, a, c)
    <3> HIDE DEF s
    <3> QED
      BY <2>1, <2>3
  <2> HIDE DEF s
  <2>7. c \in Nat /\ c <= Len(s) /\ s \in Seq(Bytes)
    BY <2>2, <2>3
  <2> HIDE DEF a, c, n
  <2> QED
    BY <2>1, <2>4, <2>5, <2>6, <2>7 DEF n
<1>2. d = [buffer |-> b, frame |-> k + 1, payload |-> y, left |-> z]
  BY DEF Within
<1>3. d.buffer = b /\ d.left = z /\ d.frame = k + 1 /\ d.payload = y
  BY <1>2
<1>4. z \in Nat /\ z > 0 /\ Len(b) = p - q /\ p - q \in Nat /\ q + z = c /\ q + (p - q) = p
  <2>1. Len(b) = p - q
    <3> HIDE DEF s, a, c, b
    <3>1. s \in Seq(Bytes) /\ q <= p /\ p <= Len(s)
      BY <1>1
    <3> QED
      BY <3>1, SliceIs DEF b
  <2> HIDE DEF s, a, c, b
  <2> QED
    BY <1>1, <2>1
<1>5. NextFrame(d) = Continue(d)
  <2> HIDE DEF b, z
  <2> QED
    BY <1>3, <1>4 DEF NextFrame
<1> DEFINE more(j) == [d EXCEPT !.buffer = After(@, j), !.payload = y \o SubSeq(b, 1, j), !.left = @ - j]
<1>6. ASSUME NEW j \in Nat, j <= p - q
      PROVE  /\ y \o SubSeq(b, 1, j) = Slice(s, a, q + j)
             /\ After(b, j) = Slice(s, q + j, p)
             /\ more(j) = [buffer |-> Slice(s, q + j, p), frame |-> k + 1,
                           payload |-> Slice(s, a, q + j), left |-> z - j]
  <2>1. q + j \in Nat /\ q <= q + j /\ q + j <= Len(s) /\ 0 <= j /\ q + 0 = q
    <3> HIDE DEF s, a, c, b, y, z
    <3> QED
      BY <1>1, <1>6, LenProperties
  <2>2. SubSeq(b, 1, j) = Slice(s, q, q + j)
    <3>1. SubSeq(b, 1, j) = Slice(b, 0, j)
      BY DEF Slice
    <3> HIDE DEF s, a, c, z, y
    <3>2. Slice(Slice(s, q, p), 0, j) = Slice(s, q + 0, q + j)
      BY <1>1, <1>6, <2>1, SliceOfSlice
    <3> QED
      BY <2>1, <3>1, <3>2
  <2>3. y \o SubSeq(b, 1, j) = Slice(s, a, q + j)
    <3> HIDE DEF s, a, c, z, b
    <3>1. Slice(s, a, q) \o Slice(s, q, q + j) = Slice(s, a, q + j)
      BY <1>1, <2>1, SlicesJoin
    <3> QED
      BY <2>2, <3>1
  <2>4. After(b, j) = Slice(s, q + j, p)
    <3> HIDE DEF s, a, c, z, y
    <3> QED
      BY <1>1, <1>6, AfterSlice
  <2> HIDE DEF s, a, c, z, y, b
  <2> DEFINE front == Slice(s, a, q + j)   back == Slice(s, q + j, p)
  <2>5. more(j) = [d EXCEPT !.buffer = back, !.payload = front, !.left = z - j]
    BY <1>3, <2>3, <2>4
  <2> HIDE DEF more, front, back
  <2>6. more(j) = [buffer |-> back, frame |-> k + 1, payload |-> front, left |-> z - j]
    BY <1>2, <2>5
  <2> QED
    BY <2>3, <2>4, <2>6 DEF front, back
<1>7. Continue(d) = LET j == IF z < Len(b) THEN z ELSE Len(b)
                    IN  IF more(j).left = 0
                        THEN Result([Empty EXCEPT !.buffer = more(j).buffer], k + 1,
                                    y \o SubSeq(b, 1, j), "none")
                        ELSE Result(more(j), k + 1, y \o SubSeq(b, 1, j), "bodyNotFull")
  <2> HIDE DEF s, a, c, z, y, b
  <2> QED
    BY <1>3 DEF Continue
<1> HIDE DEF more, z, y, b
<1>8. CASE z <= p - q
  <2>1. (IF z < Len(b) THEN z ELSE Len(b)) = z /\ c <= p /\ z - z = 0
    <3> HIDE DEF s, a, c
    <3> QED
      BY <1>1, <1>4, <1>8
  <2>2. more(z).left = 0 /\ more(z).buffer = Slice(s, c, p) /\ y \o SubSeq(b, 1, z) = Slice(s, a, c)
    <3>1. more(z) = [buffer |-> Slice(s, q + z, p), frame |-> k + 1,
                     payload |-> Slice(s, a, q + z), left |-> z - z]
      BY <1>4, <1>6, <1>8
    <3>2. y \o SubSeq(b, 1, z) = Slice(s, a, q + z)
      BY <1>4, <1>6, <1>8
    <3> HIDE DEF s, a, c
    <3> QED
      BY <1>4, <2>1, <3>1, <3>2
  <2>3. NextFrame(d) = Result([Empty EXCEPT !.buffer = Slice(s, c, p)], k + 1, Slice(s, a, c), "none")
    <3> HIDE DEF s, a, c
    <3> QED
      BY <1>5, <1>7, <2>1, <2>2
  <2>4. Between([Empty EXCEPT !.buffer = Slice(s, c, p)], k + 1, p)
    BY <2>1 DEF Between, Empty
  <2> QED
    BY <1>1, <2>1, <2>3, <2>4 DEF NextIs, Result
<1>9. CASE ~ (z <= p - q)
  <2>1. /\ (IF z < Len(b) THEN z ELSE Len(b)) = p - q /\ p < c /\ z - (p - q) = c - p
        /\ ~ (z - (p - q) = 0) /\ p - q <= p - q /\ a <= p /\ p <= p
    <3>1. z = c - q
      BY DEF z
    <3> HIDE DEF s, a, c
    <3> QED
      BY <1>1, <1>4, <1>9, <3>1
  <2>2. more(p - q) = [buffer |-> Slice(s, p, p), frame |-> k + 1,
                       payload |-> Slice(s, a, p), left |-> c - p]
    <3>1. more(p - q) = [buffer |-> Slice(s, q + (p - q), p), frame |-> k + 1,
                         payload |-> Slice(s, a, q + (p - q)), left |-> z - (p - q)]
      BY <1>4, <1>6, <2>1
    <3> HIDE DEF s, a, c
    <3> QED
      BY <1>4, <2>1, <3>1
  <2>3. more(p - q).left # 0
    <3> HIDE DEF s, a, c
    <3> QED
      BY <2>1, <2>2
  <2>4. NextFrame(d) = Result(more(p - q), k + 1, y \o SubSeq(b, 1, p - q), "bodyNotFull")
    <3> HIDE DEF s, a, c
    <3> QED
      BY <1>5, <1>7, <2>1, <2>3
  <2>5. Within(more(p - q), k, p, p)
    BY <1>1, <2>1, <2>2 DEF Within
  <2>6. Caught(shape, k, p)
    BY <2>1 DEF Caught
  <2> QED
    BY <2>4, <2>5, <2>6 DEF NextIs, Result, DecoderAt
<1> QED
  BY <1>8, <1>9

\* Either way.
LEMMA NextFrameIs ==
  ASSUME shape \in Seq(Nat), NEW k \in 0..Len(shape), NEW p \in Nat,
         p <= Len(StreamBytes(shape)), NEW d, DecoderAt(d, k, p)
  PROVE  NextIs(NextFrame(d), k, p)
BY BeginIs, ContinueIs DEF DecoderAt

-----------------------------------------------------------------------------
(* The connector's queue                                                   *)

QuietOps == {"open", "request", "close"}
Jobs == [op : {"data"}, bytes : Seq(Bytes)] \cup [op : {"stopped"} \cup QuietOps]

\* Where a job ends in the stream that began it at one place.
JobTakes(job, s, a, b) == IF job.op = "data" THEN job.bytes = Slice(s, a, b) ELSE a = b

\* The chunks in the queue are the stream from one place to another.
Cuts(q, s, a, b, c) ==
  /\ c \in [0..Len(q) -> Nat] /\ c[0] = a /\ c[Len(q)] = b
  /\ \A i \in 1..Len(q) : c[i - 1] <= c[i] /\ c[i] <= b /\ JobTakes(q[i], s, c[i - 1], c[i])
InQueue(q, s, a, b) == \E c : Cuts(q, s, a, b, c)

\* A job is added.
LEMMA JobAdded ==
  ASSUME NEW q \in Seq(Jobs), NEW job \in Jobs, NEW s, NEW a \in Nat, NEW b \in Nat,
         NEW d \in Nat, b <= d, JobTakes(job, s, b, d), InQueue(q, s, a, b)
  PROVE  InQueue(Append(q, job), s, a, d)
<1> DEFINE n == Len(q)   r == Append(q, job)
<1>1. PICK c : Cuts(q, s, a, b, c)
  BY DEF InQueue
<1>2. /\ n \in Nat /\ r \in Seq(Jobs) /\ Len(r) = n + 1 /\ r[n + 1] = job
      /\ \A i \in 1..n : r[i] = q[i]
  BY LenProperties, AppendProperties
<1>3. /\ c \in [0..n -> Nat] /\ c[0] = a /\ c[n] = b
      /\ \A i \in 1..n : c[i - 1] <= c[i] /\ c[i] <= b /\ JobTakes(q[i], s, c[i - 1], c[i])
  BY <1>1 DEF Cuts
<1> DEFINE e == [i \in 0..(n + 1) |-> IF i = n + 1 THEN d ELSE c[i]]
<1> HIDE DEF n, r
<1>4. /\ e \in [0..(n + 1) -> Nat] /\ e[n + 1] = d
      /\ \A i \in 0..n : e[i] = c[i]
  BY <1>2, <1>3
<1> HIDE DEF e
<1>5. e[0] = a /\ e[n] = b
  BY <1>2, <1>3, <1>4
<1>6. ASSUME NEW i \in 1..(n + 1)
      PROVE  e[i - 1] <= e[i] /\ e[i] <= d /\ JobTakes(r[i], s, e[i - 1], e[i])
  <2>1. CASE i = n + 1
    <3>1. i - 1 = n
      BY <1>2, <2>1
    <3>2. e[i - 1] = b /\ e[i] = d /\ r[i] = job
      BY <1>2, <1>4, <1>5, <2>1, <3>1
    <3> QED
      BY <3>2
  <2>2. CASE i # n + 1
    <3>1. i \in 1..n /\ i \in 0..n /\ i - 1 \in 0..n
      BY <1>2, <2>2
    <3>2. e[i] = c[i] /\ e[i - 1] = c[i - 1] /\ r[i] = q[i] /\ c[i] \in Nat
      BY <1>2, <1>3, <1>4, <3>1
    <3>3. c[i - 1] <= c[i] /\ c[i] <= b /\ JobTakes(q[i], s, c[i - 1], c[i])
      BY <1>3, <3>1
    <3>4. c[i] <= d
      BY <3>2, <3>3
    <3> QED
      BY <3>2, <3>3, <3>4
  <2> QED
    BY <2>1, <2>2
<1>7. Cuts(r, s, a, d, e)
  BY <1>2, <1>4, <1>5, <1>6 DEF Cuts
<1> QED
  BY <1>7 DEF InQueue, r

\* The first job is taken.
LEMMA JobTaken ==
  ASSUME NEW q \in Seq(Jobs), q # <<>>, NEW s, NEW a \in Nat, NEW b \in Nat, InQueue(q, s, a, b)
  PROVE  \E m \in Nat : /\ a <= m /\ m <= b /\ JobTakes(Head(q), s, a, m)
                        /\ InQueue(Tail(q), s, m, b)
<1> DEFINE n == Len(q)   r == Tail(q)
<1>1. PICK c : Cuts(q, s, a, b, c)
  BY DEF InQueue
<1>2. /\ n \in Nat \ {0} /\ r \in Seq(Jobs) /\ Len(r) = n - 1 /\ Head(q) = q[1]
      /\ \A i \in 1..(n - 1) : r[i] = q[i + 1]
  BY LenProperties, HeadTailProperties, EmptySeq
<1>3. /\ c \in [0..n -> Nat] /\ c[0] = a /\ c[n] = b
      /\ \A i \in 1..n : c[i - 1] <= c[i] /\ c[i] <= b /\ JobTakes(q[i], s, c[i - 1], c[i])
  BY <1>1 DEF Cuts
<1> HIDE DEF n, r
<1> DEFINE e == [i \in 0..(n - 1) |-> c[i + 1]]   m == c[1]
<1>4. /\ 1 \in 1..n /\ 1 - 1 = 0 /\ 1 \in 0..n
  BY <1>2
<1>5. m \in Nat /\ a <= m /\ m <= b /\ JobTakes(q[1], s, a, m)
  BY <1>3, <1>4
<1>6. /\ \A i \in 0..(n - 1) : i + 1 \in 0..n
      /\ n - 1 \in 0..(n - 1) /\ 0 \in 0..(n - 1) /\ n - 1 + 1 = n
  BY <1>2
<1>7. e \in [0..(n - 1) -> Nat] /\ e[0] = m /\ e[n - 1] = b
  BY <1>3, <1>6
<1>8. ASSUME NEW i \in 1..(n - 1)
      PROVE  e[i - 1] <= e[i] /\ e[i] <= b /\ JobTakes(r[i], s, e[i - 1], e[i])
  <2>1. PICK j \in 1..n : j = i + 1 /\ j - 1 = i /\ i \in 0..(n - 1) /\ i - 1 \in 0..(n - 1) /\ i - 1 + 1 = i
    BY <1>2
  <2>2. e[i] = c[j] /\ e[i - 1] = c[i] /\ r[i] = q[j]
    BY <1>2, <2>1
  <2>3. c[j - 1] <= c[j] /\ c[j] <= b /\ JobTakes(q[j], s, c[j - 1], c[j])
    BY <1>3
  <2> HIDE DEF e
  <2> QED
    BY <2>1, <2>2, <2>3
<1> HIDE DEF e, m
<1>9. Cuts(r, s, m, b, e)
  BY <1>2, <1>7, <1>8 DEF Cuts
<1> QED
  BY <1>2, <1>5, <1>9 DEF InQueue, r

\* A queue without chunks.
LEMMA NoChunks ==
  ASSUME NEW q \in Seq(Jobs), \A i \in 1..Len(q) : q[i].op # "data", NEW s, NEW a \in Nat
  PROVE  InQueue(q, s, a, a)
<1> DEFINE c == [i \in 0..Len(q) |-> a]
<1>1. Len(q) \in Nat
  BY LenProperties
<1>2. c \in [0..Len(q) -> Nat] /\ c[0] = a /\ c[Len(q)] = a
  BY <1>1
<1>3. ASSUME NEW i \in 1..Len(q)
      PROVE  c[i - 1] <= c[i] /\ c[i] <= a /\ JobTakes(q[i], s, c[i - 1], c[i])
  <2>1. i - 1 \in 0..Len(q) /\ i \in 0..Len(q)
    BY <1>1
  <2>2. c[i - 1] = a /\ c[i] = a
    BY <2>1
  <2> HIDE DEF c
  <2> QED
    BY <2>2 DEF JobTakes
<1> HIDE DEF c
<1> QED
  BY <1>2, <1>3 DEF InQueue, Cuts

\* What the jobs in the queue may be, by whether there is a session and it runs.
Running(q) == \A i \in 1..Len(q) : q[i].op # "stopped"
Stopping(q) ==
  \E m \in 1..Len(q) :
    /\ q[m].op = "stopped"
    /\ \A i \in 1..Len(q) : (i # m => q[i].op # "stopped") /\ (m < i => q[i].op # "data")
Quiet(q) == \A i \in 1..Len(q) : q[i].op \in QuietOps

\* A job of another kind is added, a chunk, or the end of the session.
LEMMA JobsAdded ==
  ASSUME NEW q \in Seq(Jobs), NEW job \in Jobs
  PROVE  /\ Append(q, job) \in Seq(Jobs)
         /\ job.op # "stopped" /\ Running(q) => Running(Append(q, job))
         /\ job.op \in QuietOps /\ Quiet(q) => Quiet(Append(q, job))
         /\ job.op \in QuietOps /\ Stopping(q) => Stopping(Append(q, job))
         /\ job.op = "stopped" /\ Running(q) => Stopping(Append(q, job))
<1> DEFINE n == Len(q)   r == Append(q, job)
<1>1. /\ n \in Nat /\ r \in Seq(Jobs) /\ Len(r) = n + 1 /\ r[n + 1] = job
      /\ \A i \in 1..n : r[i] = q[i]
  BY LenProperties, AppendProperties
<1> HIDE DEF n, r
<1>2. \A i \in 1..(n + 1) : i \in 1..n \/ i = n + 1
  BY <1>1
<1>3. job.op # "stopped" /\ Running(q) => Running(r)
  BY <1>1, <1>2 DEF Running, n
<1>4. job.op \in QuietOps /\ Quiet(q) => Quiet(r)
  BY <1>1, <1>2 DEF Quiet, n
<1>5. ASSUME job.op \in QuietOps, Stopping(q) PROVE Stopping(r)
  <2>1. PICK m \in 1..n :
          /\ q[m].op = "stopped"
          /\ \A i \in 1..n : (i # m => q[i].op # "stopped") /\ (m < i => q[i].op # "data")
    BY <1>5 DEF Stopping, n
  <2>2. m \in 1..(n + 1) /\ r[m].op = "stopped"
    BY <1>1, <2>1
  <2>3. job.op # "stopped" /\ job.op # "data"
    BY <1>5 DEF QuietOps
  <2>4. \A i \in 1..(n + 1) : (i # m => r[i].op # "stopped") /\ (m < i => r[i].op # "data")
    BY <1>1, <1>2, <2>1, <2>3
  <2> QED
    BY <1>1, <2>2, <2>4 DEF Stopping
<1>6. ASSUME job.op = "stopped", Running(q) PROVE Stopping(r)
  <2>1. n + 1 \in 1..(n + 1) /\ r[n + 1].op = "stopped"
    BY <1>1, <1>6
  <2>2. \A i \in 1..(n + 1) : i # n + 1 => r[i].op # "stopped"
    BY <1>1, <1>2, <1>6 DEF Running, n
  <2>3. \A i \in 1..(n + 1) : ~ (n + 1 < i)
    BY <1>1
  <2> QED
    BY <1>1, <2>1, <2>2, <2>3 DEF Stopping
<1> QED
  BY <1>1, <1>3, <1>4, <1>5, <1>6 DEF r

\* The first is taken.
LEMMA JobsTaken ==
  ASSUME NEW q \in Seq(Jobs), q # <<>>
  PROVE  /\ Tail(q) \in Seq(Jobs) /\ Head(q) \in Jobs
         /\ Running(q) => Running(Tail(q)) /\ Head(q).op # "stopped"
         /\ Quiet(q) => Quiet(Tail(q)) /\ Head(q).op \in QuietOps
         /\ Stopping(q) /\ Head(q).op # "stopped" => Stopping(Tail(q))
         /\ Stopping(q) /\ Head(q).op = "stopped" => Quiet(Tail(q))
<1> DEFINE n == Len(q)   r == Tail(q)
<1>1. /\ n \in Nat \ {0} /\ r \in Seq(Jobs) /\ Len(r) = n - 1 /\ Head(q) = q[1] /\ Head(q) \in Jobs
      /\ \A i \in 1..(n - 1) : r[i] = q[i + 1] /\ r[i] \in Jobs
  BY LenProperties, HeadTailProperties, EmptySeq, ElementOfSeq
<1> HIDE DEF n, r
<1>2. 1 \in 1..n /\ \A i \in 1..(n - 1) : i + 1 \in 1..n
  BY <1>1
<1>3. Running(q) => Running(r) /\ Head(q).op # "stopped"
  BY <1>1, <1>2 DEF Running, n
<1>4. Quiet(q) => Quiet(r) /\ Head(q).op \in QuietOps
  BY <1>1, <1>2 DEF Quiet, n
<1>5. ASSUME Stopping(q), Head(q).op # "stopped" PROVE Stopping(r)
  <2>1. PICK m \in 1..n :
          /\ q[m].op = "stopped"
          /\ \A i \in 1..n : (i # m => q[i].op # "stopped") /\ (m < i => q[i].op # "data")
    BY <1>5 DEF Stopping, n
  <2>2. m # 1
    BY <1>1, <1>5, <2>1
  <2>3. m - 1 \in 1..(n - 1) /\ m - 1 + 1 = m
    BY <1>1, <2>2
  <2>4. r[m - 1].op = "stopped"
    BY <1>1, <2>1, <2>3
  <2>5. ASSUME NEW i \in 1..(n - 1)
        PROVE  (i # m - 1 => r[i].op # "stopped") /\ (m - 1 < i => r[i].op # "data")
    <3>1. r[i] = q[i + 1] /\ i + 1 \in 1..n
      BY <1>1, <1>2
    <3>2. (i # m - 1 => i + 1 # m) /\ (m - 1 < i => m < i + 1)
      OBVIOUS
    <3> QED
      BY <2>1, <3>1, <3>2
  <2> QED
    BY <1>1, <2>3, <2>4, <2>5 DEF Stopping
<1>6. ASSUME Stopping(q), Head(q).op = "stopped" PROVE Quiet(r)
  <2>1. PICK m \in 1..n :
          /\ q[m].op = "stopped"
          /\ \A i \in 1..n : (i # m => q[i].op # "stopped") /\ (m < i => q[i].op # "data")
    BY <1>6 DEF Stopping, n
  <2>2. m = 1
    BY <1>1, <1>2, <1>6, <2>1
  <2>3. ASSUME NEW i \in 1..(n - 1) PROVE r[i].op \in QuietOps
    <3>1. r[i] = q[i + 1] /\ i + 1 \in 1..n /\ i + 1 # 1 /\ 1 < i + 1 /\ r[i] \in Jobs
      BY <1>1, <1>2
    <3>2. r[i].op # "stopped" /\ r[i].op # "data"
      BY <2>1, <2>2, <3>1
    <3> QED
      BY <3>1, <3>2 DEF Jobs
  <2> QED
    BY <1>1, <2>3 DEF Quiet
<1> QED
  BY <1>1, <1>3, <1>4, <1>5, <1>6 DEF r

-----------------------------------------------------------------------------
(* The invariant of the decoder and of what is on its way to it            *)

\* The types of the connector's side.
LinkTypes ==
  /\ sessions \in 0..Len(Shapes)
  /\ IF sessions = 0 THEN shape = <<>> ELSE shape \in Shapes[sessions]
  /\ started \in BOOLEAN /\ running \in BOOLEAN /\ looping \in BOOLEAN
  /\ connQ \in Seq(Jobs)
  /\ consumed \in Seq(Bytes) /\ Len(consumed) <= Len(StreamBytes(shape))

\* The frames that are given, and where the decoder stands.
Given ==
  \E k \in 0..Len(shape) :
    /\ decoded = Frames(shape, k) /\ EndOf(shape, k) <= Len(consumed)
    /\ looping \/ Caught(shape, k, Len(consumed))
    /\ IF started THEN DecoderAt(decoder, k, Len(consumed)) ELSE decoder = Empty /\ ~ looping

\* The rest of the stream: in the queue, then unread.
Coming ==
  started =>
    \E b \in Nat :
      /\ b <= Len(StreamBytes(shape))
      /\ unread = Slice(StreamBytes(shape), b, Len(StreamBytes(shape)))
      /\ InQueue(connQ, StreamBytes(shape), Len(consumed), b)

\* No job of a session is left when the next one starts.
Ordered ==
  /\ running => started /\ Running(connQ)
  /\ started /\ ~ running => Stopping(connQ)
  /\ ~ started => Quiet(connQ)

DecInv == LinkTypes /\ Given /\ Coming /\ Ordered

\* What the peer sends is a sequence of lengths.
LEMMA ShapeIs ==
  ASSUME LinkTypes
  PROVE  /\ shape \in Seq(Nat) /\ StreamBytes(shape) \in Seq(Bytes)
         /\ Len(StreamBytes(shape)) \in Nat /\ Len(consumed) \in Nat
<1>1. shape \in Seq(Nat)
  <2>1. CASE sessions = 0
    BY <2>1 DEF LinkTypes
  <2>2. CASE sessions # 0
    <3>1. Shapes \in Seq(SUBSET Seq(Nat)) /\ sessions \in 1..Len(Shapes)
      BY <2>2, DecoderAssumption, LenProperties DEF LinkTypes
    <3>2. Shapes[sessions] \in SUBSET Seq(Nat)
      BY <3>1, ElementOfSeq
    <3> QED
      BY <2>2, <3>2 DEF LinkTypes
  <2> QED
    BY <2>1, <2>2
<1> QED
  BY <1>1, FrameInStream, LenProperties DEF LinkTypes

LEMMA DecoderBegins ==
  ASSUME DecoderInit
  PROVE  DecInv
<1>1. shape = <<>> /\ connQ = <<>> /\ consumed = <<>> /\ decoded = <<>> /\ sessions = 0
  BY DEF DecoderInit
<1>2. shape \in Seq(Nat) /\ Len(shape) = 0 /\ connQ \in Seq(Jobs) /\ Len(connQ) = 0
      /\ consumed \in Seq(Bytes) /\ Len(consumed) = 0
  BY <1>1
<1>3. Len(StreamBytes(shape)) = EndOf(shape, 0) /\ EndOf(shape, 0) = 0
  BY <1>2, FrameInStream, EndsAre
<1>4. LinkTypes
  <2>1. 0 \in 0..Len(Shapes)
    BY DecoderAssumption, LenProperties
  <2>2. started = FALSE /\ running = FALSE /\ looping = FALSE
    BY DEF DecoderInit
  <2>3. Len(consumed) <= Len(StreamBytes(shape))
    BY <1>2, <1>3
  <2> QED
    BY <1>1, <1>2, <2>1, <2>2, <2>3 DEF LinkTypes
<1>5. Given
  <2>1. 0 \in 0..Len(shape) /\ 0 <= 0
    BY <1>2
  <2>2. Frames(shape, 0) = <<>>
    BY <1>2, <2>1, FramesAre, EmptySeq
  <2> QED
    BY <1>1, <1>2, <1>3, <2>1, <2>2 DEF Given, Caught, DecoderInit
<1>6. Coming /\ Ordered
  BY <1>2 DEF DecoderInit, Coming, Ordered, Quiet
<1> QED
  BY <1>4, <1>5, <1>6 DEF DecInv

\* A session starts.
LEMMA SessionStarts ==
  ASSUME DecInv, StartSession
  PROVE  DecInv'
<1>1. /\ ~ started /\ sessions < Len(Shapes) /\ started' = TRUE /\ running' = TRUE
      /\ sessions' = sessions + 1 /\ consumed' = <<>> /\ decoded' = <<>>
      /\ UNCHANGED <<decoder, looping, connQ>>
      /\ shape' \in Shapes[sessions + 1] /\ unread' = StreamBytes(shape')
  BY DEF StartSession
<1>2. Quiet(connQ) /\ decoder = Empty /\ looping = FALSE /\ connQ \in Seq(Jobs)
  BY <1>1 DEF DecInv, Ordered, Given, LinkTypes
<1>3. sessions + 1 \in 1..Len(Shapes) /\ sessions + 1 # 0
  BY <1>1, DecoderAssumption, LenProperties DEF DecInv, LinkTypes
<1>4. shape' \in Seq(Nat)
  <2>1. Shapes[sessions + 1] \in SUBSET Seq(Nat)
    BY <1>3, DecoderAssumption, ElementOfSeq
  <2> QED
    BY <1>1, <2>1
<1> DEFINE s == StreamBytes(shape')
<1>5. /\ s \in Seq(Bytes) /\ Len(s) \in Nat /\ Len(s) = EndOf(shape', Len(shape'))
      /\ EndOf(shape', 0) = 0 /\ Len(shape') \in Nat
  BY <1>4, FrameInStream, EndsAre, LenProperties
<1>6. consumed' \in Seq(Bytes) /\ Len(consumed') = 0
  BY <1>1
<1>7. LinkTypes'
  <2>1. sessions' \in 0..Len(Shapes) /\ sessions' # 0 /\ shape' \in Shapes[sessions']
    BY <1>1, <1>3, DecoderAssumption, LenProperties
  <2>2. Len(consumed') <= Len(s)
    BY <1>5, <1>6
  <2>3. started' \in BOOLEAN /\ running' \in BOOLEAN /\ looping' \in BOOLEAN /\ connQ' \in Seq(Jobs)
    BY <1>1, <1>2
  <2> QED
    BY <1>6, <2>1, <2>2, <2>3 DEF LinkTypes
<1>8. Slice(s, 0, 0) = <<>> /\ Slice(s, 0, Len(s)) = s
  <2> HIDE DEF s
  <2> QED
    BY <1>5, WholeSlice
<1>9. Given'
  <2>1. 0 \in 0..Len(shape') /\ 0 <= 0
    BY <1>5
  <2>2. Frames(shape', 0) = <<>>
    BY <1>4, <2>1, FramesAre, EmptySeq
  <2>3. Caught(shape', 0, 0)
    <3>1. CASE Len(shape') = 0
      BY <3>1 DEF Caught
    <3>2. CASE Len(shape') # 0
      <4>1. 1 \in 1..Len(shape') /\ 1 - 1 = 0 /\ 0 + 1 = 1
        BY <1>5, <3>2
      <4>2. /\ EndOf(shape', 1) = 0 + HeaderSize + shape'[1] /\ shape'[1] \in Nat
            /\ HeaderSize \in Nat \ {0}
        BY <1>4, <1>5, <4>1, EndsAre, FrameBytesAre
      <4>3. 0 < EndOf(shape', 1)
        BY <4>2
      <4> QED
        BY <4>1, <4>3 DEF Caught
    <3> QED
      BY <3>1, <3>2
  <2>4. DecoderAt(decoder, 0, 0)'
    <3>1. decoder' = [buffer |-> Slice(s, 0, 0), frame |-> 0, payload |-> <<>>, left |-> 0]
      BY <1>1, <1>2, <1>8 DEF Empty
    <3> QED
      BY <1>5, <2>1, <3>1 DEF DecoderAt, Between
  <2> QED
    BY <1>1, <1>5, <1>6, <2>1, <2>2, <2>3, <2>4 DEF Given
<1>10. Coming'
  <2>1. \A i \in 1..Len(connQ) : connQ[i].op # "data"
    BY <1>2 DEF Quiet, QuietOps
  <2>2. InQueue(connQ, s, 0, 0)
    BY <1>2, <2>1, NoChunks
  <2>3. 0 \in Nat /\ 0 <= Len(s)
    BY <1>5
  <2>4. InQueue(connQ', s, Len(consumed'), 0)
    BY <1>1, <1>6, <2>2
  <2> QED
    BY <1>1, <1>8, <2>3, <2>4 DEF Coming
<1>11. Ordered'
  BY <1>1, <1>2 DEF Ordered, Quiet, QuietOps, Running
<1> QED
  BY <1>7, <1>9, <1>10, <1>11 DEF DecInv

\* A step that leaves the decoder alone.
LEMMA GivenKept ==
  ASSUME Given, UNCHANGED <<decoder, looping, consumed, decoded, started, shape>>
  PROVE  Given'
BY DEF Given, Caught, DecoderAt, Between, Within

\* The session reads on.
LEMMA ReadsPreserve ==
  ASSUME DecInv, SessionReads
  PROVE  DecInv'
<1>1. PICK n \in 1..Len(unread) :
        connQ' = Append(connQ, Chunk(SubSeq(unread, 1, n))) /\ unread' = After(unread, n)
  BY DEF SessionReads
<1>2. /\ running /\ started /\ Running(connQ) /\ connQ \in Seq(Jobs)
      /\ UNCHANGED <<decoder, looping, consumed, decoded, started, running, sessions, shape>>
  BY DEF SessionReads, DecInv, Ordered, LinkTypes, decoderVars
<1> DEFINE s == StreamBytes(shape)   l == Len(StreamBytes(shape))   p == Len(consumed)
<1>3. s \in Seq(Bytes) /\ l \in Nat /\ l = Len(s) /\ p \in Nat
  BY ShapeIs DEF DecInv
<1>4. PICK b \in Nat : b <= l /\ unread = Slice(s, b, l) /\ InQueue(connQ, s, p, b)
  BY <1>2 DEF DecInv, Coming
<1> HIDE DEF s, l, p
<1>5. Len(Slice(s, b, l)) = l - b
  <2>1. b <= l /\ l <= Len(s)
    BY <1>3, <1>4
  <2> QED
    BY <1>3, <2>1, SliceIs
<1>6. PICK d \in Nat : d = b + n /\ b <= d /\ d <= l /\ n \in Nat /\ 0 <= n /\ n <= l - b /\ b + 0 = b
  BY <1>3, <1>4, <1>5
<1>7. SubSeq(unread, 1, n) = Slice(s, b, d)
  <2>1. Slice(Slice(s, b, l), 0, n) = Slice(s, b + 0, b + n)
    <3>1. b <= l /\ l <= Len(s) /\ 0 <= n /\ n <= l - b
      BY <1>3, <1>4, <1>6
    <3> QED
      BY <1>3, <1>6, <3>1, SliceOfSlice
  <2>2. SubSeq(unread, 1, n) = Slice(unread, 0, n)
    BY DEF Slice
  <2> QED
    BY <1>4, <1>6, <2>1, <2>2
<1>8. After(unread, n) = Slice(s, d, l)
  <2>1. After(Slice(s, b, l), n) = Slice(s, b + n, l)
    <3>1. b <= l /\ l <= Len(s) /\ n <= l - b /\ n \in Nat /\ l \in Nat /\ s \in Seq(Bytes)
      BY <1>3, <1>4, <1>6
    <3> QED
      BY <3>1, AfterSlice
  <2> QED
    BY <1>4, <1>6, <2>1
<1> DEFINE job == Chunk(Slice(s, b, d))
<1>9. job \in Jobs /\ job.op = "data" /\ JobTakes(job, s, b, d)
  <2>1. Slice(s, b, d) \in Seq(Bytes)
    <3>1. b <= d /\ d <= Len(s)
      BY <1>3, <1>6
    <3> QED
      BY <1>3, <3>1, SliceIs
  <2> QED
    BY <2>1 DEF Chunk, Jobs, JobTakes
<1> HIDE DEF job
<1>10. connQ' = Append(connQ, job)
  BY <1>1, <1>7 DEF job
<1>11. InQueue(connQ', s, p, d)
  BY <1>2, <1>3, <1>4, <1>6, <1>9, <1>10, JobAdded
<1>12. connQ' \in Seq(Jobs) /\ Running(connQ')
  BY <1>2, <1>9, <1>10, JobsAdded
<1>13. LinkTypes'
  BY <1>2, <1>12 DEF DecInv, LinkTypes
<1>14. Given'
  BY <1>2, GivenKept DEF DecInv
<1>15. Coming'
  <2>1. d <= l /\ unread' = Slice(s, d, l) /\ InQueue(connQ', s, p, d)
    BY <1>1, <1>6, <1>8, <1>11
  <2>2. StreamBytes(shape') = s /\ Len(StreamBytes(shape')) = l /\ Len(consumed') = p
    BY <1>2 DEF s, l, p
  <2> QED
    BY <1>6, <2>1, <2>2 DEF Coming
<1>16. Ordered'
  BY <1>2, <1>12 DEF Ordered
<1> QED
  BY <1>13, <1>14, <1>15, <1>16 DEF DecInv

\* It ends, and its end is queued behind its chunks; another queues a job of its own.
LEMMA OtherJobPreserves ==
  ASSUME DecInv, NEW job \in Jobs, connQ' = Append(connQ, job),
         UNCHANGED <<decoderVars, started, sessions, shape, unread>>,
         \/ job.op \in QuietOps /\ running' = running
         \/ job.op = "stopped" /\ running /\ running' = FALSE
  PROVE  DecInv'
<1>1. /\ UNCHANGED <<decoder, looping, consumed, decoded, started, sessions, shape, unread>>
      /\ connQ \in Seq(Jobs) /\ started \in BOOLEAN /\ running \in BOOLEAN
      /\ job.op # "data"
  BY DEF decoderVars, DecInv, LinkTypes, QuietOps
<1>2. connQ' \in Seq(Jobs)
  BY <1>1, JobsAdded
<1>3. LinkTypes'
  BY <1>1, <1>2 DEF DecInv, LinkTypes
<1>4. Given'
  BY <1>1, GivenKept DEF DecInv
<1>5. Coming'
  <2> DEFINE s == StreamBytes(shape)   p == Len(consumed)
  <2>1. CASE started
    <3>1. PICK b \in Nat : b <= Len(s) /\ unread = Slice(s, b, Len(s)) /\ InQueue(connQ, s, p, b)
      BY <2>1 DEF DecInv, Coming
    <3>2. p \in Nat
      BY ShapeIs DEF DecInv
    <3> HIDE DEF s, p
    <3>3. JobTakes(job, s, b, b) /\ b <= b
      BY <1>1 DEF JobTakes
    <3>4. InQueue(connQ', s, p, b)
      BY <1>1, <3>1, <3>2, <3>3, JobAdded
    <3>5. StreamBytes(shape') = s /\ Len(consumed') = p
      BY <1>1 DEF s, p
    <3> QED
      BY <1>1, <3>1, <3>4, <3>5 DEF Coming
  <2>2. CASE ~ started
    BY <1>1, <2>2 DEF Coming
  <2> QED
    BY <2>1, <2>2
<1>6. Ordered'
  <2>1. CASE job.op \in QuietOps /\ running' = running
    <3>1. job.op # "stopped"
      BY <2>1 DEF QuietOps
    <3> QED
      BY <1>1, <2>1, <3>1, JobsAdded DEF DecInv, Ordered
  <2>2. CASE job.op = "stopped" /\ running /\ running' = FALSE
    BY <1>1, <2>2, JobsAdded DEF DecInv, Ordered
  <2> QED
    BY <2>1, <2>2
<1> QED
  BY <1>3, <1>4, <1>5, <1>6 DEF DecInv

\* A job of another kind is taken.
LEMMA OtherTakenPreserves ==
  ASSUME DecInv, connQ # <<>>, Head(connQ).op \in QuietOps, connQ' = Tail(connQ),
         UNCHANGED <<decoderVars, streamVars>>
  PROVE  DecInv'
<1>1. /\ UNCHANGED <<decoder, looping, consumed, decoded, started, running, sessions, shape, unread>>
      /\ connQ \in Seq(Jobs) /\ Head(connQ).op # "data" /\ Head(connQ).op # "stopped"
  BY DEF decoderVars, streamVars, DecInv, LinkTypes, QuietOps
<1>2. connQ' \in Seq(Jobs)
  BY <1>1, JobsTaken
<1>3. LinkTypes'
  BY <1>1, <1>2 DEF DecInv, LinkTypes
<1>4. Given'
  BY <1>1, GivenKept DEF DecInv
<1>5. Coming'
  <2> DEFINE s == StreamBytes(shape)   p == Len(consumed)
  <2>1. CASE started
    <3>1. PICK b \in Nat : b <= Len(s) /\ unread = Slice(s, b, Len(s)) /\ InQueue(connQ, s, p, b)
      BY <2>1 DEF DecInv, Coming
    <3>2. p \in Nat
      BY ShapeIs DEF DecInv
    <3> HIDE DEF s, p
    <3>3. PICK m \in Nat : JobTakes(Head(connQ), s, p, m) /\ InQueue(Tail(connQ), s, m, b)
      BY <1>1, <3>1, <3>2, JobTaken
    <3>4. m = p
      BY <1>1, <3>3 DEF JobTakes
    <3>5. StreamBytes(shape') = s /\ Len(consumed') = p
      BY <1>1 DEF s, p
    <3> QED
      BY <1>1, <3>1, <3>3, <3>4, <3>5 DEF Coming
  <2>2. CASE ~ started
    BY <1>1, <2>2 DEF Coming
  <2> QED
    BY <2>1, <2>2
<1>6. Ordered'
  BY <1>1, JobsTaken DEF DecInv, Ordered
<1> QED
  BY <1>3, <1>4, <1>5, <1>6 DEF DecInv

\* A chunk reaches the decoder, from the present session alone.
LEMMA DataPreserves ==
  ASSUME DecInv, HandleData
  PROVE  DecInv'
<1>1. /\ ~ looping /\ connQ # <<>> /\ Head(connQ).op = "data" /\ connQ' = Tail(connQ)
      /\ decoder' = [decoder EXCEPT !.buffer = @ \o Head(connQ).bytes]
      /\ looping' = TRUE /\ consumed' = consumed \o Head(connQ).bytes
      /\ UNCHANGED <<decoded, started, running, sessions, shape, unread>>
  BY DEF HandleData, Job, streamVars
<1>2. /\ connQ \in Seq(Jobs) /\ connQ' \in Seq(Jobs) /\ Head(connQ) \in Jobs /\ started
      /\ consumed \in Seq(Bytes) /\ running \in BOOLEAN
  <2>1. connQ \in Seq(Jobs) /\ consumed \in Seq(Bytes) /\ running \in BOOLEAN
    BY DEF DecInv, LinkTypes
  <2>2. Head(connQ).op \notin QuietOps
    BY <1>1 DEF QuietOps
  <2> QED
    BY <1>1, <2>1, <2>2, JobsTaken DEF DecInv, Ordered
<1> DEFINE s == StreamBytes(shape)   l == Len(StreamBytes(shape))   p == Len(consumed)
           t == Head(connQ).bytes
<1>3. s \in Seq(Bytes) /\ l \in Nat /\ l = Len(s) /\ p \in Nat /\ shape \in Seq(Nat)
  BY ShapeIs DEF DecInv
<1>4. PICK b \in Nat : b <= l /\ unread = Slice(s, b, l) /\ InQueue(connQ, s, p, b)
  BY <1>2 DEF DecInv, Coming
<1>5. PICK k \in 0..Len(shape) :
        decoded = Frames(shape, k) /\ EndOf(shape, k) <= p /\ DecoderAt(decoder, k, p)
  BY <1>2 DEF DecInv, Given
<1>6. PICK m \in Nat : p <= m /\ m <= b /\ JobTakes(Head(connQ), s, p, m) /\ InQueue(connQ', s, m, b)
  <2> HIDE DEF s, l, p
  <2>1. \E m \in Nat : /\ p <= m /\ m <= b /\ JobTakes(Head(connQ), s, p, m)
                       /\ InQueue(Tail(connQ), s, m, b)
    BY <1>1, <1>2, <1>3, <1>4, JobTaken
  <2> QED
    BY <1>1, <2>1
<1>7. t = Slice(s, p, m) /\ m <= Len(s)
  BY <1>1, <1>3, <1>4, <1>6 DEF JobTakes
<1>8. consumed' \in Seq(Bytes) /\ Len(consumed') = m
  <2>1. t \in Seq(Bytes) /\ Len(t) = m - p
    <3> HIDE DEF s, p, t, l
    <3>1. p <= m /\ m <= Len(s) /\ p \in Nat /\ s \in Seq(Bytes)
      BY <1>3, <1>6, <1>7
    <3>2. Slice(s, p, m) \in Seq(Bytes) /\ Len(Slice(s, p, m)) = m - p
      BY <3>1, SliceIs
    <3> QED
      BY <1>7, <3>2
  <2>2. Len(consumed') = p + Len(t) /\ consumed' \in Seq(Bytes)
    <3> HIDE DEF t
    <3> QED
      BY <1>1, <1>2, <2>1, ConcatProperties DEF t
  <2> HIDE DEF t, p, s
  <2> QED
    BY <1>3, <1>6, <2>1, <2>2
<1> DEFINE e == [decoder EXCEPT !.buffer = @ \o t]
<1>9. DecoderAt(e, k, m)
  <2>1. ASSUME Between(decoder, k, p) PROVE Between(e, k, m)
    <3> DEFINE a == EndOf(shape, k)
    <3>1. /\ a <= p /\ a \in Nat
          /\ decoder = [buffer |-> Slice(s, a, p), frame |-> 0, payload |-> <<>>, left |-> 0]
      BY <1>3, <2>1, EndsAre DEF Between
    <3> HIDE DEF s, p, t, a
    <3>2. Slice(s, a, p) \o Slice(s, p, m) = Slice(s, a, m) /\ a <= m
      <4>1. a <= p /\ p <= m /\ m <= Len(s) /\ a \in Nat /\ p \in Nat /\ s \in Seq(Bytes)
        BY <1>3, <1>6, <1>7, <3>1
      <4>2. Slice(s, a, p) \o Slice(s, p, m) = Slice(s, a, m)
        BY <4>1, SlicesJoin
      <4> QED
        BY <4>1, <4>2
    <3>3. decoder.buffer \o t = Slice(s, a, m)
      BY <1>7, <3>1, <3>2
    <3>4. e = [buffer |-> Slice(s, a, m), frame |-> 0, payload |-> <<>>, left |-> 0]
      <4> DEFINE whole == decoder.buffer \o t
      <4>1. e = [decoder EXCEPT !.buffer = whole]
        OBVIOUS
      <4> HIDE DEF whole, e
      <4>2. e = [buffer |-> whole, frame |-> 0, payload |-> <<>>, left |-> 0]
        BY <3>1, <4>1
      <4> QED
        BY <3>3, <4>2 DEF whole
    <3> HIDE DEF e
    <3> QED
      BY <3>2, <3>4 DEF Between, a, s
  <2>2. ASSUME NEW q \in Nat, Within(decoder, k, p, q) PROVE Within(e, k, m, q)
    <3> DEFINE y == Slice(s, EndOf(shape, k) + HeaderSize, q)   z == EndOf(shape, k + 1) - q
    <3>1. /\ q <= p
          /\ decoder = [buffer |-> Slice(s, q, p), frame |-> k + 1, payload |-> y, left |-> z]
      BY <2>2 DEF Within
    <3> HIDE DEF s, p, t, y, z
    <3>2. Slice(s, q, p) \o Slice(s, p, m) = Slice(s, q, m) /\ q <= m
      <4>1. q <= p /\ p <= m /\ m <= Len(s) /\ q \in Nat /\ p \in Nat /\ s \in Seq(Bytes)
        BY <1>3, <1>6, <1>7, <3>1
      <4>2. Slice(s, q, p) \o Slice(s, p, m) = Slice(s, q, m)
        BY <4>1, SlicesJoin
      <4> QED
        BY <4>1, <4>2
    <3>3. decoder.buffer \o t = Slice(s, q, m)
      BY <1>7, <3>1, <3>2
    <3>4. e = [buffer |-> Slice(s, q, m), frame |-> k + 1, payload |-> y, left |-> z]
      <4> DEFINE whole == decoder.buffer \o t
      <4>1. e = [decoder EXCEPT !.buffer = whole]
        OBVIOUS
      <4> HIDE DEF whole, e
      <4>2. e = [buffer |-> whole, frame |-> k + 1, payload |-> y, left |-> z]
        BY <3>1, <4>1
      <4> QED
        BY <3>3, <4>2 DEF whole
    <3> HIDE DEF e
    <3> QED
      BY <2>2, <3>2, <3>4 DEF Within, s, y, z
  <2> HIDE DEF e
  <2> QED
    BY <1>5, <2>1, <2>2 DEF DecoderAt
<1>10. LinkTypes'
  <2>1. Len(consumed') <= Len(StreamBytes(shape'))
    BY <1>1, <1>7, <1>8
  <2> HIDE DEF s, p, t
  <2> QED
    BY <1>1, <1>2, <1>8, <2>1 DEF DecInv, LinkTypes
<1>11. Given'
  <2>1. decoder' = e
    BY <1>1
  <2>2. EndOf(shape, k) <= m
    <3>1. EndOf(shape, k) \in Nat
      BY <1>3, EndsAre
    <3> HIDE DEF s, p, t
    <3> QED
      BY <1>3, <1>5, <1>6, <3>1
  <2> HIDE DEF e
  <2>3. DecoderAt(decoder, k, m)'
    BY <1>1, <1>9, <2>1 DEF DecoderAt, Between, Within
  <2> HIDE DEF s, p, t
  <2> QED
    BY <1>1, <1>2, <1>5, <1>8, <2>2, <2>3 DEF Given
<1>12. Coming'
  <2>1. StreamBytes(shape') = s /\ Len(StreamBytes(shape')) = l
    BY <1>1
  <2> HIDE DEF s, l, p, t
  <2> QED
    BY <1>1, <1>4, <1>6, <1>8, <2>1 DEF Coming
<1>13. Ordered'
  <2> HIDE DEF s, l, p, t
  <2> QED
    BY <1>1, <1>2, JobsTaken DEF DecInv, Ordered
<1> QED
  BY <1>10, <1>11, <1>12, <1>13 DEF DecInv

\* What is known of the frame that comes next.
LEMMA NextKnown ==
  ASSUME DecInv, looping
  PROVE  \E k \in 0..Len(shape) :
           /\ decoded = Frames(shape, k) /\ EndOf(shape, k) <= Len(consumed)
           /\ NextIs(NextFrame(decoder), k, Len(consumed))
<1>1. started
  BY DEF DecInv, Given
<1>2. PICK k \in 0..Len(shape) :
        /\ decoded = Frames(shape, k) /\ EndOf(shape, k) <= Len(consumed)
        /\ DecoderAt(decoder, k, Len(consumed))
  BY <1>1 DEF DecInv, Given
<1>3. /\ shape \in Seq(Nat) /\ Len(consumed) \in Nat
      /\ Len(consumed) <= Len(StreamBytes(shape))
  BY ShapeIs DEF DecInv, LinkTypes
<1>4. NextIs(NextFrame(decoder), k, Len(consumed))
  BY <1>2, <1>3, NextFrameIs
<1> QED
  BY <1>2, <1>4

\* A frame more is given.
LEMMA RoundPreserves ==
  ASSUME DecInv, LoopRound
  PROVE  DecInv' /\ WholeFrame \in FrameSet
<1> DEFINE p == Len(consumed)
<1>1. /\ looping /\ NextFrame(decoder).error = "none"
      /\ decoder' = NextFrame(decoder).decoder /\ decoded' = Append(decoded, WholeFrame)
      /\ UNCHANGED <<looping, consumed, connQ, started, running, sessions, shape, unread>>
  BY DEF LoopRound, NextIsWhole, streamVars
<1>2. started /\ shape \in Seq(Nat) /\ p \in Nat /\ Len(shape) \in Nat
  BY <1>1, ShapeIs, LenProperties DEF DecInv, Given
<1>3. PICK k \in 0..Len(shape) :
        decoded = Frames(shape, k) /\ EndOf(shape, k) <= p /\ NextIs(NextFrame(decoder), k, p)
  BY <1>1, NextKnown
<1>4. /\ k + 1 \in 1..Len(shape) /\ EndOf(shape, k + 1) <= p
      /\ WholeFrame = [of |-> k + 1, payload |-> Payload0(shape, k + 1)]
      /\ Between(decoder', k + 1, p)
  BY <1>1, <1>3 DEF NextIs, WholeFrame
<1>5. k + 1 \in 0..Len(shape) /\ k \in Nat /\ k + 1 \in Nat
  BY <1>2, <1>4
<1>6. decoded' = Frames(shape, k + 1)
  <2> DEFINE a == Frames(shape, k)   b == Frames(shape, k + 1)   x == WholeFrame   c == Append(a, x)
  <2>1. /\ a \in Seq(FrameSet) /\ Len(a) = k
        /\ \A f \in 1..k : a[f] = [of |-> f, payload |-> Payload0(shape, f)]
    BY <1>2, FramesAre
  <2>2. /\ b \in Seq(FrameSet) /\ Len(b) = k + 1
        /\ \A f \in 1..(k + 1) : b[f] = [of |-> f, payload |-> Payload0(shape, f)]
    BY <1>2, <1>5, FramesAre
  <2>3. k + 1 \in 1..(k + 1) /\ \A f \in 1..(k + 1) : f \in 1..k \/ f = k + 1
    BY <1>5
  <2>4. x = b[k + 1] /\ x \in FrameSet
    <3>1. x = b[k + 1]
      BY <1>4, <2>2, <2>3
    <3>2. b[k + 1] \in FrameSet
      BY <2>2, <2>3, ElementOfSeq
    <3> QED
      BY <3>1, <3>2
  <2> HIDE DEF a, b, x
  <2>5. /\ c \in Seq(FrameSet) /\ Len(c) = k + 1 /\ c[k + 1] = x
        /\ \A f \in 1..k : c[f] = a[f]
    BY <2>1, <2>4, AppendProperties
  <2> HIDE DEF c
  <2>6. \A f \in 1..(k + 1) : c[f] = b[f]
    <3>1. ASSUME NEW f \in 1..k PROVE f \in 1..(k + 1)
      BY <1>5
    <3>2. \A f \in 1..k : c[f] = b[f]
      BY <2>1, <2>2, <2>5, <3>1
    <3> QED
      BY <2>3, <2>4, <2>5, <3>2
  <2>7. c = b
    BY <1>5, <2>2, <2>5, <2>6, SameElements
  <2> QED
    BY <1>1, <1>3, <2>7 DEF a, b, c, x
<1>7. LinkTypes'
  BY <1>1 DEF DecInv, LinkTypes
<1>8. Given'
  <2>1. DecoderAt(decoder, k + 1, p)'
    BY <1>1, <1>4 DEF DecoderAt, Between
  <2> QED
    BY <1>1, <1>2, <1>4, <1>5, <1>6, <2>1 DEF Given
<1>9. Coming' /\ Ordered'
  BY <1>1 DEF DecInv, Coming, Ordered
<1>10. WholeFrame \in FrameSet
  <2>1. Payload0(shape, k + 1) \in Seq(Bytes)
    BY <1>2, <1>4, PayloadInStream
  <2> QED
    BY <1>4, <1>5, <2>1 DEF FrameSet
<1> QED
  BY <1>7, <1>8, <1>9, <1>10 DEF DecInv

\* The loop ends when the next frame has not come.
LEMMA LoopEndPreserves ==
  ASSUME DecInv, LoopEnd
  PROVE  DecInv'
<1> DEFINE p == Len(consumed)
<1>1. /\ looping /\ ~ (NextFrame(decoder).error = "none") /\ looping' = FALSE
      /\ decoder' = IF NextFrame(decoder).error = "invalidVersion" THEN Empty
                    ELSE NextFrame(decoder).decoder
      /\ UNCHANGED <<decoded, consumed, connQ, started, running, sessions, shape, unread>>
  BY DEF LoopEnd, NextIsWhole, streamVars
<1>2. started
  BY <1>1 DEF DecInv, Given
<1>3. PICK k \in 0..Len(shape) :
        decoded = Frames(shape, k) /\ EndOf(shape, k) <= p /\ NextIs(NextFrame(decoder), k, p)
  BY <1>1, NextKnown
<1>4. /\ NextFrame(decoder).error \in {"noHeader", "bodyNotFull"}
      /\ DecoderAt(NextFrame(decoder).decoder, k, p) /\ Caught(shape, k, p)
  BY <1>1, <1>3 DEF NextIs
<1>5. decoder' = NextFrame(decoder).decoder
  BY <1>1, <1>4
<1>6. LinkTypes'
  BY <1>1 DEF DecInv, LinkTypes
<1>7. Given'
  <2>1. DecoderAt(decoder, k, p)'
    <3>1. DecoderAt(decoder', k, p)
      BY <1>4, <1>5
    <3> QED
      BY <1>1, <3>1 DEF DecoderAt, Between, Within
  <2>2. Caught(shape', k, p)
    BY <1>1, <1>4
  <2> QED
    BY <1>1, <1>2, <1>3, <2>1, <2>2 DEF Given
<1>8. Coming' /\ Ordered'
  BY <1>1 DEF DecInv, Coming, Ordered
<1> QED
  BY <1>6, <1>7, <1>8 DEF DecInv

\* The end of the session takes the decoder with it.
LEMMA StoppedPreserves ==
  ASSUME DecInv, HandleStopped
  PROVE  DecInv'
<1>1. /\ ~ looping /\ connQ # <<>> /\ Head(connQ).op = "stopped" /\ connQ' = Tail(connQ)
      /\ started' = FALSE /\ decoder' = Empty
      /\ UNCHANGED <<looping, consumed, decoded, running, sessions, shape, unread>>
  BY DEF HandleStopped, Job
<1>2. connQ \in Seq(Jobs) /\ connQ' \in Seq(Jobs) /\ started \in BOOLEAN /\ running \in BOOLEAN
  BY <1>1, JobsTaken DEF DecInv, LinkTypes
<1>3. started /\ ~ running /\ Quiet(connQ')
  <2>1. Head(connQ).op \notin QuietOps
    BY <1>1 DEF QuietOps
  <2> QED
    BY <1>1, <1>2, <2>1, JobsTaken DEF DecInv, Ordered
<1>4. LinkTypes'
  BY <1>1, <1>2 DEF DecInv, LinkTypes
<1>5. Given'
  BY <1>1, <1>3 DEF DecInv, Given
<1>6. Coming' /\ Ordered'
  BY <1>1, <1>3 DEF Coming, Ordered
<1> QED
  BY <1>4, <1>5, <1>6 DEF DecInv

-----------------------------------------------------------------------------
(* Every step of the proxy                                                 *)

\* A step that neither the decoder nor the queue sees.
LEMMA DecoderUntouched ==
  ASSUME DecInv, UNCHANGED <<decoderVars, streamVars, connQ>>
  PROVE  DecInv'
<1>1. UNCHANGED <<decoder, looping, consumed, decoded, started, running, sessions, shape, unread, connQ>>
  BY DEF decoderVars, streamVars
<1>2. LinkTypes' /\ Coming' /\ Ordered'
  BY <1>1 DEF DecInv, LinkTypes, Coming, Ordered
<1>3. Given'
  BY <1>1, GivenKept DEF DecInv
<1> QED
  BY <1>2, <1>3 DEF DecInv

\* A job of the proxy is queued.
LEMMA ProxyJobPreserves ==
  ASSUME DecInv, NEW op \in QuietOps, connQ' = Append(connQ, [op |-> op]),
         UNCHANGED <<decoderVars, streamVars>>
  PROVE  DecInv'
<1>1. [op |-> op] \in Jobs /\ [op |-> op].op \in QuietOps
  BY DEF Jobs
<1> QED
  BY <1>1, OtherJobPreserves DEF streamVars

\* Two jobs are queued at once.
LEMMA StartKeepsDecoder ==
  ASSUME DecInv, Start
  PROVE  DecInv'
<1>1. /\ connQ' = connQ \o <<[op |-> "open"], [op |-> "request"]>>
      /\ UNCHANGED <<decoder, looping, consumed, decoded, started, running, sessions, shape, unread>>
      /\ connQ \in Seq(Jobs)
  BY DEF Start, linkVars, decoderVars, streamVars, DecInv, LinkTypes
<1> DEFINE x == [op |-> "open"]   y == [op |-> "request"]   q == Append(connQ, x)
<1>2. /\ x \in Jobs /\ y \in Jobs /\ x.op \in QuietOps /\ y.op \in QuietOps
      /\ x.op # "data" /\ y.op # "data" /\ x.op # "stopped" /\ y.op # "stopped"
  BY DEF Jobs, QuietOps
<1>3. connQ' = Append(q, y)
  <2> HIDE DEF x, y
  <2>1. connQ \o <<x, y>> = Append(Append(connQ, x), y)
    BY <1>1, <1>2
  <2> QED
    BY <1>1, <2>1 DEF x, y
<1> HIDE DEF x, y
<1>4. q \in Seq(Jobs) /\ connQ' \in Seq(Jobs)
  <2>1. q \in Seq(Jobs)
    BY <1>1, <1>2, JobsAdded
  <2> HIDE DEF q
  <2> QED
    BY <1>2, <1>3, <2>1, JobsAdded
<1>5. LinkTypes'
  BY <1>1, <1>4 DEF DecInv, LinkTypes
<1>6. Given'
  BY <1>1, GivenKept DEF DecInv
<1>7. Coming'
  <2> DEFINE s == StreamBytes(shape)   p == Len(consumed)
  <2>1. CASE started
    <3>1. PICK b \in Nat : b <= Len(s) /\ unread = Slice(s, b, Len(s)) /\ InQueue(connQ, s, p, b)
      BY <2>1 DEF DecInv, Coming
    <3>2. p \in Nat
      BY ShapeIs DEF DecInv
    <3> HIDE DEF s, p
    <3>3. JobTakes(x, s, b, b) /\ JobTakes(y, s, b, b) /\ b <= b
      BY <1>2 DEF JobTakes
    <3>4. InQueue(q, s, p, b)
      BY <1>1, <1>2, <3>1, <3>2, <3>3, JobAdded
    <3> HIDE DEF q
    <3>5. InQueue(connQ', s, p, b)
      BY <1>2, <1>3, <1>4, <3>2, <3>3, <3>4, JobAdded
    <3>6. StreamBytes(shape') = s /\ Len(consumed') = p
      BY <1>1 DEF s, p
    <3> QED
      BY <1>1, <3>1, <3>5, <3>6 DEF Coming
  <2>2. CASE ~ started
    BY <1>1, <2>2 DEF Coming
  <2> QED
    BY <2>1, <2>2
<1>8. Ordered'
  <2>1. /\ Running(connQ) => Running(q)
        /\ Quiet(connQ) => Quiet(q)
        /\ Stopping(connQ) => Stopping(q)
    BY <1>1, <1>2, JobsAdded
  <2> HIDE DEF q
  <2>2. /\ Running(q) => Running(connQ')
        /\ Quiet(q) => Quiet(connQ')
        /\ Stopping(q) => Stopping(connQ')
    BY <1>2, <1>3, <1>4, JobsAdded
  <2> QED
    BY <1>1, <2>1, <2>2 DEF DecInv, Ordered
<1> QED
  BY <1>5, <1>6, <1>7, <1>8 DEF DecInv

\* The invariant of the decoder holds whatever the proxy and the peer do.
LEMMA DecoderStep == DecInv /\ [Next]_vars => DecInv'
<1> SUFFICES ASSUME DecInv, [Next]_vars PROVE DecInv'
  OBVIOUS
<1>1. CASE UNCHANGED vars
  BY <1>1, DecoderUntouched DEF vars, linkVars
<1>2. CASE ReadConnectRequest \/ Receive \/ ReceiveAfterEnd \/ Pass
  BY <1>2, DecoderUntouched DEF ReadConnectRequest, Receive, ReceiveAfterEnd, Pass, linkVars
<1>3. CASE RuntimeStep
  BY <1>3, DecoderUntouched
     DEF RuntimeStep, Forward, Collect, Answer, SendBuffered, SendRemainder, Disconnect, linkVars
<1>4. CASE Registry
  BY <1>4, DecoderUntouched DEF Registry, linkVars
<1>5. CASE Start
  BY <1>5, StartKeepsDecoder
<1>6. CASE End
  <2>1. connQ' = Append(connQ, [op |-> "close"]) /\ UNCHANGED <<decoderVars, streamVars>>
    BY <1>6 DEF End, Enqueue, linkVars
  <2> QED
    BY <2>1, ProxyJobPreserves DEF QuietOps
<1>7. CASE Open \/ SendRequest \/ Close
  <2>1. /\ connQ # <<>> /\ Head(connQ).op \in QuietOps /\ connQ' = Tail(connQ)
        /\ UNCHANGED <<decoderVars, streamVars>>
    BY <1>7 DEF Open, SendRequest, Close, Job, QuietOps
  <2> QED
    BY <2>1, OtherTakenPreserves
<1>8. CASE Data
  BY <1>8, DataPreserves, LoopEndPreserves DEF Data
<1>9. CASE Process
  BY <1>9, RoundPreserves DEF Process
<1>10. CASE Stop
  BY <1>10, StoppedPreserves DEF Stop
<1>11. CASE Read
  BY <1>11, ReadsPreserve DEF Read
<1>12. CASE StartSession
  BY <1>12, SessionStarts
<1>13. CASE SessionEnds
  <2>1. Stopped \in Jobs /\ Stopped.op = "stopped"
    BY DEF Jobs, Stopped
  <2>2. /\ connQ' = Append(connQ, Stopped) /\ running /\ running' = FALSE
        /\ UNCHANGED <<decoderVars, started, sessions, shape, unread>>
    BY <1>13 DEF SessionEnds
  <2> QED
    BY <2>1, <2>2, OtherJobPreserves
<1> QED
  BY <1>1, <1>2, <1>3, <1>4, <1>5, <1>6, <1>7, <1>8, <1>9, <1>10, <1>11, <1>12, <1>13
     DEF Next, ReaderStep, ConnectorStep

\* The decoder's invariant.
THEOREM DecoderInvariance == Spec => []DecInv
<1>1. Init => DecInv
  BY DecoderBegins DEF Init
<1> QED
  BY <1>1, DecoderStep, PTL DEF Spec

\* However the stream is cut and wherever the sessions end, the decoder gives each frame
\* with its payload, in order, and as soon as its last byte has come (nextFrame,
\* processInboundSmuxBytes, resetState).
THEOREM FramesAreExact == Spec => []DecoderExact
<1>1. ASSUME DecInv PROVE DecoderExact
  <2>1. PICK k \in 0..Len(shape) :
          /\ decoded = Frames(shape, k) /\ EndOf(shape, k) <= Len(consumed)
          /\ looping \/ Caught(shape, k, Len(consumed))
    BY <1>1 DEF DecInv, Given
  <2>2. shape \in Seq(Nat) /\ Len(consumed) \in Nat
    BY <1>1, ShapeIs DEF DecInv
  <2>3. /\ IsPrefix(decoded, Whole(shape, Len(consumed)))
        /\ Caught(shape, k, Len(consumed)) => decoded = Whole(shape, Len(consumed))
    BY <2>1, <2>2, WholeIs
  <2> QED
    BY <2>1, <2>3 DEF DecoderExact
<1> QED
  BY <1>1, DecoderInvariance, PTL

-----------------------------------------------------------------------------
(* What is carried to the client                                           *)

Answers == [op : {"data"}, payload : Seq(Bytes)] \cup [op : {"disconnect"}]
Items(q) == [i \in DOMAIN q |-> Carried(q[i])]
Paid(a) == [i \in DOMAIN a |-> a[i].payload]

\* What a job carries.
LEMMA CarriedIs ==
  ASSUME NEW x \in Answers
  PROVE  Carried(x) \in Seq(Bytes) /\ (x.op # "data" => Carried(x) = <<>>)
<1>1. CASE x \in [op : {"data"}, payload : Seq(Bytes)]
  BY <1>1 DEF Carried
<1>2. CASE x \in [op : {"disconnect"}]
  BY <1>2 DEF Carried
<1> QED
  BY <1>1, <1>2 DEF Answers

\* What a queue carries.
LEMMA ItemsAre ==
  ASSUME NEW q \in Seq(Answers)
  PROVE  /\ Items(q) \in Seq(Seq(Bytes)) /\ Len(Items(q)) = Len(q) /\ Len(q) \in Nat
         /\ \A i \in 1..Len(q) : Items(q)[i] = Carried(q[i])
<1>1. Len(q) \in Nat /\ DOMAIN q = 1..Len(q) /\ \A i \in 1..Len(q) : q[i] \in Answers
  BY LenProperties, ElementOfSeq
<1>2. Items(q) \in [1..Len(q) -> Seq(Bytes)]
  BY <1>1, CarriedIs DEF Items
<1>3. Items(q) \in Seq(Seq(Bytes))
  BY <1>1, <1>2, SeqDef
<1>4. Len(Items(q)) = Len(q)
  BY <1>1, <1>2, <1>3, LenProperties
<1> QED
  BY <1>1, <1>3, <1>4 DEF Items

LEMMA CarriedMore ==
  ASSUME NEW q \in Seq(Answers), NEW x \in Answers
  PROVE  /\ FlattenSeq(Items(q)) \in Seq(Bytes)
         /\ FlattenSeq(Items(Append(q, x))) = FlattenSeq(Items(q)) \o Carried(x)
<1> DEFINE n == Len(q)   r == Append(q, x)   a == Items(q)   b == Items(r)   c == Append(a, Carried(x))
<1>1. /\ r \in Seq(Answers) /\ Len(r) = n + 1 /\ r[n + 1] = x /\ n \in Nat
      /\ \A i \in 1..n : r[i] = q[i]
  BY LenProperties, AppendProperties
<1>2. a \in Seq(Seq(Bytes)) /\ Len(a) = n /\ \A i \in 1..n : a[i] = Carried(q[i])
  BY ItemsAre
<1>3. Carried(x) \in Seq(Bytes)
  BY CarriedIs
<1> HIDE DEF n, r, a
<1>4. b \in Seq(Seq(Bytes)) /\ Len(b) = n + 1 /\ \A i \in 1..(n + 1) : b[i] = Carried(r[i])
  BY <1>1, ItemsAre
<1> HIDE DEF b
<1>5. /\ c \in Seq(Seq(Bytes)) /\ Len(c) = n + 1 /\ c[n + 1] = Carried(x)
      /\ \A i \in 1..n : c[i] = a[i]
  BY <1>2, <1>3, AppendProperties
<1> HIDE DEF c
<1>6. \A i \in 1..(n + 1) : i \in 1..n \/ i = n + 1
  BY <1>1
<1>7. \A i \in 1..(n + 1) : c[i] = b[i]
  <2>1. ASSUME NEW i \in 1..n PROVE c[i] = b[i]
    <3>1. i \in 1..(n + 1)
      BY <1>1
    <3> QED
      BY <1>1, <1>2, <1>4, <1>5, <3>1
  <2>2. n + 1 \in 1..(n + 1)
    BY <1>1
  <2>3. c[n + 1] = b[n + 1]
    BY <1>1, <1>4, <1>5, <2>2
  <2> QED
    BY <1>6, <2>1, <2>3
<1>8. c = b
  <2>1. n + 1 \in Nat
    BY <1>1
  <2> QED
    BY <1>4, <1>5, <1>7, <2>1, SameElements
<1>9. FlattenSeq(a) \in Seq(Bytes) /\ FlattenSeq(c) = FlattenSeq(a) \o Carried(x)
  BY <1>2, <1>3, FlattenAppended DEF c
<1> QED
  BY <1>8, <1>9 DEF a, b, r

LEMMA CarriedLess ==
  ASSUME NEW q \in Seq(Answers), q # <<>>
  PROVE  /\ FlattenSeq(Items(q)) = Carried(Head(q)) \o FlattenSeq(Items(Tail(q)))
         /\ FlattenSeq(Items(Tail(q))) \in Seq(Bytes) /\ Carried(Head(q)) \in Seq(Bytes)
<1> DEFINE n == Len(q)   r == Tail(q)   a == Items(q)   b == Items(r)   c == Tail(a)
<1>1. /\ n \in Nat \ {0} /\ r \in Seq(Answers) /\ Len(r) = n - 1 /\ Head(q) = q[1] /\ Head(q) \in Answers
      /\ \A i \in 1..(n - 1) : r[i] = q[i + 1]
  BY LenProperties, HeadTailProperties, EmptySeq
<1>2. a \in Seq(Seq(Bytes)) /\ Len(a) = n /\ \A i \in 1..n : a[i] = Carried(q[i])
  BY ItemsAre
<1> HIDE DEF n, r, a
<1>3. b \in Seq(Seq(Bytes)) /\ Len(b) = n - 1 /\ \A i \in 1..(n - 1) : b[i] = Carried(r[i])
  BY <1>1, ItemsAre
<1>4. a # <<>>
  BY <1>1, <1>2, EmptySeq
<1>5. /\ c \in Seq(Seq(Bytes)) /\ Len(c) = n - 1 /\ Head(a) = a[1]
      /\ \A i \in 1..(n - 1) : c[i] = a[i + 1]
  BY <1>1, <1>2, <1>4, HeadTailProperties
<1> HIDE DEF b, c
<1>6. 1 \in 1..n /\ n - 1 \in Nat /\ \A i \in 1..(n - 1) : i + 1 \in 1..n
  BY <1>1
<1>7. Head(a) = Carried(Head(q))
  BY <1>1, <1>2, <1>5, <1>6
<1>8. c = b
  <2>1. ASSUME NEW i \in 1..(n - 1) PROVE c[i] = b[i]
    BY <1>1, <1>2, <1>3, <1>5, <1>6
  <2> QED
    BY <1>3, <1>5, <1>6, <2>1, SameElements
<1>9. FlattenSeq(a) = Head(a) \o FlattenSeq(c)
  BY <1>2, <1>4, FlattenTaken DEF c
<1>10. FlattenSeq(b) \in Seq(Bytes)
  <2>1. <<>> \in Seq(Bytes)
    OBVIOUS
  <2> QED
    BY <1>3, <2>1, FlattenAppended
<1>11. Carried(Head(q)) \in Seq(Bytes)
  BY <1>1, CarriedIs
<1> QED
  BY <1>7, <1>8, <1>9, <1>10, <1>11 DEF a, b, r

\* The payloads of the frames that have arrived, with one more.
LEMMA PaidMore ==
  ASSUME NEW a \in Seq(FrameSet), NEW x \in FrameSet
  PROVE  /\ FlattenSeq(Paid(a)) \in Seq(Bytes)
         /\ FlattenSeq(Paid(Append(a, x))) = FlattenSeq(Paid(a)) \o x.payload
<1> DEFINE n == Len(a)   r == Append(a, x)   u == Paid(a)   v == Paid(r)   c == Append(u, x.payload)
<1>1. /\ r \in Seq(FrameSet) /\ Len(r) = n + 1 /\ r[n + 1] = x /\ n \in Nat
      /\ \A i \in 1..n : r[i] = a[i] /\ a[i] \in FrameSet
      /\ DOMAIN r = 1..(n + 1) /\ DOMAIN a = 1..n
  BY LenProperties, AppendProperties, ElementOfSeq
<1>2. x.payload \in Seq(Bytes)
  BY DEF FrameSet
<1> HIDE DEF n, r
<1>3. \A i \in 1..(n + 1) : i \in 1..n \/ i = n + 1
  BY <1>1
<1>4. u \in [1..n -> Seq(Bytes)] /\ \A i \in 1..n : u[i] = a[i].payload
  BY <1>1 DEF Paid, FrameSet
<1>5. v \in [1..(n + 1) -> Seq(Bytes)] /\ \A i \in 1..(n + 1) : v[i] = r[i].payload
  BY <1>1, <1>2, <1>3 DEF Paid, FrameSet
<1> HIDE DEF u, v
<1>6. u \in Seq(Seq(Bytes)) /\ Len(u) = n /\ v \in Seq(Seq(Bytes)) /\ Len(v) = n + 1
  <2>1. n \in Nat /\ n + 1 \in Nat
    BY <1>1
  <2>2. u \in Seq(Seq(Bytes)) /\ v \in Seq(Seq(Bytes))
    BY <1>4, <1>5, <2>1, SeqDef
  <2> QED
    BY <1>4, <1>5, <2>1, <2>2, LenProperties
<1>7. /\ c \in Seq(Seq(Bytes)) /\ Len(c) = n + 1 /\ c[n + 1] = x.payload
      /\ \A i \in 1..n : c[i] = u[i]
  BY <1>2, <1>6, AppendProperties
<1> HIDE DEF c
<1>8. \A i \in 1..(n + 1) : c[i] = v[i]
  <2>1. ASSUME NEW i \in 1..n PROVE c[i] = v[i]
    <3>1. i \in 1..(n + 1)
      BY <1>1
    <3> QED
      BY <1>1, <1>4, <1>5, <1>7, <3>1
  <2>2. n + 1 \in 1..(n + 1)
    BY <1>1
  <2>3. c[n + 1] = v[n + 1]
    BY <1>1, <1>5, <1>7, <2>2
  <2> QED
    BY <1>3, <2>1, <2>3
<1>9. c = v
  <2>1. n + 1 \in Nat
    BY <1>1
  <2> QED
    BY <1>6, <1>7, <1>8, <2>1, SameElements
<1>10. FlattenSeq(u) \in Seq(Bytes) /\ FlattenSeq(c) = FlattenSeq(u) \o x.payload
  BY <1>2, <1>6, FlattenAppended DEF c
<1> QED
  BY <1>9, <1>10 DEF u, v, r

\* The runtime's queue before the end of the stream is known, and after.
Live(q) == \A i \in 1..Len(q) : q[i].op = "data"
Closing(q) == \A i \in 1..Len(q) : i < Len(q) => q[i].op = "data"

LEMMA AnswerAdded ==
  ASSUME NEW q \in Seq(Answers), NEW x \in Answers, Live(q)
  PROVE  /\ Append(q, x) \in Seq(Answers) /\ Closing(Append(q, x))
         /\ x.op = "data" => Live(Append(q, x))
<1> DEFINE n == Len(q)   r == Append(q, x)
<1>1. /\ n \in Nat /\ r \in Seq(Answers) /\ Len(r) = n + 1 /\ r[n + 1] = x
      /\ \A i \in 1..n : r[i] = q[i]
  BY LenProperties, AppendProperties
<1> HIDE DEF n, r
<1>2. \A i \in 1..(n + 1) : (i \in 1..n \/ i = n + 1) /\ (i < n + 1 => i \in 1..n)
  BY <1>1
<1>3. \A i \in 1..n : r[i].op = "data"
  BY <1>1 DEF Live, n
<1>4. Closing(r)
  BY <1>1, <1>2, <1>3 DEF Closing
<1>5. x.op = "data" => Live(r)
  BY <1>1, <1>2, <1>3 DEF Live
<1> QED
  BY <1>1, <1>4, <1>5 DEF r

LEMMA AnswerTaken ==
  ASSUME NEW q \in Seq(Answers), q # <<>>
  PROVE  /\ Tail(q) \in Seq(Answers) /\ Head(q) \in Answers
         /\ Live(q) => Live(Tail(q)) /\ Head(q).op = "data"
         /\ Closing(q) => Closing(Tail(q))
         /\ Closing(q) /\ Head(q).op # "data" => Tail(q) = <<>>
<1> DEFINE n == Len(q)   r == Tail(q)
<1>1. /\ n \in Nat \ {0} /\ r \in Seq(Answers) /\ Len(r) = n - 1 /\ Head(q) = q[1] /\ Head(q) \in Answers
      /\ \A i \in 1..(n - 1) : r[i] = q[i + 1]
  BY LenProperties, HeadTailProperties, EmptySeq
<1> HIDE DEF n, r
<1>2. 1 \in 1..n /\ \A i \in 1..(n - 1) : i + 1 \in 1..n /\ (i < n - 1 => i + 1 < n)
  BY <1>1
<1>3. Live(q) => Live(r) /\ Head(q).op = "data"
  BY <1>1, <1>2 DEF Live, n
<1>4. Closing(q) => Closing(r)
  BY <1>1, <1>2 DEF Closing, n
<1>5. ASSUME Closing(q), Head(q).op # "data" PROVE r = <<>>
  <2>1. ~ (1 < n)
    BY <1>1, <1>2, <1>5 DEF Closing, n
  <2>2. Len(r) = 0
    BY <1>1, <2>1
  <2> QED
    BY <1>1, <2>2, EmptySeq
<1> QED
  BY <1>1, <1>3, <1>4, <1>5 DEF r

LEMMA NoAnswers == <<>> \in Seq(Answers) /\ Live(<<>>) /\ Closing(<<>>)
BY DEF Live, Closing

\* A stream is opened once.
NoOpen(q) == \A i \in 1..Len(q) : q[i].op # "open"
OneOpen(q) == \A i, j \in 1..Len(q) : q[i].op = "open" /\ q[j].op = "open" => i = j

LEMMA OpenAdded ==
  ASSUME NEW q \in Seq(Jobs), NEW job \in Jobs
  PROVE  /\ job.op # "open" /\ NoOpen(q) => NoOpen(Append(q, job))
         /\ job.op # "open" /\ OneOpen(q) => OneOpen(Append(q, job))
         /\ NoOpen(q) => OneOpen(Append(q, job))
<1> DEFINE n == Len(q)   r == Append(q, job)
<1>1. /\ n \in Nat /\ r \in Seq(Jobs) /\ Len(r) = n + 1 /\ r[n + 1] = job
      /\ \A i \in 1..n : r[i] = q[i]
  BY LenProperties, AppendProperties
<1> HIDE DEF n, r
<1>2. \A i \in 1..(n + 1) : i \in 1..n \/ i = n + 1
  BY <1>1
<1>3. job.op # "open" /\ NoOpen(q) => NoOpen(r)
  BY <1>1, <1>2 DEF NoOpen, n
<1>4. job.op # "open" /\ OneOpen(q) => OneOpen(r)
  BY <1>1, <1>2 DEF OneOpen, n
<1>5. NoOpen(q) => OneOpen(r)
  BY <1>1, <1>2 DEF NoOpen, OneOpen, n
<1> QED
  BY <1>3, <1>4, <1>5 DEF r

LEMMA OpenTaken ==
  ASSUME NEW q \in Seq(Jobs), q # <<>>
  PROVE  /\ NoOpen(q) => NoOpen(Tail(q)) /\ Head(q).op # "open"
         /\ OneOpen(q) => OneOpen(Tail(q))
         /\ OneOpen(q) /\ Head(q).op = "open" => NoOpen(Tail(q))
<1> DEFINE n == Len(q)   r == Tail(q)
<1>1. /\ n \in Nat \ {0} /\ r \in Seq(Jobs) /\ Len(r) = n - 1 /\ Head(q) = q[1]
      /\ \A i \in 1..(n - 1) : r[i] = q[i + 1]
  BY LenProperties, HeadTailProperties, EmptySeq
<1> HIDE DEF n, r
<1>2. 1 \in 1..n /\ \A i \in 1..(n - 1) : i + 1 \in 1..n /\ i + 1 # 1
  BY <1>1
<1>3. NoOpen(q) => NoOpen(r) /\ Head(q).op # "open"
  BY <1>1, <1>2 DEF NoOpen, n
<1>4. OneOpen(q) => OneOpen(r)
  <2>1. ASSUME OneOpen(q), NEW i \in 1..(n - 1), NEW j \in 1..(n - 1), r[i].op = "open", r[j].op = "open"
        PROVE  i = j
    <3>1. i + 1 = j + 1
      BY <1>1, <1>2, <2>1 DEF OneOpen, n
    <3> QED
      BY <3>1
  <2> QED
    BY <1>1, <2>1 DEF OneOpen
<1>5. OneOpen(q) /\ Head(q).op = "open" => NoOpen(r)
  BY <1>1, <1>2 DEF OneOpen, NoOpen, n
<1> QED
  BY <1>3, <1>4, <1>5 DEF r

-----------------------------------------------------------------------------
(* The invariant of the answer                                             *)

\* The types of what carries the answer.
AnswerTypes ==
  /\ toClient \in Seq(Bytes) /\ runtimeQ \in Seq(Answers) /\ arrived \in Seq(FrameSet)
  /\ DOMAIN runtime = DOMAIN Fresh
  /\ runtime.handshake \in Seq(Bytes) /\ runtime.rest \in Seq(Bytes)
  /\ stream \in [registered : BOOLEAN, known : BOOLEAN, opened : BOOLEAN]
  /\ cancelled \in BOOLEAN

\* What the runtime holds, by where it is.
HeldOK ==
  /\ ~ runtime.busy => runtime.rest = <<>>
  /\ runtime.busy => runtime.forwarding
  /\ runtime.forwarding => runtime.handshake = <<>>

\* The bytes of the answer are in one place each, in order.
AnswerWhole ==
  toClient \o (runtime.handshake \o (runtime.rest \o FlattenSeq(Items(runtimeQ))))
    = FlattenSeq(Paid(arrived))

\* A stream is opened once and its end comes once, behind all that it carried.
EndOnce ==
  /\ stream.registered => stream.opened /\ Live(runtimeQ) /\ ~ cancelled
  /\ Closing(runtimeQ)
  /\ ~ Live(runtimeQ) \/ cancelled => stream.opened
  /\ cancelled => runtimeQ = <<>> /\ ~ runtime.busy

OpenOnce ==
  /\ OneOpen(connQ)
  /\ reader.at \in {"request", "start"} \/ stream.opened => NoOpen(connQ)
  /\ reader.at \in {"request", "start"} => ~ stream.opened

AnswerInv == AnswerTypes /\ HeldOK /\ AnswerWhole /\ EndOnce /\ OpenOnce

\* Cutting a sequence in two.
LEMMA CutInTwo ==
  ASSUME NEW S, NEW s \in Seq(S), NEW n \in Nat, n <= Len(s)
  PROVE  /\ SubSeq(s, 1, n) \in Seq(S) /\ After(s, n) \in Seq(S) /\ Len(SubSeq(s, 1, n)) = n
         /\ SubSeq(s, 1, n) \o After(s, n) = s
<1> DEFINE l == Len(s)
<1>1. l \in Nat /\ l <= l /\ 0 <= n /\ n - 0 = n
  BY LenProperties
<1>2. SubSeq(s, 1, n) = Slice(s, 0, n) /\ After(s, n) = Slice(s, n, l) /\ Slice(s, 0, l) = s
  BY WholeSlice DEF Slice, After
<1> HIDE DEF Slice
<1>3. Slice(s, 0, n) \in Seq(S) /\ Len(Slice(s, 0, n)) = n - 0
  BY <1>1, SliceIs
<1>4. Slice(s, n, l) \in Seq(S)
  BY <1>1, SliceIs
<1>5. Slice(s, 0, n) \o Slice(s, n, l) = Slice(s, 0, l)
  BY <1>1, SlicesJoin
<1> QED
  BY <1>1, <1>2, <1>3, <1>4, <1>5

\* Nothing of the answer moves.
LEMMA AnswerUntouched ==
  ASSUME AnswerInv, UNCHANGED <<answerVars, stream, arrived>>, OpenOnce'
  PROVE  AnswerInv'
<1>1. UNCHANGED <<runtime, runtimeQ, cancelled, toClient, stream, arrived>>
  BY DEF answerVars
<1>2. AnswerTypes'
  BY <1>1 DEF AnswerInv, AnswerTypes
<1>3. HeldOK'
  BY <1>1 DEF AnswerInv, HeldOK
<1>4. AnswerWhole'
  BY <1>1 DEF AnswerInv, AnswerWhole
<1>5. EndOnce'
  BY <1>1 DEF AnswerInv, EndOnce
<1> QED
  BY <1>2, <1>3, <1>4, <1>5 DEF AnswerInv

\* The stream is not opened: the queue is the same, has another job, or one less.
Starting(at) == at \in {"request", "start"}

LEMMA NothingOpened ==
  ASSUME DecInv, AnswerInv, Starting(reader'.at) => Starting(reader.at),
         stream'.opened = stream.opened,
         \/ connQ' = connQ
         \/ \E job \in Jobs : job.op # "open" /\ connQ' = Append(connQ, job)
         \/ connQ # <<>> /\ Head(connQ).op # "open" /\ connQ' = Tail(connQ)
  PROVE  OpenOnce'
<1>1. connQ \in Seq(Jobs)
  BY DEF DecInv, LinkTypes
<1>2. /\ OneOpen(connQ)
      /\ Starting(reader.at) \/ stream.opened => NoOpen(connQ)
      /\ Starting(reader.at) => ~ stream.opened
  BY DEF AnswerInv, OpenOnce, Starting
<1>3. (NoOpen(connQ) => NoOpen(connQ')) /\ OneOpen(connQ')
  <2>1. CASE connQ' = connQ
    BY <1>2, <2>1
  <2>2. CASE \E job \in Jobs : job.op # "open" /\ connQ' = Append(connQ, job)
    <3>1. PICK job \in Jobs : job.op # "open" /\ connQ' = Append(connQ, job)
      BY <2>2
    <3> QED
      BY <1>1, <1>2, <3>1, OpenAdded
  <2>3. CASE connQ # <<>> /\ Head(connQ).op # "open" /\ connQ' = Tail(connQ)
    BY <1>1, <1>2, <2>3, OpenTaken
  <2> QED
    BY <2>1, <2>2, <2>3
<1> QED
  BY <1>2, <1>3 DEF OpenOnce, Starting

LEMMA ReaderKeepsAnswer ==
  ASSUME PInv, DecInv, AnswerInv,
         ReadConnectRequest \/ Receive \/ ReceiveAfterEnd \/ Pass \/ Registry \/ End
  PROVE  AnswerInv'
<1>1. reader \in [at : Places, hand : Nat, seen : BOOLEAN, last : BOOLEAN]
  BY DEF PInv, ClientTypes
<1>2. Starting(reader'.at) => Starting(reader.at)
  <2>1. CASE ReadConnectRequest
    BY <2>1 DEF ReadConnectRequest, Go, Starting
  <2>2. CASE Receive
    BY <2>2 DEF Receive, Starting
  <2>3. CASE ReceiveAfterEnd \/ End
    BY <1>1, <2>3 DEF ReceiveAfterEnd, End, Go, Starting
  <2>4. CASE Pass
    BY <1>1, <2>4 DEF Pass, Starting
  <2>5. CASE Registry
    BY <2>5 DEF Registry, clientVars
  <2> QED
    BY <2>1, <2>2, <2>3, <2>4, <2>5
<1>3. /\ UNCHANGED <<stream, arrived>>
      /\ connQ' = connQ \/ connQ' = Append(connQ, [op |-> "close"])
  BY DEF ReadConnectRequest, Receive, ReceiveAfterEnd, Pass, Registry, End, Enqueue, linkVars
<1>4. UNCHANGED answerVars
  BY DEF ReadConnectRequest, Receive, ReceiveAfterEnd, Pass, Registry, End
<1>5. [op |-> "close"] \in Jobs /\ [op |-> "close"].op # "open"
  BY DEF Jobs, QuietOps
<1>6. OpenOnce'
  BY <1>2, <1>3, <1>5, NothingOpened
<1> QED
  BY <1>3, <1>4, <1>6, AnswerUntouched

\* The one opening is queued, and the request behind it.
LEMMA StartKeepsAnswer ==
  ASSUME PInv, DecInv, AnswerInv, Start
  PROVE  AnswerInv'
<1> DEFINE x == [op |-> "open"]   y == [op |-> "request"]   q == Append(connQ, x)
<1>1. /\ reader.at = "start" /\ reader' = [reader EXCEPT !.at = "reading"]
      /\ connQ' = connQ \o <<x, y>> /\ UNCHANGED <<answerVars, stream, arrived>>
  BY DEF Start, Go, linkVars
<1>2. reader'.at = "reading"
  BY <1>1 DEF PInv, ClientTypes
<1>3. x \in Jobs /\ y \in Jobs /\ y.op # "open"
  BY DEF Jobs, QuietOps
<1>4. NoOpen(connQ) /\ ~ stream.opened /\ connQ \in Seq(Jobs)
  BY <1>1 DEF AnswerInv, OpenOnce, DecInv, LinkTypes
<1> HIDE DEF x, y
<1>5. connQ' = Append(q, y) /\ q \in Seq(Jobs)
  BY <1>1, <1>3, <1>4
<1>6. OneOpen(q)
  BY <1>3, <1>4, OpenAdded
<1> HIDE DEF q
<1>7. OneOpen(connQ')
  BY <1>3, <1>5, <1>6, OpenAdded
<1>8. OpenOnce'
  BY <1>1, <1>2, <1>4, <1>7 DEF OpenOnce
<1> QED
  BY <1>1, <1>8, AnswerUntouched

\* A block of the runtime's queue that was given a payload.
LEMMA PayloadTaken ==
  ASSUME AnswerInv, Block, Head(runtimeQ).op = "data", UNCHANGED <<cancelled, stream>>
  PROVE  /\ Payload \in Seq(Bytes) /\ FlattenSeq(Items(runtimeQ')) \in Seq(Bytes)
         /\ FlattenSeq(Items(runtimeQ)) = Payload \o FlattenSeq(Items(runtimeQ'))
         /\ runtime.rest = <<>> /\ runtimeQ' \in Seq(Answers) /\ EndOnce'
<1>1. runtimeQ # <<>> /\ runtimeQ' = Tail(runtimeQ) /\ runtimeQ \in Seq(Answers) /\ ~ runtime.busy
  BY DEF Block, AnswerInv, AnswerTypes
<1>2. Carried(Head(runtimeQ)) = Payload
  BY DEF Carried, Payload
<1>3. /\ Payload \in Seq(Bytes) /\ FlattenSeq(Items(runtimeQ')) \in Seq(Bytes)
      /\ FlattenSeq(Items(runtimeQ)) = Payload \o FlattenSeq(Items(runtimeQ'))
  BY <1>1, <1>2, CarriedLess
<1>4. /\ runtimeQ' \in Seq(Answers) /\ (Live(runtimeQ) => Live(runtimeQ'))
      /\ (Closing(runtimeQ) => Closing(runtimeQ'))
  BY <1>1, AnswerTaken
<1>5. EndOnce'
  BY <1>1, <1>4 DEF AnswerInv, EndOnce
<1> QED
  BY <1>1, <1>3, <1>4, <1>5 DEF AnswerInv, HeldOK

\* The bytes of the answer, by name.
LEMMA AnswerBytes ==
  ASSUME AnswerInv
  PROVE  /\ toClient \in Seq(Bytes) /\ runtime.handshake \in Seq(Bytes) /\ runtime.rest \in Seq(Bytes)
         /\ runtimeQ \in Seq(Answers) /\ arrived \in Seq(FrameSet)
         /\ DOMAIN runtime = {"handshake", "forwarding", "busy", "todo", "rest"}
         /\ toClient \o (runtime.handshake \o (runtime.rest \o FlattenSeq(Items(runtimeQ))))
              = FlattenSeq(Paid(arrived))
BY DEF AnswerInv, AnswerTypes, AnswerWhole, Fresh

\* Nothing is opened by the runtime.
LEMMA RuntimeOpensNothing ==
  ASSUME DecInv, AnswerInv, RuntimeStep
  PROVE  OpenOnce' /\ UNCHANGED <<stream, arrived, connQ>>
<1>1. UNCHANGED <<stream, arrived, connQ, reader>>
  BY DEF RuntimeStep, Forward, Collect, Answer, SendBuffered, SendRemainder, Disconnect, linkVars,
         clientVars
<1> QED
  BY <1>1, NothingOpened

LEMMA ForwardKeepsAnswer ==
  ASSUME DecInv, AnswerInv, Forward
  PROVE  AnswerInv'
<1> DEFINE p == Payload   w == FlattenSeq(Items(runtimeQ'))
<1>1. /\ Block /\ Head(runtimeQ).op = "data" /\ runtime.forwarding /\ toClient' = toClient \o p
      /\ UNCHANGED <<runtime, cancelled>> /\ UNCHANGED <<stream, arrived, connQ>> /\ OpenOnce'
  BY RuntimeOpensNothing DEF Forward, RuntimeStep
<1>2. /\ p \in Seq(Bytes) /\ w \in Seq(Bytes) /\ FlattenSeq(Items(runtimeQ)) = p \o w
      /\ runtime.rest = <<>> /\ runtimeQ' \in Seq(Answers) /\ EndOnce'
  BY <1>1, PayloadTaken
<1>3. runtime.handshake = <<>>
  BY <1>1 DEF AnswerInv, HeldOK
<1> HIDE DEF p
<1>4. AnswerWhole'
  <2>1. toClient \o (<<>> \o (<<>> \o (p \o w))) = FlattenSeq(Paid(arrived))
    BY <1>2, <1>3, AnswerBytes
  <2> HIDE DEF w
  <2>2. (toClient \o p) \o (<<>> \o (<<>> \o w)) = toClient \o (<<>> \o (<<>> \o (p \o w)))
    <3>1. toClient \in Seq(Bytes) /\ p \in Seq(Bytes) /\ w \in Seq(Bytes)
      BY <1>2, AnswerBytes
    <3>2. Then(Then(toClient, p), Then(<<>>, Then(<<>>, w)))
            = Then(toClient, Then(<<>>, Then(<<>>, Then(p, w))))
      BY <3>1, ThenIs
    <3> QED
      BY <3>2, Zenon DEF Then
  <2>3. (toClient \o p) \o (<<>> \o (<<>> \o w)) = FlattenSeq(Paid(arrived))
    BY <2>1, <2>2
  <2> QED
    BY <1>1, <1>2, <1>3, <2>3, Zenon DEF AnswerWhole, w
<1>5. toClient' \in Seq(Bytes)
  BY <1>1, <1>2, AnswerBytes, ConcatProperties
<1>6. AnswerTypes'
  BY <1>1, <1>2, <1>5 DEF AnswerInv, AnswerTypes
<1>7. HeldOK'
  BY <1>1 DEF AnswerInv, HeldOK
<1> QED
  BY <1>1, <1>2, <1>4, <1>6, <1>7 DEF AnswerInv

LEMMA CollectKeepsAnswer ==
  ASSUME DecInv, AnswerInv, Collect
  PROVE  AnswerInv'
<1> DEFINE p == Payload   w == FlattenSeq(Items(runtimeQ'))   h == runtime.handshake
<1>1. /\ Block /\ Head(runtimeQ).op = "data" /\ ~ runtime.forwarding
      /\ runtime' = [runtime EXCEPT !.handshake = h \o p]
      /\ UNCHANGED <<toClient, cancelled>> /\ UNCHANGED <<stream, arrived, connQ>> /\ OpenOnce'
  BY RuntimeOpensNothing DEF Collect, RuntimeStep, Received
<1>2. /\ p \in Seq(Bytes) /\ w \in Seq(Bytes) /\ FlattenSeq(Items(runtimeQ)) = p \o w
      /\ runtime.rest = <<>> /\ runtimeQ' \in Seq(Answers) /\ EndOnce'
  BY <1>1, PayloadTaken
<1>3. h \in Seq(Bytes) /\ toClient \in Seq(Bytes) /\ DOMAIN runtime = DOMAIN Fresh
  BY AnswerBytes DEF AnswerInv, AnswerTypes
<1> HIDE DEF p
<1>4. /\ runtime'.handshake = h \o p /\ runtime'.rest = <<>> /\ DOMAIN runtime' = DOMAIN Fresh
      /\ runtime'.busy = runtime.busy /\ runtime'.forwarding = runtime.forwarding
  BY <1>1, <1>2, <1>3 DEF Fresh
<1>5. AnswerWhole'
  <2>1. toClient \o (h \o (<<>> \o (p \o w))) = FlattenSeq(Paid(arrived))
    BY <1>2, AnswerBytes
  <2> HIDE DEF w, h
  <2>2. toClient \o ((h \o p) \o (<<>> \o w)) = toClient \o (h \o (<<>> \o (p \o w)))
    <3>1. toClient \in Seq(Bytes) /\ p \in Seq(Bytes) /\ w \in Seq(Bytes) /\ h \in Seq(Bytes)
      BY <1>2, <1>3
    <3>2. Then(toClient, Then(Then(h, p), Then(<<>>, w)))
            = Then(toClient, Then(h, Then(<<>>, Then(p, w))))
      BY <3>1, ThenIs
    <3> QED
      BY <3>2, Zenon DEF Then
  <2>3. toClient \o ((h \o p) \o (<<>> \o w)) = FlattenSeq(Paid(arrived))
    BY <2>1, <2>2
  <2> QED
    BY <1>1, <1>4, <2>3, Zenon DEF AnswerWhole, w
<1>6. h \o p \in Seq(Bytes) /\ <<>> \in Seq(Bytes)
  BY <1>2, <1>3, ConcatProperties
<1>7. AnswerTypes'
  BY <1>1, <1>2, <1>4, <1>6 DEF AnswerInv, AnswerTypes
<1>8. HeldOK'
  BY <1>1, <1>4 DEF AnswerInv, HeldOK
<1> QED
  BY <1>1, <1>2, <1>5, <1>7, <1>8 DEF AnswerInv

LEMMA HeaderKeepsAnswer ==
  ASSUME DecInv, AnswerInv, Answer
  PROVE  AnswerInv'
<1> DEFINE p == Payload   w == FlattenSeq(Items(runtimeQ'))   h == runtime.handshake
           f == SubSeq(Received, 1, HeaderEnd)   r == After(Received, HeaderEnd)
<1>1. /\ Block /\ Head(runtimeQ).op = "data" /\ HeaderEnd <= Len(Received)
      /\ toClient' = toClient \o f
      /\ runtime' = [handshake |-> <<>>, forwarding |-> TRUE, busy |-> TRUE, rest |-> r,
                     todo |-> IF request = "connect" THEN context.buffered ELSE <<>>]
      /\ UNCHANGED cancelled /\ UNCHANGED <<stream, arrived, connQ>> /\ OpenOnce'
  <2>1. Len(Received) >= HeaderEnd => HeaderEnd <= Len(Received)
    BY DEF Answer
  <2> QED
    BY <2>1, RuntimeOpensNothing DEF Answer, RuntimeStep, Remainder
<1>2. /\ p \in Seq(Bytes) /\ w \in Seq(Bytes) /\ FlattenSeq(Items(runtimeQ)) = p \o w
      /\ runtime.rest = <<>> /\ runtimeQ' \in Seq(Answers) /\ EndOnce'
  BY <1>1, PayloadTaken
<1>3. h \in Seq(Bytes) /\ toClient \in Seq(Bytes)
  BY AnswerBytes
<1>4. Received = h \o p /\ Received \in Seq(Bytes)
  BY <1>2, <1>3, ConcatProperties DEF Received
<1>5. f \in Seq(Bytes) /\ r \in Seq(Bytes) /\ f \o r = h \o p
  <2>1. HeaderEnd \in Nat
    BY ProxyAssumption
  <2> HIDE DEF p, h
  <2> QED
    BY <1>1, <1>4, <2>1, CutInTwo
<1> HIDE DEF p, f, r
<1>6. /\ runtime'.handshake = <<>> /\ runtime'.rest = r /\ runtime'.forwarding /\ runtime'.busy
      /\ DOMAIN runtime' = DOMAIN Fresh
  BY <1>1 DEF Fresh
<1>7. AnswerWhole'
  <2>1. toClient \o (h \o (<<>> \o (p \o w))) = FlattenSeq(Paid(arrived))
    BY <1>2, AnswerBytes
  <2> HIDE DEF w, h
  <2>2. (toClient \o f) \o (<<>> \o (r \o w)) = toClient \o (h \o (<<>> \o (p \o w)))
    <3>1. /\ toClient \in Seq(Bytes) /\ p \in Seq(Bytes) /\ w \in Seq(Bytes) /\ h \in Seq(Bytes)
          /\ f \in Seq(Bytes) /\ r \in Seq(Bytes)
      BY <1>2, <1>3, <1>5
    <3>2. (toClient \o f) \o (<<>> \o (r \o w)) = toClient \o ((f \o r) \o w)
      <4>1. toClient \in Seq(Bytes) /\ f \in Seq(Bytes) /\ r \in Seq(Bytes) /\ w \in Seq(Bytes)
        BY <3>1
      <4> QED
        <5>1. Then(Then(toClient, f), Then(<<>>, Then(r, w))) = Then(toClient, Then(Then(f, r), w))
          BY <4>1, ThenIs
        <5> QED
          BY <5>1, Zenon DEF Then
    <3>3. toClient \o ((h \o p) \o w) = toClient \o (h \o (<<>> \o (p \o w)))
      <4>1. toClient \in Seq(Bytes) /\ h \in Seq(Bytes) /\ p \in Seq(Bytes) /\ w \in Seq(Bytes)
        BY <3>1
      <4>2. Then(toClient, Then(Then(h, p), w)) = Then(toClient, Then(h, Then(<<>>, Then(p, w))))
        BY <4>1, ThenIs
      <4> QED
        BY <4>2, Zenon DEF Then
    <3>4. f \o r = h \o p
      BY <1>5 DEF h
    <3> QED
      BY <3>2, <3>3, <3>4, Zenon
  <2>3. (toClient \o f) \o (<<>> \o (r \o w)) = FlattenSeq(Paid(arrived))
    BY <2>1, <2>2
  <2> QED
    BY <1>1, <1>6, <2>3, Zenon DEF AnswerWhole, w
<1>8. toClient' \in Seq(Bytes) /\ <<>> \in Seq(Bytes)
  BY <1>1, <1>3, <1>5, ConcatProperties
<1>9. AnswerTypes'
  BY <1>1, <1>2, <1>5, <1>6, <1>8 DEF AnswerInv, AnswerTypes
<1>10. HeldOK'
  BY <1>6 DEF HeldOK
<1> QED
  BY <1>1, <1>2, <1>7, <1>9, <1>10 DEF AnswerInv

LEMMA RestKeepsAnswer ==
  ASSUME DecInv, AnswerInv, SendBuffered \/ SendRemainder
  PROVE  AnswerInv'
<1> DEFINE w == FlattenSeq(Items(runtimeQ))   r == runtime.rest
<1>1. /\ UNCHANGED <<runtimeQ, cancelled>> /\ UNCHANGED <<stream, arrived, connQ>> /\ OpenOnce'
      /\ runtime.busy
  BY RuntimeOpensNothing DEF SendBuffered, SendRemainder, RuntimeStep
<1>2. /\ toClient \in Seq(Bytes) /\ r \in Seq(Bytes) /\ runtime.forwarding /\ runtime.handshake = <<>>
      /\ DOMAIN runtime = {"handshake", "forwarding", "busy", "todo", "rest"}
  BY <1>1, AnswerBytes DEF AnswerInv, HeldOK
<1>3. toClient \o (<<>> \o (r \o w)) = FlattenSeq(Paid(arrived)) /\ w \in Seq(Bytes)
  <2>1. w \in Seq(Bytes)
    <3>1. <<>> \in Seq(Bytes) /\ [op |-> "disconnect"] \in Answers
      BY DEF Answers
    <3> QED
      BY <3>1, AnswerBytes, CarriedMore
  <2> QED
    BY <1>2, <2>1, AnswerBytes
<1>4. CASE SendBuffered
  <2>1. /\ runtime' = [runtime EXCEPT !.todo = Tail(@)] /\ toClient' = toClient
    BY <1>4 DEF SendBuffered
  <2>2. /\ runtime'.handshake = runtime.handshake /\ runtime'.rest = runtime.rest
        /\ runtime'.busy = runtime.busy /\ runtime'.forwarding = runtime.forwarding
        /\ DOMAIN runtime' = DOMAIN runtime
    BY <1>2, <2>1
  <2>3. AnswerTypes' /\ HeldOK'
    BY <1>1, <2>1, <2>2 DEF AnswerInv, AnswerTypes, HeldOK
  <2>4. AnswerWhole'
    BY <1>1, <2>1, <2>2 DEF AnswerInv, AnswerWhole
  <2>5. EndOnce'
    BY <1>1, <2>2 DEF AnswerInv, EndOnce
  <2> QED
    BY <1>1, <2>3, <2>4, <2>5 DEF AnswerInv
<1>5. CASE SendRemainder
  <2>1. /\ runtime' = [runtime EXCEPT !.busy = FALSE, !.rest = <<>>] /\ toClient' = toClient \o r
    BY <1>5 DEF SendRemainder
  <2>2. /\ runtime'.handshake = <<>> /\ runtime'.rest = <<>>
        /\ runtime'.busy = FALSE /\ runtime'.forwarding
        /\ DOMAIN runtime' = DOMAIN runtime
    BY <1>2, <2>1
  <2>3. toClient' \in Seq(Bytes) /\ <<>> \in Seq(Bytes)
    BY <1>2, <2>1, ConcatProperties
  <2>4. AnswerTypes'
    BY <1>1, <2>2, <2>3 DEF AnswerInv, AnswerTypes
  <2>5. HeldOK'
    BY <2>2 DEF HeldOK
  <2>6. AnswerWhole'
    <3> HIDE DEF w, r
    <3>1. (toClient \o r) \o (<<>> \o (<<>> \o w)) = toClient \o (<<>> \o (r \o w))
      <4>1. toClient \in Seq(Bytes) /\ r \in Seq(Bytes) /\ w \in Seq(Bytes)
        BY <1>2, <1>3
      <4>2. Then(Then(toClient, r), Then(<<>>, Then(<<>>, w))) = Then(toClient, Then(<<>>, Then(r, w)))
        BY <4>1, ThenIs
      <4> QED
        BY <4>2, Zenon DEF Then
    <3>2. (toClient \o r) \o (<<>> \o (<<>> \o w)) = FlattenSeq(Paid(arrived))
      BY <1>3, <3>1
    <3> QED
      BY <1>1, <2>1, <2>2, <3>2, Zenon DEF AnswerWhole, w
  <2>7. EndOnce'
    BY <1>1, <2>2 DEF AnswerInv, EndOnce
  <2> QED
    BY <1>1, <2>4, <2>5, <2>6, <2>7 DEF AnswerInv
<1> QED
  BY <1>4, <1>5

\* Nothing waits behind the end of the stream.
LEMMA DisconnectKeepsAnswer ==
  ASSUME DecInv, AnswerInv, Disconnect
  PROVE  AnswerInv'
<1> DEFINE t == Tail(runtimeQ)
<1>1. /\ runtimeQ # <<>> /\ ~ runtime.busy /\ runtimeQ' = t /\ Head(runtimeQ).op = "disconnect"
      /\ cancelled' = TRUE /\ UNCHANGED <<runtime, toClient>>
      /\ UNCHANGED <<stream, arrived, connQ>> /\ OpenOnce'
  BY RuntimeOpensNothing DEF Disconnect, Block, RuntimeStep
<1>2. runtimeQ \in Seq(Answers) /\ Head(runtimeQ) \in Answers /\ Closing(runtimeQ)
  BY <1>1, AnswerBytes, AnswerTaken DEF AnswerInv, EndOnce
<1>3. t = <<>> /\ t \in Seq(Answers) /\ ~ Live(runtimeQ)
  BY <1>1, <1>2, AnswerTaken
<1>4. FlattenSeq(Items(runtimeQ)) = FlattenSeq(Items(t))
  <2>1. Carried(Head(runtimeQ)) = <<>>
    BY <1>1 DEF Carried
  <2>2. /\ FlattenSeq(Items(runtimeQ)) = <<>> \o FlattenSeq(Items(t))
        /\ FlattenSeq(Items(t)) \in Seq(Bytes)
    BY <1>1, <1>2, <2>1, CarriedLess
  <2> QED
    BY <2>2, ConcatEmptySeq
<1>5. AnswerTypes'
  BY <1>1, <1>3 DEF AnswerInv, AnswerTypes
<1>6. HeldOK'
  BY <1>1 DEF AnswerInv, HeldOK
<1>7. AnswerWhole'
  <2> HIDE DEF t
  <2> QED
    BY <1>1, <1>4 DEF AnswerInv, AnswerWhole
<1>8. EndOnce'
  BY <1>1, <1>3, NoAnswers DEF AnswerInv, EndOnce
<1> QED
  BY <1>1, <1>5, <1>6, <1>7, <1>8 DEF AnswerInv

\* The stream is opened, before anything can have come on it.
LEMMA OpenKeepsAnswer ==
  ASSUME DecInv, AnswerInv, Open
  PROVE  AnswerInv'
<1>1. /\ connQ # <<>> /\ Head(connQ).op = "open" /\ connQ' = Tail(connQ) /\ connQ \in Seq(Jobs)
      /\ stream' = [stream EXCEPT !.registered = TRUE, !.opened = TRUE]
      /\ UNCHANGED <<runtime, runtimeQ, cancelled, toClient, reader, arrived>>
  BY DEF Open, Job, DecInv, LinkTypes, answerVars, restVars, clientVars
<1>2. OneOpen(connQ) /\ ~ NoOpen(connQ) /\ NoOpen(connQ')
  BY <1>1, OpenTaken DEF AnswerInv, OpenOnce
<1>3. ~ Starting(reader.at) /\ ~ stream.opened
  BY <1>2 DEF AnswerInv, OpenOnce, Starting
<1>4. /\ stream' \in [registered : BOOLEAN, known : BOOLEAN, opened : BOOLEAN]
      /\ stream'.registered /\ stream'.opened
  BY <1>1 DEF AnswerInv, AnswerTypes
<1>5. Live(runtimeQ) /\ ~ cancelled
  BY <1>3 DEF AnswerInv, EndOnce
<1>6. OpenOnce'
  <2>1. OneOpen(connQ')
    BY <1>1, <1>2, OpenTaken
  <2> QED
    BY <1>1, <1>2, <1>3, <2>1 DEF OpenOnce, Starting
<1>7. EndOnce'
  BY <1>1, <1>4, <1>5 DEF AnswerInv, EndOnce
<1>8. AnswerTypes' /\ HeldOK' /\ AnswerWhole'
  BY <1>1, <1>4 DEF AnswerInv, AnswerTypes, HeldOK, AnswerWhole
<1> QED
  BY <1>6, <1>7, <1>8 DEF AnswerInv

\* The stream may only be taken away.
LEMMA StreamKeepsAnswer ==
  ASSUME DecInv, AnswerInv, SendRequest \/ Close
  PROVE  AnswerInv'
<1>1. /\ connQ # <<>> /\ Head(connQ).op # "open" /\ connQ' = Tail(connQ)
      /\ UNCHANGED <<runtime, runtimeQ, cancelled, toClient, reader, arrived>>
  BY DEF SendRequest, Close, Job, answerVars, restVars, clientVars
<1>2. /\ stream' \in [registered : BOOLEAN, known : BOOLEAN, opened : BOOLEAN]
      /\ stream'.opened = stream.opened /\ (stream'.registered => stream.registered)
  <2>1. running \in BOOLEAN /\ stream \in [registered : BOOLEAN, known : BOOLEAN, opened : BOOLEAN]
    BY DEF AnswerInv, AnswerTypes, DecInv, LinkTypes
  <2>2. CASE SendRequest
    BY <2>1, <2>2 DEF SendRequest
  <2>3. CASE Close
    BY <2>1, <2>3 DEF Close
  <2> QED
    BY <2>2, <2>3
<1>3. OpenOnce'
  BY <1>1, <1>2, NothingOpened
<1>4. EndOnce'
  BY <1>1, <1>2 DEF AnswerInv, EndOnce
<1>5. AnswerTypes' /\ HeldOK' /\ AnswerWhole'
  BY <1>1, <1>2 DEF AnswerInv, AnswerTypes, HeldOK, AnswerWhole
<1> QED
  BY <1>3, <1>4, <1>5 DEF AnswerInv

\* What is not read yet are bytes.
LEMMA UnreadIsBytes ==
  ASSUME DecInv, running
  PROVE  unread \in Seq(Bytes)
<1> DEFINE s == StreamBytes(shape)   l == Len(StreamBytes(shape))
<1>1. s \in Seq(Bytes) /\ l \in Nat /\ l = Len(s) /\ started
  BY ShapeIs DEF DecInv, Ordered
<1>2. PICK b \in Nat : b <= l /\ unread = Slice(s, b, l)
  BY <1>1 DEF DecInv, Coming
<1> HIDE DEF s, l
<1>3. b <= l /\ l <= Len(s)
  BY <1>1, <1>2
<1>4. Slice(s, b, l) \in Seq(Bytes)
  BY <1>1, <1>3, SliceIs
<1> QED
  BY <1>2, <1>4

\* The session and the decoder at work.
LEMMA LinkKeepsAnswer ==
  ASSUME DecInv, AnswerInv, UNCHANGED quietVars,
         HandleData \/ LoopEnd \/ SessionReads \/ StartSession \/ SessionEnds
  PROVE  AnswerInv'
<1>1. UNCHANGED <<answerVars, stream, arrived, reader>>
  BY DEF quietVars, restVars, clientVars
<1>2. \/ connQ' = connQ
      \/ \E job \in Jobs : job.op # "open" /\ connQ' = Append(connQ, job)
      \/ connQ # <<>> /\ Head(connQ).op # "open" /\ connQ' = Tail(connQ)
  <2>1. CASE HandleData
    BY <2>1 DEF HandleData, Job
  <2>2. CASE LoopEnd \/ StartSession
    BY <2>2 DEF LoopEnd, StartSession
  <2>3. CASE SessionReads
    <3>1. PICK n \in 1..Len(unread) : connQ' = Append(connQ, Chunk(SubSeq(unread, 1, n)))
      BY <2>3 DEF SessionReads
    <3>2. Chunk(SubSeq(unread, 1, n)) \in Jobs
      <4>1. SubSeq(unread, 1, n) \in Seq(Bytes)
        <5>1. running /\ n \in 1..Len(unread)
          BY <2>3 DEF SessionReads
        <5>2. unread \in Seq(Bytes) /\ Len(unread) \in Nat
          BY <5>1, UnreadIsBytes, LenProperties
        <5>3. n \in Nat /\ n <= Len(unread)
          BY <5>1, <5>2
        <5> QED
          BY <5>2, <5>3, CutInTwo
      <4> QED
        BY <4>1 DEF Chunk, Jobs
    <3> QED
      BY <3>1, <3>2 DEF Chunk
  <2>4. CASE SessionEnds
    <3>1. Stopped \in Jobs /\ Stopped.op # "open"
      BY DEF Jobs, Stopped
    <3> QED
      BY <2>4, <3>1 DEF SessionEnds
  <2> QED
    BY <2>1, <2>2, <2>3, <2>4
<1>3. OpenOnce'
  BY <1>1, <1>2, NothingOpened
<1> QED
  BY <1>1, <1>3, AnswerUntouched

\* The end of a stream is told to its handler, once it is taken away.
LEMMA EndKeepsAnswer ==
  ASSUME AnswerInv, stream.registered,
         stream' = [stream EXCEPT !.registered = FALSE],
         runtimeQ' = Append(runtimeQ, [op |-> "disconnect"]),
         UNCHANGED <<runtime, cancelled, toClient, reader, arrived>>,
         OpenOnce' \/ connQ' = connQ
  PROVE  AnswerInv'
<1> DEFINE x == [op |-> "disconnect"]   w == FlattenSeq(Items(runtimeQ))
<1>1. x \in Answers /\ Carried(x) = <<>>
  BY DEF Answers, Carried
<1>2. Live(runtimeQ) /\ ~ cancelled /\ stream.opened
  BY DEF AnswerInv, EndOnce
<1>3. /\ stream' \in [registered : BOOLEAN, known : BOOLEAN, opened : BOOLEAN]
      /\ stream'.opened = stream.opened /\ ~ stream'.registered
  BY DEF AnswerInv, AnswerTypes
<1> HIDE DEF x, w
<1>4. runtimeQ' = Append(runtimeQ, x)
  BY DEF x
<1>5. runtimeQ' \in Seq(Answers) /\ Closing(runtimeQ')
  BY <1>1, <1>2, <1>4, AnswerBytes, AnswerAdded
<1>6. FlattenSeq(Items(runtimeQ')) = w
  <2>1. w \in Seq(Bytes) /\ FlattenSeq(Items(runtimeQ')) = w \o <<>>
    BY <1>1, <1>4, AnswerBytes, CarriedMore DEF w
  <2> QED
    BY <2>1, ConcatEmptySeq
<1>7. AnswerWhole'
  BY <1>6 DEF AnswerInv, AnswerWhole, w
<1>8. AnswerTypes' /\ HeldOK'
  BY <1>3, <1>5 DEF AnswerInv, AnswerTypes, HeldOK
<1>9. EndOnce'
  BY <1>2, <1>3, <1>5 DEF AnswerInv, EndOnce
<1>10. OpenOnce'
  BY <1>3 DEF AnswerInv, OpenOnce
<1> QED
  BY <1>7, <1>8, <1>9, <1>10 DEF AnswerInv

\* A frame of the stream is handed on, or FIN ends the stream; without a stream, nothing.
LEMMA ProcessKeepsAnswer ==
  ASSUME DecInv, AnswerInv, Process
  PROVE  AnswerInv'
<1>1. /\ connQ' = connQ /\ UNCHANGED <<runtime, cancelled, toClient, reader>>
      /\ WholeFrame \in FrameSet
  BY RoundPreserves DEF Process, LoopRound, restVars, clientVars
<1>2. CASE stream.registered /\ WholeFrame.payload # <<>>
  <2> DEFINE x == [op |-> "data", payload |-> WholeFrame.payload]   p == WholeFrame.payload
             w == FlattenSeq(Items(runtimeQ))
  <2>1. runtimeQ' = Append(runtimeQ, x) /\ arrived' = Append(arrived, WholeFrame) /\ stream' = stream
    BY <1>2 DEF Process
  <2>2. x \in Answers /\ Carried(x) = p /\ x.op = "data" /\ p \in Seq(Bytes)
    BY <1>1 DEF Answers, Carried, FrameSet
  <2>3. Live(runtimeQ) /\ ~ cancelled
    BY <1>2 DEF AnswerInv, EndOnce
  <2> HIDE DEF x, p, w
  <2>4. runtimeQ' \in Seq(Answers) /\ Live(runtimeQ') /\ Closing(runtimeQ')
    BY <2>1, <2>2, <2>3, AnswerBytes, AnswerAdded
  <2>5. w \in Seq(Bytes) /\ FlattenSeq(Items(runtimeQ')) = w \o p
    BY <2>1, <2>2, AnswerBytes, CarriedMore DEF w
  <2>6. arrived' \in Seq(FrameSet) /\ FlattenSeq(Paid(arrived')) = FlattenSeq(Paid(arrived)) \o p
    BY <1>1, <2>1, AnswerBytes, PaidMore, AppendProperties DEF p
  <2>7. AnswerWhole'
    <3> DEFINE c == toClient   h == runtime.handshake   r == runtime.rest
    <3>1. /\ c \in Seq(Bytes) /\ h \in Seq(Bytes) /\ r \in Seq(Bytes)
          /\ c \o (h \o (r \o w)) = FlattenSeq(Paid(arrived))
      BY AnswerBytes DEF w
    <3> HIDE DEF c, h, r
    <3>2. c \o (h \o (r \o (w \o p))) = (c \o (h \o (r \o w))) \o p
      <4>1. c \in Seq(Bytes) /\ h \in Seq(Bytes) /\ r \in Seq(Bytes) /\ w \in Seq(Bytes) /\ p \in Seq(Bytes)
        BY <2>2, <2>5, <3>1
      <4>2. Then(c, Then(h, Then(r, Then(w, p)))) = Then(Then(c, Then(h, Then(r, w))), p)
        BY <4>1, ThenIs
      <4> QED
        BY <4>2, Zenon DEF Then
    <3>3. c \o (h \o (r \o (w \o p))) = FlattenSeq(Paid(arrived'))
      BY <2>6, <3>1, <3>2, Zenon
    <3>4. c = toClient' /\ h = runtime'.handshake /\ r = runtime'.rest
      BY <1>1 DEF c, h, r
    <3> QED
      BY <2>5, <3>3, <3>4, Zenon DEF AnswerWhole
  <2>8. AnswerTypes' /\ HeldOK'
    BY <1>1, <2>1, <2>4, <2>6 DEF AnswerInv, AnswerTypes, HeldOK
  <2>9. EndOnce'
    BY <1>1, <2>1, <2>3, <2>4 DEF AnswerInv, EndOnce
  <2>10. OpenOnce'
    BY <1>1, <2>1 DEF AnswerInv, OpenOnce
  <2> QED
    BY <2>7, <2>8, <2>9, <2>10 DEF AnswerInv
<1>3. CASE stream.registered /\ WholeFrame.payload = <<>>
  BY <1>1, <1>3, EndKeepsAnswer DEF Process
<1>4. CASE ~ stream.registered
  <2>1. UNCHANGED <<stream, runtimeQ, arrived>>
    BY <1>4 DEF Process
  <2>2. OpenOnce'
    BY <1>1, <2>1 DEF AnswerInv, OpenOnce
  <2> QED
    BY <1>1, <2>1, <2>2, AnswerUntouched DEF answerVars
<1> QED
  BY <1>2, <1>3, <1>4

\* The session has stopped, and with it the stream.
LEMMA StopKeepsAnswer ==
  ASSUME DecInv, AnswerInv, Stop
  PROVE  AnswerInv'
<1>1. /\ connQ # <<>> /\ Head(connQ).op # "open" /\ connQ' = Tail(connQ)
      /\ stream' = [stream EXCEPT !.registered = FALSE]
      /\ UNCHANGED <<runtime, cancelled, toClient, reader, arrived>>
  BY DEF Stop, HandleStopped, Job, restVars, clientVars
<1>2. /\ stream' \in [registered : BOOLEAN, known : BOOLEAN, opened : BOOLEAN]
      /\ stream'.opened = stream.opened /\ ~ stream'.registered
  BY <1>1 DEF AnswerInv, AnswerTypes
<1>3. OpenOnce'
  BY <1>1, <1>2, NothingOpened
<1>4. CASE stream.registered
  <2>1. runtimeQ' = Append(runtimeQ, [op |-> "disconnect"])
    BY <1>4 DEF Stop
  <2> QED
    BY <1>1, <1>3, <1>4, <2>1, EndKeepsAnswer
<1>5. CASE ~ stream.registered
  <2>1. runtimeQ' = runtimeQ
    BY <1>5 DEF Stop
  <2>2. EndOnce'
    BY <1>1, <1>2, <2>1 DEF AnswerInv, EndOnce
  <2>3. AnswerTypes' /\ HeldOK' /\ AnswerWhole'
    BY <1>1, <1>2, <2>1 DEF AnswerInv, AnswerTypes, HeldOK, AnswerWhole
  <2> QED
    BY <1>3, <2>2, <2>3 DEF AnswerInv
<1> QED
  BY <1>4, <1>5

\* Nothing has come.
LEMMA AnswerBegins ==
  ASSUME Init
  PROVE  AnswerInv
<1>1. /\ toClient = <<>> /\ runtimeQ = <<>> /\ arrived = <<>> /\ cancelled = FALSE /\ connQ = <<>>
      /\ stream = [registered |-> FALSE, known |-> FALSE, opened |-> FALSE]
      /\ runtime = Fresh /\ reader.at = "request"
  BY DEF Init, DecoderInit, Idle
<1>2. /\ runtime.handshake = <<>> /\ runtime.rest = <<>> /\ ~ runtime.busy /\ ~ runtime.forwarding
      /\ DOMAIN runtime = DOMAIN Fresh
  BY <1>1 DEF Fresh
<1>3. AnswerTypes
  <2>1. <<>> \in Seq(Bytes) /\ <<>> \in Seq(Answers) /\ <<>> \in Seq(FrameSet)
    OBVIOUS
  <2>2. stream \in [registered : BOOLEAN, known : BOOLEAN, opened : BOOLEAN]
    BY <1>1
  <2> QED
    BY <1>1, <1>2, <2>1, <2>2, Zenon DEF AnswerTypes
<1>4. HeldOK
  BY <1>2 DEF HeldOK
<1>5. EndOnce
  BY <1>1, <1>2, NoAnswers DEF EndOnce
<1>6. OpenOnce
  BY <1>1 DEF OpenOnce, OneOpen, NoOpen
<1>7. AnswerWhole
  <2>1. Items(<<>>) = <<>> /\ Paid(<<>>) = <<>>
    BY DEF Items, Paid
  <2>2. FlattenSeq(<<>>) \in Seq(Bytes)
    <3>1. <<>> \in Seq(Answers) /\ [op |-> "disconnect"] \in Answers
      BY DEF Answers
    <3> QED
      BY <2>1, <3>1, CarriedMore
  <2>3. FlattenSeq(<<>>) = <<>> \o (<<>> \o (<<>> \o FlattenSeq(<<>>)))
    <3> DEFINE w == FlattenSeq(<<>>)
    <3>1. w \in Seq(Bytes)
      BY <2>2
    <3> HIDE DEF w
    <3>2. w = <<>> \o (<<>> \o (<<>> \o w))
      BY <3>1, ConcatEmptySeq
    <3> QED
      BY <3>2 DEF w
  <2> QED
    BY <1>1, <1>2, <2>1, <2>3, Zenon DEF AnswerWhole
<1> QED
  BY <1>3, <1>4, <1>5, <1>6, <1>7 DEF AnswerInv

LEMMA AnswerStep == PInv /\ DecInv /\ AnswerInv /\ [Next]_vars => AnswerInv'
<1> SUFFICES ASSUME PInv, DecInv, AnswerInv, [Next]_vars PROVE AnswerInv'
  OBVIOUS
<1>1. CASE UNCHANGED vars
  <2>1. UNCHANGED <<answerVars, stream, arrived, connQ, reader>>
    BY <1>1 DEF vars, linkVars, clientVars
  <2>2. OpenOnce'
    BY <2>1 DEF AnswerInv, OpenOnce
  <2> QED
    BY <2>1, <2>2, AnswerUntouched
<1>2. CASE ReadConnectRequest \/ Receive \/ ReceiveAfterEnd \/ Pass \/ Registry \/ End
  BY <1>2, ReaderKeepsAnswer
<1>3. CASE Start
  BY <1>3, StartKeepsAnswer
<1>4. CASE RuntimeStep
  BY <1>4, ForwardKeepsAnswer, CollectKeepsAnswer, HeaderKeepsAnswer, RestKeepsAnswer,
     DisconnectKeepsAnswer DEF RuntimeStep
<1>5. CASE Open
  BY <1>5, OpenKeepsAnswer
<1>6. CASE SendRequest \/ Close
  BY <1>6, StreamKeepsAnswer
<1>7. CASE Data \/ Read \/ (StartSession /\ UNCHANGED quietVars)
           \/ (SessionEnds /\ UNCHANGED quietVars)
  BY <1>7, LinkKeepsAnswer DEF Data, Read
<1>8. CASE Process
  BY <1>8, ProcessKeepsAnswer
<1>9. CASE Stop
  BY <1>9, StopKeepsAnswer
<1> QED
  BY <1>1, <1>2, <1>3, <1>4, <1>5, <1>6, <1>7, <1>8, <1>9 DEF Next, ReaderStep, ConnectorStep

\* The answer's invariant.
THEOREM AnswerInvariance == Spec => []AnswerInv
<1>1. Init => AnswerInv
  BY AnswerBegins
<1> QED
  BY <1>1, AnswerStep, ProxyInvariance, DecoderInvariance, PTL DEF Spec

\* However the header was cut, whatever came with its end and wherever the sessions end,
\* the client gets what the peer sent it, whole and in order, and nothing waits behind the
\* cancellation of its connection (processHandshakePayload, handleDisconnect).
THEOREM AnswerIsKept == Spec => []AnswerKept
<1>1. ASSUME AnswerInv PROVE AnswerKept
  <2> DEFINE c == toClient   h == runtime.handshake   r == runtime.rest   w == FlattenSeq(Items(runtimeQ))
  <2>1. /\ c \in Seq(Bytes) /\ h \in Seq(Bytes) /\ r \in Seq(Bytes) /\ w \in Seq(Bytes)
        /\ c \o (h \o (r \o w)) = FlattenSeq(Paid(arrived))
    <3>1. [op |-> "disconnect"] \in Answers
      BY DEF Answers
    <3> QED
      BY <1>1, <3>1, AnswerBytes, CarriedMore
  <2>2. Waiting = w /\ Payloads(arrived) = FlattenSeq(Paid(arrived))
    BY DEF Waiting, Items, Payloads, Paid
  <2> HIDE DEF c, h, r, w
  <2>3. ((c \o h) \o r) \o w = c \o (h \o (r \o w))
    <3>1. c \in Seq(Bytes) /\ h \in Seq(Bytes) /\ r \in Seq(Bytes) /\ w \in Seq(Bytes)
      BY <2>1
    <3>2. Then(Then(Then(c, h), r), w) = Then(c, Then(h, Then(r, w)))
      BY <3>1, ThenIs
    <3> QED
      BY <3>2, Zenon DEF Then
  <2>4. ((c \o h) \o r) \o w = FlattenSeq(Paid(arrived))
    BY <2>1, <2>3
  <2>5. cancelled => runtimeQ = <<>> /\ ~ runtime.busy
    BY <1>1 DEF AnswerInv, EndOnce
  <2> QED
    BY <2>2, <2>4, <2>5, Zenon DEF AnswerKept, c, h, r
<1> QED
  BY <1>1, AnswerInvariance, PTL

-----------------------------------------------------------------------------
(* The answer as a reliable channel                                        *)

\* A sequence followed by another extends to it, if that is not empty.
LEMMA FollowedBy ==
  ASSUME NEW s \in Seq(Bytes), NEW x \in Seq(Bytes)
  PROVE  /\ s \o x \in Seq(Bytes)
         /\ x = <<>> => s \o x = s
         /\ x # <<>> => AnswerPath!Extends(s, s \o x)
<1>1. /\ s \o x \in Seq(Bytes) /\ Len(s \o x) = Len(s) + Len(x)
      /\ \A i \in 1 .. Len(s) + Len(x) : (s \o x)[i] = IF i <= Len(s) THEN s[i] ELSE x[i - Len(s)]
  BY ConcatProperties
<1>2. Len(s) \in Nat /\ Len(x) \in Nat
  BY LenProperties
<1>3. x = <<>> => s \o x = s
  BY ConcatEmptySeq
<1>4. ASSUME x # <<>> PROVE AnswerPath!Extends(s, s \o x)
  <2>1. Len(x) # 0
    BY <1>4, EmptySeq
  <2>2. Len(s) < Len(s \o x)
    BY <1>1, <1>2, <2>1
  <2>3. \A i \in 1 .. Len(s) : (s \o x)[i] = s[i]
    BY <1>1, <1>2
  <2> QED
    BY <2>2, <2>3 DEF AnswerPath!Extends
<1> QED
  BY <1>1, <1>3, <1>4

\* What the channel has accepted.
LEMMA AcceptedBytes ==
  ASSUME AnswerInv
  PROVE  Payloads(arrived) \in Seq(Bytes) /\ Payloads(arrived) = FlattenSeq(Paid(arrived))
<1>1. arrived \in Seq(FrameSet)
  BY DEF AnswerInv, AnswerTypes
<1>2. [of |-> 0, payload |-> <<>>] \in FrameSet
  BY DEF FrameSet
<1>3. FlattenSeq(Paid(arrived)) \in Seq(Bytes)
  BY <1>1, <1>2, PaidMore
<1> QED
  BY <1>3 DEF Payloads, Paid

\* What is followed by what is held and what waits is the beginning of it all.
LEMMA BeginningOf ==
  ASSUME NEW c \in Seq(Bytes), NEW h \in Seq(Bytes), NEW r \in Seq(Bytes), NEW w \in Seq(Bytes),
         NEW a, c \o (h \o (r \o w)) = a
  PROVE  c = a \/ AnswerPath!Extends(c, a)
<1>1. h \o (r \o w) \in Seq(Bytes)
  BY ConcatProperties
<1>2. PICK x \in Seq(Bytes) : c \o x = a
  BY <1>1
<1> QED
  BY <1>2, FollowedBy

\* What is sent of the answer's header.
LEMMA HeaderIsCut ==
  ASSUME AnswerInv, Answer
  PROVE  SubSeq(Received, 1, HeaderEnd) \in Seq(Bytes) /\ Len(SubSeq(Received, 1, HeaderEnd)) = HeaderEnd
<1>1. /\ Block /\ Head(runtimeQ).op = "data" /\ UNCHANGED <<cancelled, stream>>
      /\ Len(Received) >= HeaderEnd
  BY DEF Answer, linkVars
<1>2. Payload \in Seq(Bytes) /\ runtime.handshake \in Seq(Bytes)
  BY <1>1, PayloadTaken, AnswerBytes
<1>3. Received \in Seq(Bytes) /\ Len(Received) \in Nat
  BY <1>2, ConcatProperties, LenProperties DEF Received
<1>4. HeaderEnd \in Nat /\ HeaderEnd <= Len(Received)
  BY <1>1, <1>3, ProxyAssumption
<1> QED
  BY <1>3, <1>4, CutInTwo

\* A frame of the stream is accepted by the channel, and nothing else is.
LEMMA FrameIsAccepted ==
  ASSUME DecInv, AnswerInv, Process
  PROVE  arrived' = arrived \/ AnswerPath!Accept("peer")
<1>1. toClient' = toClient /\ WholeFrame \in FrameSet
  BY RoundPreserves DEF Process, LoopRound
<1>2. SUFFICES ASSUME arrived' # arrived PROVE AnswerPath!Accept("peer")
  OBVIOUS
<1>3. arrived' = Append(arrived, WholeFrame) /\ WholeFrame.payload # <<>>
  BY <1>2 DEF Process
<1>4. PICK p \in Seq(Bytes) : p = WholeFrame.payload
  BY <1>1 DEF FrameSet
<1>5. PICK a \in Seq(Bytes) : a = Payloads(arrived) /\ a = FlattenSeq(Paid(arrived))
  BY AcceptedBytes
<1>6. Payloads(arrived') = a \o p
  <2>1. arrived \in Seq(FrameSet)
    BY DEF AnswerInv, AnswerTypes
  <2>2. FlattenSeq(Paid(arrived')) = a \o p
    BY <1>1, <1>3, <1>4, <1>5, <2>1, PaidMore
  <2> QED
    BY <2>2 DEF Payloads, Paid
<1>7. AnswerPath!Extends(a, a \o p)
  BY <1>3, <1>4, FollowedBy
<1> QED
  BY <1>1, <1>5, <1>6, <1>7 DEF AnswerPath!Accept, Site

\* What is sent to the client is delivered by the channel.
LEMMA SentIsDelivered ==
  ASSUME AnswerInv, AnswerInv', arrived' = arrived,
         NEW x \in Seq(Bytes), toClient' = toClient \o x
  PROVE  toClient' = toClient \/ AnswerPath!Deliver("client")
<1>1. PICK c \in Seq(Bytes) : c = toClient
  BY AnswerBytes
<1>2. CASE x = <<>>
  BY <1>1, <1>2, FollowedBy
<1>3. CASE x # <<>>
  <2>1. PICK d \in Seq(Bytes) : d = toClient' /\ AnswerPath!Extends(c, d)
    BY <1>1, <1>3, FollowedBy
  <2>2. PICK a \in Seq(Bytes) : a = Payloads(arrived) /\ a = FlattenSeq(Paid(arrived))
    BY AcceptedBytes
  <2>3. d = a \/ AnswerPath!Extends(d, a)
    <3> DEFINE h == runtime'.handshake   r == runtime'.rest   w == FlattenSeq(Items(runtimeQ'))
    <3>1. h \in Seq(Bytes) /\ r \in Seq(Bytes) /\ runtimeQ' \in Seq(Answers)
      BY DEF AnswerInv, AnswerTypes
    <3>2. d \o (h \o (r \o w)) = a
      BY <2>1, <2>2 DEF AnswerInv, AnswerWhole
    <3>3. [op |-> "disconnect"] \in Answers
      BY DEF Answers
    <3>4. w \in Seq(Bytes)
      BY <3>1, <3>3, CarriedMore
    <3> HIDE DEF h, r, w
    <3> QED
      BY <3>1, <3>2, <3>4, BeginningOf
  <2>4. Payloads(arrived') = a
    BY <2>2
  <2> QED
    BY <1>1, <2>1, <2>2, <2>3, <2>4 DEF AnswerPath!Deliver, Site
<1> QED
  BY <1>2, <1>3

\* Each step of the proxy is one of the channel, or nothing to it.
LEMMA StepOfChannel ==
  ASSUME DecInv, AnswerInv, AnswerInv', [Next]_vars
  PROVE  \/ UNCHANGED <<arrived, toClient>>
         \/ AnswerPath!Accept("peer")
         \/ AnswerPath!Deliver("client")
<1>1. CASE Forward
  <2>1. Block /\ Head(runtimeQ).op = "data" /\ UNCHANGED <<cancelled, stream, arrived>>
    BY <1>1 DEF Forward, linkVars
  <2>2. PICK x \in Seq(Bytes) : toClient' = toClient \o x
    BY <1>1, <2>1, PayloadTaken DEF Forward
  <2> QED
    BY <2>1, <2>2, SentIsDelivered
<1>2. CASE Answer
  <2>1. arrived' = arrived
    BY <1>2 DEF Answer, linkVars
  <2>2. PICK x \in Seq(Bytes) : toClient' = toClient \o x
    BY <1>2, HeaderIsCut DEF Answer
  <2> QED
    BY <2>1, <2>2, SentIsDelivered
<1>3. CASE SendRemainder
  <2>1. arrived' = arrived
    BY <1>3 DEF SendRemainder, linkVars
  <2>2. PICK x \in Seq(Bytes) : toClient' = toClient \o x
    BY <1>3, AnswerBytes DEF SendRemainder
  <2> QED
    BY <2>1, <2>2, SentIsDelivered
<1>4. CASE Process
  <2>1. toClient' = toClient
    BY <1>4 DEF Process
  <2> QED
    BY <1>4, <2>1, FrameIsAccepted
<1>5. CASE ~ (Forward \/ Answer \/ SendRemainder \/ Process)
  <2>1. UNCHANGED <<arrived, toClient>>
    BY <1>5 DEF Next, ReaderStep, RuntimeStep, ConnectorStep, vars, ReadConnectRequest, Receive, Start,
                ReceiveAfterEnd, Pass, End, Collect, SendBuffered, Disconnect, Registry, Open,
                SendRequest, Close, Data, Stop, Read, answerVars, quietVars, linkVars
  <2> QED
    BY <2>1
<1> QED
  BY <1>1, <1>2, <1>3, <1>4, <1>5

\* The proxy implements the channel: every step of it is one of the channel's or none.
THEOREM ImplementsAnswerChannel == Spec => AnswerChannel
<1>1. Init => AnswerPath!Init
  <2>1. SUFFICES ASSUME Init PROVE AnswerPath!Init
    OBVIOUS
  <2>2. toClient = <<>> /\ arrived = <<>>
    BY <2>1 DEF Init
  <2>3. Payloads(arrived) = <<>>
    BY <2>2 DEF Payloads, FlattenSeq
  <2> QED
    BY <2>2, <2>3 DEF AnswerPath!Init
<1>2. ASSUME DecInv, AnswerInv, AnswerInv', [Next]_vars
      PROVE  [AnswerPath!Next]_(AnswerPath!vars)
  <2>1. CASE UNCHANGED <<arrived, toClient>>
    BY <2>1 DEF AnswerPath!vars
  <2>2. CASE AnswerPath!Accept("peer") \/ AnswerPath!Deliver("client")
    BY <2>2 DEF AnswerPath!Next, Site
  <2> QED
    BY <1>2, <2>1, <2>2, StepOfChannel
<1> QED
  BY <1>1, <1>2, DecoderInvariance, AnswerInvariance, PTL
     DEF Spec, AnswerChannel, AnswerPath!Spec

-----------------------------------------------------------------------------
(* What is sent upstream                                                   *)

\* The bytes of the client are sent, or are to be.
Sends ==
  \/ context.established \/ reader.seen
  \/ runtime.todo # <<>> \/ passed # <<>>

\* A CONNECT sends them when its header has gone to the client, and not if it says no.
HeaderFirst ==
  request # "forward" /\ Sends => request = "connect" /\ HeaderEnd <= Len(toClient)

\* What the client got is never taken back.
LEMMA ClientGets ==
  ASSUME AnswerInv, DecInv, [Next]_vars
  PROVE  Len(toClient) \in Nat /\ Len(toClient') \in Nat /\ Len(toClient) <= Len(toClient')
<1>1. toClient \in Seq(Bytes) /\ Len(toClient) \in Nat
  BY LenProperties DEF AnswerInv, AnswerTypes
<1>2. ASSUME NEW x \in Seq(Bytes), toClient' = toClient \o x
      PROVE  Len(toClient') \in Nat /\ Len(toClient) <= Len(toClient')
  <2>1. Len(toClient') = Len(toClient) + Len(x) /\ Len(x) \in Nat
    BY <1>1, <1>2, ConcatProperties, LenProperties
  <2> QED
    BY <1>1, <2>1
<1>3. CASE Forward
  <2>1. Block /\ Head(runtimeQ).op = "data" /\ UNCHANGED <<cancelled, stream>>
    BY <1>3 DEF Forward, linkVars
  <2>2. Payload \in Seq(Bytes)
    BY <2>1, PayloadTaken
  <2> QED
    BY <1>1, <1>2, <1>3, <2>2 DEF Forward
<1>4. CASE Answer
  <2>1. toClient' = toClient \o SubSeq(Received, 1, HeaderEnd)
    BY <1>4 DEF Answer
  <2> QED
    BY <1>1, <1>2, <1>4, <2>1, HeaderIsCut
<1>5. CASE SendRemainder
  <2>1. runtime.rest \in Seq(Bytes) /\ toClient' = toClient \o runtime.rest
    BY <1>5, AnswerBytes DEF SendRemainder
  <2> QED
    BY <1>1, <1>2, <2>1
<1>6. CASE ~ (Forward \/ Answer \/ SendRemainder)
  <2>1. toClient' = toClient
    BY <1>6 DEF Next, ReaderStep, RuntimeStep, ConnectorStep, vars, ReadConnectRequest, Receive, Start,
                ReceiveAfterEnd, Pass, End, Collect, SendBuffered, Disconnect, Registry, Open,
                SendRequest, Close, Data, Process, Stop, Read, answerVars, quietVars
  <2> QED
    BY <1>1, <2>1
<1> QED
  BY <1>1, <1>3, <1>4, <1>5, <1>6

\* Who sends has sent before, or answers now.
LEMMA SendsSince ==
  ASSUME PInv, [Next]_vars, request # "forward", Sends'
  PROVE  Sends \/ Answer
<1>1. /\ DOMAIN runtime = DOMAIN Fresh /\ context \in [established : BOOLEAN, buffered : Seq(Nat)]
      /\ reader \in [at : Places, hand : Nat, seen : BOOLEAN, last : BOOLEAN]
  BY DEF PInv, ClientTypes
<1>2. CASE Start
  <2>1. reader' = [reader EXCEPT !.at = "reading"] /\ UNCHANGED <<runtime, passed>>
        /\ context' = [context EXCEPT !.established = FALSE]
    BY <1>2 DEF Start, Go, answerVars
  <2>2. reader'.seen = reader.seen /\ context'.established = FALSE
    BY <1>1, <2>1
  <2> QED
    BY <2>1, <2>2 DEF Sends
<1>3. CASE Receive
  <2>1. reader'.seen = context.established /\ UNCHANGED <<runtime, passed, context>>
    BY <1>3 DEF Receive, answerVars
  <2> QED
    BY <2>1 DEF Sends
<1>4. CASE Pass
  <2>1. CASE reader.seen
    BY <2>1 DEF Sends
  <2>2. CASE ~ reader.seen
    <3> DEFINE new == IF reader.last THEN "ending" ELSE "reading"
               chunk == IF reader.hand = 0 THEN <<>> ELSE <<reader.hand>>
    <3>1. /\ reader' = [reader EXCEPT !.at = new, !.hand = 0] /\ UNCHANGED <<runtime, passed>>
          /\ context' = [context EXCEPT !.buffered = @ \o chunk]
      BY <1>4, <2>2 DEF Pass, answerVars
    <3> HIDE DEF new, chunk
    <3>2. reader'.seen = reader.seen /\ context'.established = context.established
      BY <1>1, <3>1
    <3> QED
      BY <3>1, <3>2 DEF Sends
  <2> QED
    BY <2>1, <2>2
<1>5. CASE Collect
  <2>1. runtime' = [runtime EXCEPT !.handshake = Received] /\ UNCHANGED <<reader, passed, context>>
    BY <1>5 DEF Collect, clientVars
  <2>2. runtime'.todo = runtime.todo
    BY <1>1, <2>1 DEF Fresh
  <2> QED
    BY <2>1, <2>2 DEF Sends
<1>6. CASE SendBuffered
  BY <1>6 DEF SendBuffered, Sends
<1>7. CASE SendRemainder
  <2>1. runtime' = [runtime EXCEPT !.busy = FALSE, !.rest = <<>>] /\ UNCHANGED <<reader, passed, context>>
    BY <1>7 DEF SendRemainder, clientVars
  <2>2. runtime'.todo = runtime.todo
    BY <1>1, <2>1 DEF Fresh
  <2> QED
    BY <2>1, <2>2 DEF Sends
<1>8. CASE ReadConnectRequest \/ ReceiveAfterEnd \/ End
  <2>1. PICK at \in Places : reader' = [reader EXCEPT !.at = at]
    BY <1>8 DEF ReadConnectRequest, ReceiveAfterEnd, End, Go, Places
  <2>2. UNCHANGED <<runtime, passed, context>>
    BY <1>8 DEF ReadConnectRequest, ReceiveAfterEnd, End, answerVars
  <2>3. reader'.seen = reader.seen
    BY <1>1, <2>1
  <2> QED
    BY <2>2, <2>3 DEF Sends
<1>9. CASE Answer
  BY <1>9
<1>10. CASE ~ (Start \/ Receive \/ Pass \/ Collect \/ SendBuffered \/ SendRemainder \/ Answer
               \/ ReadConnectRequest \/ ReceiveAfterEnd \/ End)
  <2>1. UNCHANGED <<runtime, passed, context, reader>>
    BY <1>10 DEF Next, ReaderStep, RuntimeStep, ConnectorStep, vars, Forward, Disconnect, Registry, Open,
                 SendRequest, Close, Data, Process, Stop, Read, answerVars, quietVars, restVars, clientVars
  <2> QED
    BY <2>1 DEF Sends
<1> QED
  BY <1>2, <1>3, <1>4, <1>5, <1>6, <1>7, <1>8, <1>9, <1>10

LEMMA HeaderStep == PInv /\ DecInv /\ AnswerInv /\ HeaderFirst /\ [Next]_vars => HeaderFirst'
<1> SUFFICES ASSUME PInv, DecInv, AnswerInv, HeaderFirst, [Next]_vars, request' # "forward", Sends'
             PROVE  request' = "connect" /\ HeaderEnd <= Len(toClient')
  BY DEF HeaderFirst
<1>1. request' = request /\ request \in Requests
  BY DEF PInv, ClientTypes, Next, ReaderStep, RuntimeStep, ConnectorStep, vars, ReadConnectRequest, Receive,
         Start, ReceiveAfterEnd, Pass, End, Forward, Collect, Answer, SendBuffered, SendRemainder,
         Disconnect, Registry, Open, SendRequest, Close, Data, Process, Stop, Read, quietVars, restVars
<1>2. Len(toClient) \in Nat /\ Len(toClient') \in Nat /\ Len(toClient) <= Len(toClient')
  BY ClientGets
<1>3. HeaderEnd \in Nat
  BY ProxyAssumption
<1>4. CASE Sends
  <2>1. request = "connect" /\ HeaderEnd <= Len(toClient)
    BY <1>1, <1>4 DEF HeaderFirst
  <2> QED
    BY <1>1, <1>2, <1>3, <2>1
<1>5. CASE Answer /\ ~ Sends
  <2>1. toClient' = toClient \o SubSeq(Received, 1, HeaderEnd)
    BY <1>5 DEF Answer
  <2>2. SubSeq(Received, 1, HeaderEnd) \in Seq(Bytes) /\ Len(SubSeq(Received, 1, HeaderEnd)) = HeaderEnd
    BY <1>5, HeaderIsCut
  <2>3. Len(toClient') = Len(toClient) + HeaderEnd
    BY <2>1, <2>2, AnswerBytes, ConcatProperties
  <2>4. request = "connect"
    <3>1. CASE request = "refused"
      <4>1. context' = context /\ reader' = reader /\ passed' = passed /\ runtime'.todo = <<>>
        BY <1>5, <3>1 DEF Answer, clientVars
      <4>2. ~ Sends'
        BY <1>5, <4>1 DEF Sends
      <4> QED
        BY <4>2
    <3> QED
      BY <1>1, <3>1 DEF Requests
  <2> QED
    BY <1>1, <1>2, <1>3, <2>3, <2>4
<1> QED
  BY <1>1, <1>4, <1>5, SendsSince

\* The body of a forwarded request is sent in order and never waits for the answer; the
\* bytes of a CONNECT are sent only after its client got the header that says 200
\* (start(with:), sendClientDataToUpstream, markEstablished).
THEOREM NothingBeforeHeader == Spec => []UpstreamInOrder
<1>1. Init => HeaderFirst
  BY DEF Init, Idle, Fresh, HeaderFirst, Sends
<1>2. Spec => []HeaderFirst
  BY <1>1, HeaderStep, ProxyInvariance, DecoderInvariance, AnswerInvariance, PTL DEF Spec
<1>3. ASSUME PInv, AnswerInv, HeaderFirst, ForwardedInOrder PROVE UpstreamInOrder
  <2>1. Len(toClient) \in Nat /\ HeaderEnd \in Nat
    BY <1>3, AnswerBytes, LenProperties, ProxyAssumption
  <2>2. request # "forward" /\ passed # <<>> => request = "connect" /\ Len(toClient) >= HeaderEnd
    BY <1>3, <2>1 DEF HeaderFirst, Sends
  <2> QED
    BY <1>3, <2>2, Zenon DEF UpstreamInOrder, ForwardedInOrder
<1> QED
  BY <1>2, <1>3, ProxyInvariance, AnswerInvariance, ForwardNeverWaits, PTL

-----------------------------------------------------------------------------
(* The types                                                               *)

\* What the invariants above leave open: how much is read, and the registry.
Registries ==
  /\ sent <= MaxClient
  /\ active \in BOOLEAN /\ registryQ \in Seq({"add", "remove"})

LEMMA RegistriesStep == PInv /\ Registries /\ [Next]_vars => Registries'
<1> SUFFICES ASSUME PInv, Registries, [Next]_vars PROVE Registries'
  OBVIOUS
<1>1. sent \in Nat /\ MaxClient \in Nat
  BY ProxyAssumption DEF PInv, ClientTypes
<1>2. sent' <= MaxClient
  <2>1. CASE ReadConnectRequest
    BY <2>1 DEF ReadConnectRequest
  <2>2. CASE Receive
    <3>1. sent' = sent \/ (sent' = sent + 1 /\ sent < MaxClient)
      BY <2>2 DEF Receive
    <3> QED
      BY <1>1, <3>1 DEF Registries
  <2>3. CASE ~ (ReadConnectRequest \/ Receive)
    <3>1. sent' = sent
      BY <2>3 DEF Next, ReaderStep, RuntimeStep, ConnectorStep, vars, Start, ReceiveAfterEnd, Pass, End,
             Forward, Collect, Answer, SendBuffered, SendRemainder, Disconnect, Registry, Open,
             SendRequest, Close, Data, Process, Stop, Read, quietVars, restVars, clientVars
    <3> QED
      BY <3>1 DEF Registries
  <2> QED
    BY <2>1, <2>2, <2>3
<1>3. active' \in BOOLEAN /\ registryQ' \in Seq({"add", "remove"})
  <2>1. registryQ \in Seq({"add", "remove"}) /\ active \in BOOLEAN
    BY DEF Registries
  <2>2. CASE ReadConnectRequest \/ End \/ Disconnect
    <3>1. /\ active' = active
          /\ registryQ' = Append(registryQ, "add") \/ registryQ' = Append(registryQ, "remove")
      BY <2>2 DEF ReadConnectRequest, End, Disconnect, RemoveRuntime
    <3> QED
      BY <2>1, <3>1, AppendProperties
  <2>3. CASE Registry
    <3>1. registryQ # <<>> /\ active' = (Head(registryQ) = "add") /\ registryQ' = Tail(registryQ)
      BY <2>3 DEF Registry
    <3> QED
      BY <2>1, <3>1, HeadTailProperties
  <2>4. CASE ~ (ReadConnectRequest \/ End \/ Disconnect \/ Registry)
    <3>1. UNCHANGED <<active, registryQ>>
      BY <2>4 DEF Next, ReaderStep, RuntimeStep, ConnectorStep, vars, Start, Receive, ReceiveAfterEnd,
             Pass, Forward, Collect, Answer, SendBuffered, SendRemainder, Open, SendRequest, Close, Data,
             Process, Stop, Read, quietVars, restVars, registryVars
    <3> QED
      BY <2>1, <3>1
  <2> QED
    BY <2>2, <2>3, <2>4
<1> QED
  BY <1>2, <1>3 DEF Registries

\* What the decoder is, wherever it stands.
LEMMA DecoderTypes ==
  ASSUME DecInv
  PROVE  DecoderTypeOK
<1>1. shape \in Seq(Nat) /\ Len(shape) \in Nat
  BY ShapeIs, LenProperties DEF DecInv
<1>2. PICK k \in 0..Len(shape) :
        IF started THEN DecoderAt(decoder, k, Len(consumed)) ELSE decoder = Empty /\ ~ looping
  BY DEF DecInv, Given
<1>3. /\ DOMAIN decoder = DOMAIN Empty /\ decoder.left \in Nat
      /\ decoder.left = 0 => decoder.frame = 0 /\ decoder.payload = <<>>
  <2>1. CASE decoder = Empty
    BY <2>1 DEF Empty
  <2>2. CASE Between(decoder, k, Len(consumed))
    BY <2>2 DEF Between, Empty
  <2>3. ASSUME NEW q \in Nat, Within(decoder, k, Len(consumed), q)
        PROVE  /\ DOMAIN decoder = DOMAIN Empty /\ decoder.left \in Nat
               /\ decoder.left = 0 => decoder.frame = 0 /\ decoder.payload = <<>>
    <3>1. k + 1 \in 1..Len(shape) /\ q < EndOf(shape, k + 1)
      BY <2>3 DEF Within
    <3>2. EndOf(shape, k + 1) \in Nat
      BY <1>1, <3>1, EndsAre
    <3>3. EndOf(shape, k + 1) - q \in Nat /\ EndOf(shape, k + 1) - q # 0
      BY <2>3, <3>1, <3>2
    <3>4. /\ DOMAIN decoder = {"buffer", "frame", "payload", "left"}
          /\ decoder.left = EndOf(shape, k + 1) - q
      BY <2>3 DEF Within
    <3> QED
      BY <3>3, <3>4 DEF Empty
  <2> QED
    BY <1>2, <2>1, <2>2, <2>3 DEF DecoderAt
<1> QED
  BY <1>3 DEF DecInv, LinkTypes, DecoderTypeOK

\* The variables of the proxy, its decoder and its connector have their types.
THEOREM ProxyTypes == Spec => []TypeOK
<1>1. Init => Registries
  <2>1. 0 <= MaxClient /\ <<>> \in Seq({"add", "remove"})
    BY ProxyAssumption
  <2>2. Init => sent = 0 /\ active = FALSE /\ registryQ = <<>>
    BY DEF Init
  <2> QED
    BY <2>1, <2>2 DEF Registries
<1>2. Spec => []Registries
  BY <1>1, RegistriesStep, ProxyInvariance, PTL DEF Spec
<1>3. ASSUME PInv, DecInv, AnswerInv, Registries PROVE TypeOK
  <2>1. sent \in 0..MaxClient /\ cut \in 0..sent
    BY <1>3, ProxyAssumption DEF PInv, ClientTypes, Registries
  <2>2. reader \in [at : {"request", "start", "reading", "passing", "ending", "ended", "gone"},
                    hand : 0..MaxClient, seen : BOOLEAN, last : BOOLEAN]
    <3>1. reader \in [at : Places, hand : Nat, seen : BOOLEAN, last : BOOLEAN]
          /\ reader.hand \in 0..MaxClient
      BY <1>3, <2>1, ProxyAssumption DEF PInv, ClientTypes, ReaderOK
    <3> QED
      BY <3>1 DEF Places
  <2>3. Range(registryQ) \subseteq {"add", "remove"}
    BY <1>3, ElementOfSeq, LenProperties DEF Registries, Range
  <2>4. DecoderTypeOK
    BY <1>3, DecoderTypes
  <2>5. /\ DOMAIN runtime = DOMAIN Fresh /\ active \in BOOLEAN
        /\ stream \in [registered : BOOLEAN, known : BOOLEAN, opened : BOOLEAN]
    BY <1>3 DEF AnswerInv, AnswerTypes, Registries
  <2> QED
    BY <2>1, <2>2, <2>3, <2>4, <2>5, Zenon DEF TypeOK
<1> QED
  BY <1>2, <1>3, ProxyInvariance, DecoderInvariance, AnswerInvariance, PTL

=============================================================================

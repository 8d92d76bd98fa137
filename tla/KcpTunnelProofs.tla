-------------------------- MODULE KcpTunnelProofs --------------------------
(***************************************************************************)
(* Proofs about the connectors, for any number of connectors, streams,     *)
(* frames and removals.                                                    *)
(***************************************************************************)
EXTENDS KcpTunConnectorManager, TLAPS

-----------------------------------------------------------------------------
(* The inductive invariant                                                 *)

Frames == Inbound(Commands, Streams \cup {Bootstrap})
Reports == [con : Connectors, job : Frames \cup {Stopped}]
Jobs == Frames \cup [op : {"start", "open", "close"}, sid : Streams] \cup {StopCall, Stopped}
Blocks == [op : {"get"}, sid : Streams] \cup [op : {"recycle"}, con : Connectors]
            \cup [op : {"remove"}]

\* What waits in the queues of the connectors and sessions has a type.
QueuesOK ==
  /\ connQ \in [Connectors -> Seq(Jobs)]
  /\ cbQ \in Seq(Reports)
  /\ stopping \in [Connectors -> BOOLEAN]
  /\ known \in [Connectors -> SUBSET Streams]

ManagerOK ==
  /\ mgrQ \in Seq(Blocks)
  /\ directory \in created \cup {None}
  /\ dropped \subseteq created /\ created \subseteq Connectors
  /\ pc \in [Streams -> Steps] /\ of \in [Streams -> Connectors \cup {None}]

\* The fields of one connector, as StreamsAgree wants them.
Agrees(k) ==
  /\ k.pending \subseteq k.streams /\ k.established \subseteq k.streams
  /\ k.waiting \subseteq k.streams
  /\ k.pending \cap k.established = {}
  /\ IF k.ready THEN k.waiting = {} ELSE k.pending = {} /\ k.established = {}

StopOf(c) == [con |-> c, job |-> Stopped]
StopInCallbacks(c) == \E j \in 1 .. Len(cbQ) : cbQ[j] = StopOf(c)

\* When c's session does not run the report of its end comes after all data that waits.
FramesFirst(c) ==
  /\ \A i \in 1 .. Len(connQ[c]) : connQ[c][i].op = "data" =>
       \/ \E j \in 1 .. Len(connQ[c]) : i < j /\ connQ[c][j] = Stopped
       \/ StopInCallbacks(c)
  /\ \A i \in 1 .. Len(cbQ) : cbQ[i].con = c /\ cbQ[i].job.op = "data" =>
       \E j \in 1 .. Len(cbQ) : i < j /\ cbQ[j] = StopOf(c)

\* ... and it comes whenever c takes its control channel for ready.
ReportComes(c) ==
  con[c].ready =>
    \/ \E j \in 1 .. Len(connQ[c]) : connQ[c][j] = Stopped
    \/ StopInCallbacks(c)

ReportLast(c) == session[c] # "running" => FramesFirst(c) /\ ReportComes(c)

CInv ==
  /\ ConnectorTypeOK /\ QueuesOK
  /\ \A c \in Connectors : Agrees(con[c])
  /\ \A c \in Connectors : ReportLast(c)

IInv == CInv /\ ManagerOK

-----------------------------------------------------------------------------
(* Sequences and fields                                                    *)

\* A queue without its head.
LEMMA TailOf ==
  ASSUME NEW S, NEW s \in Seq(S), s # <<>>
  PROVE  /\ Tail(s) \in Seq(S) /\ Head(s) \in S /\ Head(s) = s[1]
         /\ Len(s) \in Nat /\ Len(s) > 0 /\ Len(Tail(s)) = Len(s) - 1
         /\ \A i \in 1 .. Len(Tail(s)) : Tail(s)[i] = s[i + 1]
OBVIOUS

\* A queue with one more element.
LEMMA OneMore ==
  ASSUME NEW S, NEW s \in Seq(S), NEW x \in S
  PROVE  /\ Append(s, x) \in Seq(S) /\ s \o <<x>> \in Seq(S)
         /\ s \o <<x>> = Append(s, x)
         /\ Len(s) \in Nat /\ Len(Append(s, x)) = Len(s) + 1
         /\ \A i \in 1 .. Len(s) : Append(s, x)[i] = s[i]
         /\ Append(s, x)[Len(s) + 1] = x
OBVIOUS

\* The kinds of jobs are told apart by op.
LEMMA JobKinds ==
  /\ Stopped \in Jobs /\ StopCall \in Jobs /\ Frames \subseteq Jobs
  /\ Stopped.op = "stopped" /\ StopCall.op = "stop"
  /\ \A f \in Frames : f.op = "data" /\ f.sid \in Streams \cup {Bootstrap} /\ f.cmd \in Commands
  /\ \A j \in Jobs : j.op = "data" => j \in Frames
  /\ \A j \in Jobs : j.op = "stopped" => j = Stopped
  /\ \A j \in Jobs : j.op \in {"start", "open", "close"} => j.sid \in Streams
BY DEF Jobs, Frames, Inbound, Stopped, StopCall

\* The two ways to say that the streams of all connectors agree.
LEMMA AgreesIs == StreamsAgree <=> \A c \in Connectors : Agrees(con[c])
BY DEF StreamsAgree, Agrees

\* Cleared fields are fields, agree, and are not ready.
LEMMA ClearedIs ==
  Cleared \in Fields /\ Agrees(Cleared) /\ ~ Cleared.ready
BY DEF Cleared, Fields, Agrees

\* Marking a stream as established keeps the fields in agreement.
LEMMA MarkKeeps ==
  ASSUME NEW k \in Fields, NEW s \in Streams, Agrees(k)
  PROVE  Mark(k, s) \in Fields /\ Agrees(Mark(k, s)) /\ Mark(k, s).ready = k.ready
BY DEF Mark, Fields, Agrees

\* Clearing a stream keeps the fields in agreement.
LEMMA ClearKeeps ==
  ASSUME NEW k \in Fields, NEW s, Agrees(k)
  PROVE  Clear(k, s) \in Fields /\ Agrees(Clear(k, s)) /\ Clear(k, s).ready = k.ready
BY DEF Clear, Fields, Agrees

\* What Drain makes of the fields of a connector that is, or becomes, ready.
Drained(k) == [Opening(k, k.waiting) EXCEPT !.waiting = {}]
\* Draining keeps the fields in agreement, and leaves none waiting.
LEMMA DrainKeeps ==
  ASSUME NEW k \in Fields, Agrees(k)
  PROVE  /\ Drained([k EXCEPT !.ready = TRUE]) \in Fields
         /\ Agrees(Drained([k EXCEPT !.ready = TRUE]))
         /\ Drained([k EXCEPT !.started = TRUE, !.ready = TRUE, !.timer = TRUE]) \in Fields
         /\ Agrees(Drained([k EXCEPT !.started = TRUE, !.ready = TRUE, !.timer = TRUE]))
<1> DEFINE b == [k EXCEPT !.ready = TRUE]
           a == [k EXCEPT !.started = TRUE, !.ready = TRUE, !.timer = TRUE]
<1>1. /\ a \in Fields /\ a.ready /\ b \in Fields /\ b.ready
      /\ a.streams = k.streams /\ a.waiting = k.waiting
      /\ a.pending = k.pending /\ a.established = k.established
      /\ b.streams = k.streams /\ b.waiting = k.waiting
      /\ b.pending = k.pending /\ b.established = k.established
  BY DEF Fields
<1>2. ASSUME NEW x \in Fields, x.ready,
             x.streams = k.streams, x.waiting = k.waiting,
             x.pending = k.pending, x.established = k.established
      PROVE  Drained(x) \in Fields /\ Agrees(Drained(x))
  BY <1>2 DEF Drained, Opening, Fields, Agrees
<1> QED
  BY <1>1, <1>2

\* The fields after openStream: the stream gets its handler, and waits unless the
\* control channel is ready.
WithHandler(k, s) == [k EXCEPT !.streams = @ \cup {s}]
WithWaiting(k, s) == [WithHandler(k, s) EXCEPT !.waiting = @ \cup {s}]

\* Either keeps the fields in agreement.
LEMMA OpenKeeps ==
  ASSUME NEW k \in Fields, NEW s \in Streams, Agrees(k)
  PROVE  /\ WithHandler(k, s).ready = k.ready /\ WithWaiting(k, s).ready = k.ready
         /\ k.ready => /\ Opening(WithHandler(k, s), {s}) \in Fields
                       /\ Agrees(Opening(WithHandler(k, s), {s}))
         /\ ~ k.ready => WithWaiting(k, s) \in Fields /\ Agrees(WithWaiting(k, s))
<1> DEFINE h == WithHandler(k, s)
<1>1. /\ h \in Fields /\ h.ready = k.ready /\ h.streams = k.streams \cup {s}
      /\ h.waiting = k.waiting /\ h.pending = k.pending /\ h.established = k.established
  BY DEF Fields, WithHandler
<1> HIDE DEF h
<1>2. ASSUME k.ready PROVE Opening(h, {s}) \in Fields /\ Agrees(Opening(h, {s}))
  BY <1>1, <1>2 DEF Opening, Fields, Agrees
<1> DEFINE w == [h EXCEPT !.waiting = @ \cup {s}]
<1>3. w.ready = k.ready /\ (~ k.ready => w \in Fields /\ Agrees(w))
  BY <1>1 DEF Fields, Agrees
<1> QED
  BY <1>1, <1>2, <1>3 DEF WithWaiting, h

\* A fresh manager and its idle connectors satisfy the inductive invariant.
THEOREM TunnelInit == Init => IInv
<1> SUFFICES ASSUME Init PROVE IInv
  OBVIOUS
<1>1. ConnectorTypeOK /\ QueuesOK
  BY ClearedIs DEF Init, ConnectorInit, ConnectorTypeOK, QueuesOK
<1>2. \A c \in Connectors : con[c] = Cleared /\ connQ[c] = <<>>
  BY DEF Init, ConnectorInit
<1>3. \A c \in Connectors : Agrees(con[c]) /\ ReportLast(c)
  BY <1>2, ClearedIs DEF Init, ConnectorInit, ReportLast, FramesFirst, ReportComes
<1>4. ManagerOK
  BY DEF Init, ManagerOK, Steps
<1> QED
  BY <1>1, <1>3, <1>4 DEF IInv, CInv

-----------------------------------------------------------------------------
(* Steps that leave a connector's report where it is                       *)

\* A connector whose fields, session and queue stay keeps its report while the callback
\* queue stays, or gets something about another session.
LEMMA Untouched ==
  ASSUME CInv, NEW c \in Connectors,
         con'[c] = con[c], session'[c] = session[c], connQ'[c] = connQ[c],
         \/ cbQ' = cbQ
         \/ \E x \in Reports : x.con # c /\ cbQ' = Append(cbQ, x)
  PROVE  ReportLast(c)'
<1> cbQ \in Seq(Reports)
  BY DEF CInv, QueuesOK
<1>1. CASE cbQ' = cbQ
  <2> SUFFICES ASSUME session[c] # "running"
               PROVE  FramesFirst(c)' /\ ReportComes(c)'
    BY DEF ReportLast
  <2>1. FramesFirst(c) /\ ReportComes(c)
    BY DEF CInv, ReportLast
  <2>2. FramesFirst(c)'
    BY <1>1, <2>1 DEF FramesFirst, StopInCallbacks, StopOf
  <2>3. ReportComes(c)'
    BY <1>1, <2>1 DEF ReportComes, StopInCallbacks, StopOf
  <2> QED
    BY <2>2, <2>3
<1>2. ASSUME NEW x \in Reports, x.con # c, cbQ' = Append(cbQ, x)
      PROVE  ReportLast(c)'
  <2> SUFFICES ASSUME session[c] # "running"
               PROVE  FramesFirst(c)' /\ ReportComes(c)'
    BY DEF ReportLast
  <2>1. FramesFirst(c) /\ ReportComes(c)
    BY DEF CInv, ReportLast
  <2>2. Len(cbQ') = Len(cbQ) + 1 /\ Len(cbQ) \in Nat /\ cbQ'[Len(cbQ) + 1] = x
        /\ \A i \in 1 .. Len(cbQ) : cbQ'[i] = cbQ[i]
    BY <1>2, OneMore
  <2>3. StopInCallbacks(c) => StopInCallbacks(c)'
    BY <2>2 DEF StopInCallbacks, StopOf
  <2>4. ReportComes(c)'
    BY <2>1, <2>3 DEF ReportComes
  <2>5. ASSUME NEW i \in 1 .. Len(cbQ'), cbQ'[i].con = c, cbQ'[i].job.op = "data"
        PROVE  \E j \in 1 .. Len(cbQ') : i < j /\ cbQ'[j] = StopOf(c)
    <3>1. i \in 1 .. Len(cbQ)
      BY <1>2, <2>2, <2>5
    <3>2. PICK j \in 1 .. Len(cbQ) : i < j /\ cbQ[j] = StopOf(c)
      BY <2>1, <2>2, <2>5, <3>1 DEF FramesFirst
    <3> QED
      BY <2>2, <3>2
  <2>6. FramesFirst(c)'
    BY <2>1, <2>3, <2>5 DEF FramesFirst, StopOf
  <2> QED
    BY <2>4, <2>6
<1> QED
  BY <1>1, <1>2

\* A connector runs a block of its queue that sets its fields to k.
LEMMA BlockRuns ==
  ASSUME CInv, NEW c \in Connectors, NEW k \in Fields, NEW op,
         Take(c, op), con' = [con EXCEPT ![c] = k], Agrees(k),
         UNCHANGED <<session, cbQ>>,
         stopping' \in [Connectors -> BOOLEAN], known' \in [Connectors -> SUBSET Streams],
         told' \in [Streams -> SUBSET {"connect", "disconnect"}],
         op = "stopped" => ~ k.ready,
         k.ready => con[c].ready \/ op = "data"
  PROVE  CInv'
<1> con \in [Connectors -> Fields] /\ connQ \in [Connectors -> Seq(Jobs)]
  BY DEF CInv, ConnectorTypeOK, QueuesOK
<1>1. /\ con' \in [Connectors -> Fields] /\ con'[c] = k
      /\ \A d \in Connectors \ {c} : con'[d] = con[d]
  OBVIOUS
<1> DEFINE q == connQ[c]
<1>2. q \in Seq(Jobs) /\ q # <<>> /\ Head(q).op = op
  BY DEF Take
<1>3. /\ connQ' \in [Connectors -> Seq(Jobs)] /\ connQ'[c] = Tail(q)
      /\ \A d \in Connectors \ {c} : connQ'[d] = connQ[d]
  BY <1>2, TailOf DEF Take
<1>4. ConnectorTypeOK' /\ QueuesOK'
  BY <1>1, <1>3 DEF CInv, ConnectorTypeOK, QueuesOK
<1>5. \A d \in Connectors : Agrees(con[d])'
  BY <1>1 DEF CInv
<1>6. ASSUME NEW d \in Connectors \ {c} PROVE ReportLast(d)'
  BY <1>1, <1>3, Untouched
<1>7. ReportLast(c)'
  <2> SUFFICES ASSUME session[c] # "running"
               PROVE  FramesFirst(c)' /\ ReportComes(c)'
    BY DEF ReportLast
  <2>1. FramesFirst(c) /\ ReportComes(c)
    BY DEF CInv, ReportLast
  <2>2. /\ Len(q) \in Nat /\ Len(q) > 0 /\ Len(Tail(q)) = Len(q) - 1
        /\ q[1].op = op
        /\ \A i \in 1 .. Len(Tail(q)) : Tail(q)[i] = q[i + 1]
    BY <1>2, TailOf
  <2>3. \A j \in 1 .. Len(q) : j # 1 =>
          j - 1 \in 1 .. Len(Tail(q)) /\ Tail(q)[j - 1] = q[j]
    BY <2>2
  <2>4. FramesFirst(c)'
    <3>1. ASSUME NEW i \in 1 .. Len(Tail(q)), Tail(q)[i].op = "data", ~ StopInCallbacks(c)
          PROVE  \E j \in 1 .. Len(Tail(q)) : i < j /\ Tail(q)[j] = Stopped
      <4>1. i + 1 \in 1 .. Len(q) /\ q[i + 1].op = "data"
        BY <2>2, <3>1
      <4>2. PICK j \in 1 .. Len(q) : i + 1 < j /\ q[j] = Stopped
        BY <2>1, <3>1, <4>1 DEF FramesFirst
      <4>3. j # 1 /\ i < j - 1
        BY <2>2, <4>2
      <4> QED
        BY <2>3, <4>2, <4>3
    <3> QED
      BY <1>3, <2>1, <3>1 DEF FramesFirst, StopInCallbacks
  <2>5. ReportComes(c)'
    <3> SUFFICES ASSUME k.ready, ~ StopInCallbacks(c)
                 PROVE  \E j \in 1 .. Len(Tail(q)) : Tail(q)[j] = Stopped
      BY <1>1, <1>3 DEF ReportComes, StopInCallbacks
    <3>1. CASE op = "data"
      <4>1. PICK j \in 1 .. Len(q) : 1 < j /\ q[j] = Stopped
        BY <2>1, <2>2, <3>1 DEF FramesFirst
      <4>2. j # 1
        BY <2>2, <4>1
      <4> QED
        BY <2>3, <4>1, <4>2
    <3>2. CASE con[c].ready
      <4>1. PICK j \in 1 .. Len(q) : q[j] = Stopped
        BY <2>1, <3>2 DEF ReportComes
      <4>2. j # 1
        BY <2>2, <4>1, JobKinds
      <4> QED
        BY <2>3, <4>1, <4>2
    <3> QED
      BY <3>1, <3>2
  <2> QED
    BY <2>4, <2>5
<1> QED
  BY <1>4, <1>5, <1>6, <1>7 DEF CInv

-----------------------------------------------------------------------------
(* The blocks of a connector                                               *)

\* Types a block relies on.
LEMMA BlockTypes ==
  ASSUME CInv, NEW c \in Connectors, NEW op, Take(c, op)
  PROVE  /\ con \in [Connectors -> Fields] /\ con[c] \in Fields /\ Agrees(con[c])
         /\ stopping \in [Connectors -> BOOLEAN] /\ known \in [Connectors -> SUBSET Streams]
         /\ told \in [Streams -> SUBSET {"connect", "disconnect"}]
         /\ Head(connQ[c]) \in Jobs /\ Head(connQ[c]).op = op
<1> connQ[c] \in Seq(Jobs) /\ connQ[c] # <<>>
  BY DEF CInv, QueuesOK, Take
<1> QED
  BY TailOf DEF CInv, ConnectorTypeOK, QueuesOK, Take

\* The remote comes to know the streams of SYNs; handlers are told what they are told.
LEMMA SynType ==
  ASSUME known \in [Connectors -> SUBSET Streams], NEW c \in Connectors,
         NEW S \in SUBSET Streams, SendSyn(c, S)
  PROVE  known' \in [Connectors -> SUBSET Streams]
BY DEF SendSyn

\* Handlers are told that they are connected or disconnected, nothing else.
LEMMA TellType ==
  ASSUME told \in [Streams -> SUBSET {"connect", "disconnect"}],
         NEW S, NEW what \in {"connect", "disconnect"}, Tell(S, what)
  PROVE  told' \in [Streams -> SUBSET {"connect", "disconnect"}]
BY DEF Tell

\* start that changes nothing.
LEMMA StartNothing ==
  ASSUME CInv, NEW c \in Connectors, StartAgain(c) \/ StartThrows(c)
  PROVE  CInv'
<1>1. Take(c, "start")
  BY DEF StartAgain, StartThrows
<1>2. con' = [con EXCEPT ![c] = con[c]]
  BY <1>1, BlockTypes DEF StartAgain, StartThrows
<1>3. UNCHANGED <<session, stopping, cbQ, told, known>>
  BY DEF StartAgain, StartThrows, sessionVars, remoteVars
<1> QED
  BY <1>1, <1>2, <1>3, BlockTypes, BlockRuns

\* stop() forgets the streams, so that the connector trusts no session.
LEMMA StopPreserves ==
  ASSUME CInv, NEW c \in Connectors, StopConnector(c)
  PROVE  CInv'
<1>1. Take(c, "stop") /\ con' = [con EXCEPT ![c] = Cleared]
  BY DEF StopConnector
<1>2. stopping' \in [Connectors -> BOOLEAN] /\ UNCHANGED <<session, cbQ, told, known>>
  BY <1>1, BlockTypes DEF StopConnector, remoteVars
<1> QED
  BY <1>1, <1>2, BlockTypes, BlockRuns, ClearedIs

\* openStream, on a connector that is ready and on one that is not.
LEMMA OpenPreserves ==
  ASSUME CInv, NEW c \in Connectors, OpenStream(c)
  PROVE  CInv'
<1> DEFINE s == Argument(c)
           h == WithHandler(con[c], s)
           w == WithWaiting(con[c], s)
<1>1. Take(c, "open") /\ UNCHANGED <<session, stopping, cbQ>>
  BY DEF OpenStream, sessionVars
<1>2. s \in Streams
  BY <1>1, BlockTypes, JobKinds DEF Argument
<1>3. \/ /\ h.ready /\ con' = [con EXCEPT ![c] = Opening(h, {s})]
         /\ SendSyn(c, {s}) /\ Tell({s}, "connect")
      \/ ~ h.ready /\ con' = [con EXCEPT ![c] = w] /\ UNCHANGED <<known, told>>
  BY DEF OpenStream, WithHandler, WithWaiting
<1> HIDE DEF s
<1>4. /\ h.ready = con[c].ready /\ w.ready = con[c].ready
      /\ con[c].ready => Opening(h, {s}) \in Fields /\ Agrees(Opening(h, {s}))
      /\ ~ con[c].ready => w \in Fields /\ Agrees(w)
  BY <1>1, <1>2, BlockTypes, OpenKeeps
<1> HIDE DEF h, w
<1>5. CASE /\ h.ready /\ con' = [con EXCEPT ![c] = Opening(h, {s})]
           /\ SendSyn(c, {s}) /\ Tell({s}, "connect")
  <2>1. /\ known' \in [Connectors -> SUBSET Streams]
        /\ told' \in [Streams -> SUBSET {"connect", "disconnect"}]
    BY <1>1, <1>2, <1>5, BlockTypes, SynType, TellType
  <2> QED
    BY <1>1, <1>4, <1>5, <2>1, BlockTypes, BlockRuns
<1>6. CASE ~ h.ready /\ con' = [con EXCEPT ![c] = w] /\ UNCHANGED <<known, told>>
  BY <1>1, <1>4, <1>6, BlockTypes, BlockRuns
<1> QED
  BY <1>3, <1>5, <1>6

\* closeStream.
LEMMA ClosePreserves ==
  ASSUME CInv, NEW c \in Connectors, CloseStream(c)
  PROVE  CInv'
<1> DEFINE k == Clear(con[c], Argument(c))
<1>1. Take(c, "close") /\ con' = [con EXCEPT ![c] = k]
  BY BlockTypes DEF CloseStream
<1>2. UNCHANGED <<session, stopping, cbQ, told, known>>
  BY DEF CloseStream, sessionVars, remoteVars
<1>3. k \in Fields /\ Agrees(k) /\ k.ready = con[c].ready
  BY <1>1, BlockTypes, ClearKeeps
<1> HIDE DEF k
<1> QED
  BY <1>1, <1>2, <1>3, BlockTypes, BlockRuns

\* handleSessionStop: the one block that takes the report out of the queue.
LEMMA StoppedPreserves ==
  ASSUME CInv, NEW c \in Connectors, SessionStopped(c)
  PROVE  CInv'
<1>1. Take(c, "stopped") /\ con' = [con EXCEPT ![c] = Cleared]
  BY DEF SessionStopped
<1>2. /\ UNCHANGED <<session, stopping, cbQ, known>>
      /\ told' \in [Streams -> SUBSET {"connect", "disconnect"}]
  BY <1>1, BlockTypes, TellType DEF SessionStopped, sessionVars, remoteVars
<1> QED
  BY <1>1, <1>2, BlockTypes, BlockRuns, ClearedIs

\* The six kinds of frames.
LEMMA InboundPreserves ==
  ASSUME CInv, NEW c \in Connectors,
         \/ InboundBootstrap(c) \/ InboundUnknown(c) \/ InboundSyn(c) \/ InboundFin(c)
         \/ InboundPshOrNop(c) \/ InboundUpd(c)
  PROVE  CInv'
<1> DEFINE s == Argument(c)
<1>1. Take(c, "data") /\ UNCHANGED <<session, stopping, cbQ>>
  BY DEF InboundBootstrap, InboundUnknown, InboundSyn, InboundFin, InboundPshOrNop,
         InboundUpd, TakeFrame, sessionVars
<1>2. ASSUME NEW k \in Fields, Agrees(k), con' = [con EXCEPT ![c] = k],
             known' \in [Connectors -> SUBSET Streams],
             told' \in [Streams -> SUBSET {"connect", "disconnect"}]
      PROVE  CInv'
  BY <1>1, <1>2, BlockTypes, BlockRuns
<1>3. CASE InboundBootstrap(c)
  <2>1. con' = [con EXCEPT ![c] = Drained([con[c] EXCEPT !.ready = TRUE])]
    BY <1>3 DEF InboundBootstrap, Drain, Drained
  <2>2. con[c].waiting \in SUBSET Streams
    BY <1>1, BlockTypes DEF Fields
  <2>3. /\ known' \in [Connectors -> SUBSET Streams]
        /\ told' \in [Streams -> SUBSET {"connect", "disconnect"}]
    BY <1>1, <1>3, <2>2, BlockTypes, SynType, TellType DEF InboundBootstrap, Drain
  <2> QED
    BY <1>1, <1>2, <2>1, <2>3, BlockTypes, DrainKeeps
<1>4. CASE InboundUnknown(c)
  <2>1. con' = [con EXCEPT ![c] = con[c]] \/ con' = [con EXCEPT ![c] = Clear(con[c], s)]
    BY <1>1, <1>4, BlockTypes DEF InboundUnknown
  <2>2. UNCHANGED <<told, known>>
    BY <1>4 DEF InboundUnknown, remoteVars
  <2> QED
    BY <1>1, <1>2, <2>1, <2>2, BlockTypes, ClearKeeps
<1>5. ASSUME Registered(c) PROVE s \in Streams
  BY <1>1, <1>5, BlockTypes DEF Registered, Fields
<1>6. CASE InboundSyn(c)
  <2>1. /\ s \in Streams /\ con' = [con EXCEPT ![c] = Mark(con[c], s)]
        /\ Tell({s}, "connect") /\ known' = known
    BY <1>1, <1>5, <1>6, BlockTypes DEF InboundSyn, remoteVars
  <2> QED
    BY <1>1, <1>2, <2>1, BlockTypes, MarkKeeps, TellType
<1>7. CASE InboundFin(c)
  <2>1. /\ con' = [con EXCEPT ![c] = Clear(con[c], s)]
        /\ Tell({s}, "disconnect") /\ known' = known
    BY <1>1, <1>7, BlockTypes DEF InboundFin, remoteVars
  <2> QED
    BY <1>1, <1>2, <2>1, BlockTypes, ClearKeeps, TellType
<1>8. CASE InboundPshOrNop(c)
  <2>1. /\ s \in Streams /\ con' = [con EXCEPT ![c] = Mark(con[c], s)]
        /\ told' = told /\ known' = known
    BY <1>1, <1>5, <1>8, BlockTypes DEF InboundPshOrNop, remoteVars
  <2> QED
    BY <1>1, <1>2, <2>1, BlockTypes, MarkKeeps
<1>9. CASE InboundUpd(c)
  <2>1. con' = [con EXCEPT ![c] = con[c]] /\ told' = told /\ known' = known
    BY <1>1, <1>9, BlockTypes DEF InboundUpd, remoteVars
  <2> QED
    BY <1>1, <1>2, <2>1, BlockTypes
<1> QED
  BY <1>3, <1>4, <1>6, <1>7, <1>8, <1>9

\* The blocks of a connector that nobody waits for.
LEMMA ProcessPreserves ==
  ASSUME CInv, NEW c \in Connectors, Process(c)
  PROVE  CInv'
BY StopPreserves, OpenPreserves, ClosePreserves, InboundPreserves DEF Process

-----------------------------------------------------------------------------
(* Sessions, callbacks and calls                                           *)

\* A session ends: the report of it goes behind everything in the callback queue.
LEMMA ShutdownPreserves ==
  ASSUME CInv, NEW c \in Connectors, Shutdown(c),
         UNCHANGED <<con, connQ, told, known>>, stopping' \in [Connectors -> BOOLEAN]
  PROVE  CInv'
<1>1. cbQ \in Seq(Reports) /\ session \in [Connectors -> {"idle", "running", "stopped"}]
  BY DEF CInv, ConnectorTypeOK, QueuesOK
<1>2. StopOf(c) \in Reports /\ StopOf(c).con = c
  BY DEF StopOf, Reports
<1>3. cbQ' = Append(cbQ, StopOf(c)) /\ session' = [session EXCEPT ![c] = "stopped"]
  BY DEF Shutdown, StopOf
<1>4. /\ cbQ' \in Seq(Reports) /\ Len(cbQ') = Len(cbQ) + 1 /\ Len(cbQ) \in Nat
      /\ cbQ'[Len(cbQ) + 1] = StopOf(c)
  BY <1>1, <1>2, <1>3, OneMore
<1>5. ConnectorTypeOK' /\ QueuesOK'
  BY <1>1, <1>3, <1>4 DEF CInv, ConnectorTypeOK, QueuesOK
<1>6. \A d \in Connectors : Agrees(con[d])'
  BY DEF CInv
<1>7. ASSUME NEW d \in Connectors \ {c} PROVE ReportLast(d)'
  BY <1>1, <1>2, <1>3, Untouched
<1>8. ReportLast(c)'
  <2>1. StopInCallbacks(c)'
    BY <1>4 DEF StopInCallbacks, StopOf
  <2>2. ASSUME NEW i \in 1 .. Len(cbQ'), cbQ'[i].job.op = "data"
        PROVE  i < Len(cbQ) + 1
    <3>1. i # Len(cbQ) + 1
      BY <1>4, <2>2, JobKinds DEF StopOf
    <3> QED
      BY <1>4, <3>1
  <2>3. FramesFirst(c)'
    BY <1>4, <2>1, <2>2 DEF FramesFirst, StopOf
  <2> QED
    BY <2>1, <2>3 DEF ReportLast, ReportComes
<1> QED
  BY <1>5, <1>6, <1>7, <1>8 DEF CInv

\* A stop whose turn has come shuts the session down, unless it is down already.
LEMMA SessionStopPreserves ==
  ASSUME CInv, NEW c \in Connectors, SessionStop(c)
  PROVE  CInv'
<1>1. /\ UNCHANGED <<con, connQ, told, known>> /\ stopping' \in [Connectors -> BOOLEAN]
      /\ Shutdown(c) \/ UNCHANGED <<session, cbQ>>
  BY DEF SessionStop, connectorVars, remoteVars, CInv, QueuesOK
<1>2. CASE UNCHANGED <<session, cbQ>>
  <2>1. \A d \in Connectors : ReportLast(d)'
    BY <1>1, <1>2, Untouched
  <2> QED
    BY <1>1, <1>2, <2>1 DEF CInv, ConnectorTypeOK, QueuesOK
<1> QED
  BY <1>1, <1>2, ShutdownPreserves

\* A session that fails, that reads, and the keep-alive timer.
LEMMA EventsPreserve ==
  ASSUME CInv, NEW c \in Connectors, SessionFails(c) \/ SessionReads(c) \/ KeepAlive(c)
  PROVE  CInv'
<1>1. CASE SessionFails(c)
  <2>1. Shutdown(c) /\ UNCHANGED <<con, connQ, told, known, stopping>>
    BY <1>1 DEF SessionFails, connectorVars, remoteVars
  <2> QED
    BY <2>1, ShutdownPreserves DEF CInv, QueuesOK
<1>2. CASE SessionReads(c)
  <2>1. /\ session[c] = "running"
        /\ UNCHANGED <<con, connQ, session, stopping, told, known>>
    BY <1>2 DEF SessionReads, connectorVars
  <2>2. PICK f \in Inbound(Commands, known[c]) \cup Inbound({"nop"}, {Bootstrap}) :
          cbQ' = Append(cbQ, [con |-> c, job |-> f])
    BY <1>2 DEF SessionReads
  <2>3. known[c] \in SUBSET Streams
    BY DEF CInv, QueuesOK
  <2>4. f \in Frames
    BY <2>2, <2>3 DEF Frames, Inbound, Commands
  <2> DEFINE x == [con |-> c, job |-> f]
  <2>5. x \in Reports /\ x.con = c
    BY <2>4 DEF Reports
  <2> HIDE DEF x
  <2>6. cbQ \in Seq(Reports) /\ cbQ' = Append(cbQ, x)
    BY <2>2 DEF x, CInv, QueuesOK
  <2>7. cbQ' \in Seq(Reports)
    BY <2>5, <2>6, OneMore
  <2>8. ASSUME NEW d \in Connectors \ {c} PROVE ReportLast(d)'
    BY <2>1, <2>5, <2>6, Untouched
  <2>9. ReportLast(c)'
    BY <2>1 DEF ReportLast
  <2> QED
    BY <2>1, <2>7, <2>8, <2>9 DEF CInv, ConnectorTypeOK, QueuesOK
<1>3. CASE KeepAlive(c)
  <2>1. /\ UNCHANGED <<con, connQ, session, cbQ, told, known>>
        /\ stopping' \in [Connectors -> BOOLEAN]
    BY <1>3 DEF KeepAlive, connectorVars, remoteVars, CInv, QueuesOK
  <2>2. \A d \in Connectors : ReportLast(d)'
    BY <2>1, Untouched
  <2> QED
    BY <2>1, <2>2 DEF CInv, ConnectorTypeOK, QueuesOK
<1> QED
  BY <1>1, <1>2, <1>3

\* A new session: no report is owed while it runs.
LEMMA StartPreserves ==
  ASSUME CInv, NEW c \in Connectors, StartSession(c)
  PROVE  CInv'
<1> DEFINE k == Drained([con[c] EXCEPT !.started = TRUE, !.ready = TRUE, !.timer = TRUE])
<1>1. /\ Take(c, "start") /\ con' = [con EXCEPT ![c] = k]
      /\ session' = [session EXCEPT ![c] = "running"]
      /\ known' = [known EXCEPT ![c] = con[c].waiting]
      /\ UNCHANGED <<stopping, cbQ>>
  BY DEF StartSession, Drain, Drained
<1>2. k \in Fields /\ Agrees(k)
  BY <1>1, BlockTypes, DrainKeeps
<1>3. Tell([con[c] EXCEPT !.started = TRUE, !.ready = TRUE, !.timer = TRUE].waiting, "connect")
  BY DEF StartSession, Drain
<1>4. /\ told' \in [Streams -> SUBSET {"connect", "disconnect"}]
      /\ known' \in [Connectors -> SUBSET Streams]
  BY <1>1, <1>3, BlockTypes, TellType DEF Fields
<1> HIDE DEF k
<1>5. connQ[c] \in Seq(Jobs) /\ connQ[c] # <<>>
  BY <1>1 DEF CInv, QueuesOK, Take
<1>6. /\ connQ' \in [Connectors -> Seq(Jobs)]
      /\ \A d \in Connectors \ {c} : connQ'[d] = connQ[d]
  BY <1>1, <1>5, TailOf DEF Take, CInv, QueuesOK
<1>7. ConnectorTypeOK' /\ QueuesOK'
  BY <1>1, <1>2, <1>4, <1>6 DEF CInv, ConnectorTypeOK, QueuesOK
<1>8. \A d \in Connectors : Agrees(con[d])'
  BY <1>1, <1>2 DEF CInv, ConnectorTypeOK
<1>9. ASSUME NEW d \in Connectors \ {c} PROVE ReportLast(d)'
  <2>1. con'[d] = con[d] /\ session'[d] = session[d] /\ connQ'[d] = connQ[d] /\ cbQ' = cbQ
    BY <1>1, <1>6 DEF CInv, ConnectorTypeOK
  <2> QED
    BY <2>1, Untouched
<1>10. ReportLast(c)'
  BY <1>1 DEF ReportLast, CInv, ConnectorTypeOK
<1> QED
  BY <1>7, <1>8, <1>9, <1>10 DEF CInv

\* A call, or anything that is not data, is put at the end of a connector's queue.
LEMMA CallPreserves ==
  ASSUME CInv, NEW c \in Connectors, NEW j \in Jobs, j.op # "data", Enqueue(c, <<j>>),
         UNCHANGED <<con, session, stopping, cbQ, told, known>>
  PROVE  CInv'
<1> DEFINE q == connQ[c]
<1>1. connQ \in [Connectors -> Seq(Jobs)] /\ q \in Seq(Jobs)
  BY DEF CInv, QueuesOK
<1>2. /\ Append(q, j) \in Seq(Jobs) /\ q \o <<j>> = Append(q, j)
      /\ Len(q) \in Nat /\ Len(Append(q, j)) = Len(q) + 1
      /\ \A i \in 1 .. Len(q) : Append(q, j)[i] = q[i]
      /\ Append(q, j)[Len(q) + 1] = j
  BY <1>1, OneMore
<1>3. /\ connQ' \in [Connectors -> Seq(Jobs)] /\ connQ'[c] = Append(q, j)
      /\ \A d \in Connectors \ {c} : connQ'[d] = connQ[d]
  BY <1>1, <1>2 DEF Enqueue
<1>4. ConnectorTypeOK' /\ QueuesOK' /\ \A d \in Connectors : Agrees(con[d])'
  BY <1>3 DEF CInv, ConnectorTypeOK, QueuesOK
<1>5. ASSUME NEW d \in Connectors \ {c} PROVE ReportLast(d)'
  BY <1>3, Untouched
<1>6. ReportLast(c)'
  <2> SUFFICES ASSUME session[c] # "running"
               PROVE  FramesFirst(c)' /\ ReportComes(c)'
    BY DEF ReportLast
  <2>1. FramesFirst(c) /\ ReportComes(c)
    BY DEF CInv, ReportLast
  <2>2. ReportComes(c)'
    BY <1>2, <1>3, <2>1 DEF ReportComes, StopInCallbacks
  <2>3. ASSUME NEW i \in 1 .. Len(Append(q, j)), Append(q, j)[i].op = "data"
        PROVE  \/ \E x \in 1 .. Len(Append(q, j)) : i < x /\ Append(q, j)[x] = Stopped
               \/ StopInCallbacks(c)
    <3>1. i \in 1 .. Len(q) /\ q[i].op = "data"
      BY <1>2, <2>3
    <3> QED
      BY <1>2, <2>1, <3>1 DEF FramesFirst
  <2>4. FramesFirst(c)'
    BY <1>3, <2>1, <2>3 DEF FramesFirst, StopInCallbacks
  <2> QED
    BY <2>2, <2>4
<1> QED
  BY <1>4, <1>5, <1>6 DEF CInv

\* The hop from the callback queue keeps the order of what it moves.
LEMMA CallbackPreserves ==
  ASSUME CInv, Callback
  PROVE  CInv'
<1>1. cbQ # <<>> /\ cbQ' = Tail(cbQ) /\ UNCHANGED <<con, session, stopping, told, known>>
  BY DEF Callback, remoteVars
<1>2. cbQ \in Seq(Reports) /\ connQ \in [Connectors -> Seq(Jobs)]
  BY DEF CInv, QueuesOK
<1>3. /\ cbQ' \in Seq(Reports) /\ Head(cbQ) \in Reports /\ Head(cbQ) = cbQ[1]
      /\ Len(cbQ) \in Nat /\ Len(cbQ) > 0 /\ Len(cbQ') = Len(cbQ) - 1
      /\ \A i \in 1 .. Len(cbQ') : cbQ'[i] = cbQ[i + 1]
  BY <1>1, <1>2, TailOf
<1>4. PICK c \in Connectors, j \in Frames \cup {Stopped} :
        /\ Enqueue(c, <<j>>) /\ cbQ[1].con = c /\ cbQ[1].job = j
        /\ j = Stopped => cbQ[1] = StopOf(c)
  <2>1. Head(cbQ).con \in Connectors /\ Head(cbQ).job \in Frames \cup {Stopped}
    BY <1>3 DEF Reports
  <2>2. Head(cbQ).job = Stopped => Head(cbQ) = StopOf(Head(cbQ).con)
    BY <1>3 DEF Reports, StopOf
  <2> QED
    BY <1>3, <2>1, <2>2 DEF Callback
<1> DEFINE q == connQ[c]
<1>5. \A d : d # c => cbQ[1] # StopOf(d)
  BY <1>4 DEF StopOf
<1>6. \A i \in 1 .. Len(cbQ) : i # 1 => i - 1 \in 1 .. Len(cbQ') /\ cbQ'[i - 1] = cbQ[i]
  BY <1>3
<1>7. q \in Seq(Jobs)
  BY <1>2, <1>4
<1>8. /\ Append(q, j) \in Seq(Jobs) /\ q \o <<j>> = Append(q, j)
      /\ Len(q) \in Nat /\ Len(Append(q, j)) = Len(q) + 1
      /\ \A i \in 1 .. Len(q) : Append(q, j)[i] = q[i]
      /\ Append(q, j)[Len(q) + 1] = j
  BY <1>4, <1>7, OneMore, JobKinds
<1>9. /\ connQ' \in [Connectors -> Seq(Jobs)] /\ connQ'[c] = Append(q, j)
      /\ \A d \in Connectors \ {c} : connQ'[d] = connQ[d]
  BY <1>2, <1>4, <1>8 DEF Enqueue
<1> HIDE DEF q
<1>10. ConnectorTypeOK' /\ QueuesOK' /\ \A d \in Connectors : Agrees(con[d])'
  BY <1>1, <1>3, <1>9 DEF CInv, ConnectorTypeOK, QueuesOK
\* What the remaining callbacks say of themselves.
<1>11. ASSUME NEW d \in Connectors, FramesFirst(d),
              NEW i \in 1 .. Len(cbQ'), cbQ'[i].con = d, cbQ'[i].job.op = "data"
       PROVE  \E x \in 1 .. Len(cbQ') : i < x /\ cbQ'[x] = StopOf(d)
  <2>1. i + 1 \in 1 .. Len(cbQ) /\ cbQ[i + 1].con = d /\ cbQ[i + 1].job.op = "data"
    BY <1>3, <1>11
  <2>2. PICK x \in 1 .. Len(cbQ) : i + 1 < x /\ cbQ[x] = StopOf(d)
    BY <1>11, <2>1 DEF FramesFirst
  <2>3. x # 1 /\ i < x - 1
    BY <1>3, <2>2
  <2> QED
    BY <1>6, <2>2, <2>3
<1>12. ASSUME NEW d \in Connectors \ {c} PROVE ReportLast(d)'
  <2> SUFFICES ASSUME session[d] # "running"
               PROVE  FramesFirst(d)' /\ ReportComes(d)'
    BY <1>1 DEF ReportLast
  <2>1. FramesFirst(d) /\ ReportComes(d)
    BY DEF CInv, ReportLast
  <2>2. StopInCallbacks(d) => StopInCallbacks(d)'
    BY <1>5, <1>6 DEF StopInCallbacks, StopOf
  <2>3. ReportComes(d)'
    BY <1>1, <1>9, <2>1, <2>2 DEF ReportComes
  <2>4. FramesFirst(d)'
    BY <1>9, <1>11, <2>1, <2>2 DEF FramesFirst, StopOf
  <2> QED
    BY <2>3, <2>4
<1>13. ReportLast(c)'
  <2> SUFFICES ASSUME session[c] # "running"
               PROVE  FramesFirst(c)' /\ ReportComes(c)'
    BY <1>1 DEF ReportLast
  <2>1. FramesFirst(c) /\ ReportComes(c)
    BY <1>4 DEF CInv, ReportLast
  \* A report in the callback queue stays there or moves to the end of the queue.
  <2>2. StopInCallbacks(c) =>
          StopInCallbacks(c)' \/ j = Stopped
    BY <1>4, <1>6, JobKinds DEF StopInCallbacks, StopOf
  <2>3. ReportComes(c)'
    BY <1>1, <1>8, <1>9, <2>1, <2>2 DEF ReportComes, q
  <2>4. ASSUME NEW i \in 1 .. Len(Append(q, j)), Append(q, j)[i].op = "data"
        PROVE  \/ \E x \in 1 .. Len(Append(q, j)) : i < x /\ Append(q, j)[x] = Stopped
               \/ StopInCallbacks(c)'
    <3>1. CASE i = Len(q) + 1
      <4>1. j.op = "data" /\ 1 \in 1 .. Len(cbQ)
        BY <1>3, <1>8, <2>4, <3>1
      <4>2. StopInCallbacks(c)
        BY <1>4, <2>1, <4>1 DEF FramesFirst, StopInCallbacks
      <4> QED
        BY <2>2, <4>1, <4>2, JobKinds
    <3>2. CASE i \in 1 .. Len(q)
      <4>1. \/ \E x \in 1 .. Len(q) : i < x /\ q[x] = Stopped
            \/ StopInCallbacks(c)
        BY <1>8, <2>1, <2>4, <3>2 DEF FramesFirst, q
      <4> QED
        BY <1>8, <2>2, <3>2, <4>1
    <3> QED
      BY <1>8, <3>1, <3>2
  <2>5. \A i \in 1 .. Len(cbQ') : cbQ'[i].con = c /\ cbQ'[i].job.op = "data" =>
          \E x \in 1 .. Len(cbQ') : i < x /\ cbQ'[x] = StopOf(c)
    BY <1>11, <2>1
  <2>6. FramesFirst(c)'
    <3> HIDE DEF q
    <3> QED
      BY <1>9, <2>4, <2>5 DEF FramesFirst, StopOf
  <2> QED
    BY <2>3, <2>6
<1> QED
  BY <1>4, <1>10, <1>12, <1>13 DEF CInv

-----------------------------------------------------------------------------
(* The manager and its clients                                             *)

\* Steps of the manager and of clients that touch no connector.
LEMMA CInvUnchanged ==
  ASSUME CInv, UNCHANGED <<connectorVars, sessionVars, remoteVars, told>>
  PROVE  CInv'
<1>1. UNCHANGED <<con, connQ, session, stopping, cbQ, known, told>>
  BY DEF connectorVars, sessionVars, remoteVars
<1>2. \A c \in Connectors : ReportLast(c)'
  BY <1>1, Untouched
<1> QED
  BY <1>1, <1>2 DEF CInv, ConnectorTypeOK, QueuesOK

\* A client's call is a job that is not data.
LEMMA CallJob ==
  ASSUME NEW op \in {"start", "open", "close"}, NEW s \in Streams
  PROVE  Call(op, s) \in Jobs /\ Call(op, s).op # "data"
BY DEF Call, Jobs

\* A call of a client reaches the connector it was given, if it was given one.
LEMMA CallConnectorPreserves ==
  ASSUME CInv, ManagerOK, NEW s \in Streams, NEW from, NEW to \in Steps,
         NEW op \in {"start", "open", "close"}, CallConnector(s, from, op, to)
  PROVE  CInv' /\ ManagerOK'
<1>1. /\ Enqueue(of[s], <<Call(op, s)>>)
      /\ UNCHANGED <<con, session, stopping, cbQ, told, known>>
  BY DEF CallConnector, sessionVars, remoteVars
<1>2. ASSUME of[s] \in Connectors PROVE CInv'
  BY <1>1, <1>2, CallJob, CallPreserves
<1>3. ASSUME of[s] \notin Connectors PROVE CInv'
  <2>1. connQ' = connQ
    BY <1>1, <1>3 DEF Enqueue, CInv, QueuesOK
  <2> QED
    BY <1>1, <2>1, CInvUnchanged DEF CallConnector, connectorVars
<1>4. ManagerOK'
  BY DEF CallConnector, Go, ManagerOK, managerVars
<1> QED
  BY <1>2, <1>3, <1>4

\* The blocks of the manager's queue.
LEMMA ManagerPreserves ==
  ASSUME CInv, ManagerOK, ManagerStep \/ AskRemoval
  PROVE  CInv' /\ ManagerOK'
<1> USE ManagerAssumption
<1>1. ASSUME NEW op, Block(op)
      PROVE  mgrQ' \in Seq(Blocks) /\ Head(mgrQ) \in Blocks /\ Head(mgrQ).op = op
  BY <1>1, TailOf DEF Block, ManagerOK
<1>2. CASE Give
  <2>1. CInv'
    BY <1>2, CInvUnchanged DEF Give
  <2>2. Head(mgrQ).sid \in Streams /\ mgrQ' \in Seq(Blocks)
    BY <1>1, <1>2 DEF Give, Blocks
  <2>3. ManagerOK'
    BY <1>2, <2>2 DEF Give, Go, ManagerOK, Steps
  <2> QED
    BY <2>1, <2>3
<1>3. CASE Recycle
  <2>1. CInv'
    BY <1>3, CInvUnchanged DEF Recycle
  <2>2. ManagerOK'
    BY <1>1, <1>3 DEF Recycle, ManagerOK, clientVars
  <2> QED
    BY <2>1, <2>2
<1>4. CASE Remove
  <2>1. UNCHANGED <<con, session, stopping, cbQ, told, known, inbound>>
    BY <1>4 DEF Remove, sessionVars, remoteVars
  <2>2. ASSUME directory = None PROVE CInv'
    <3>1. connQ' = connQ
      BY <1>4, <2>2 DEF Remove
    <3> QED
      BY <2>1, <3>1, CInvUnchanged DEF connectorVars, sessionVars, remoteVars
  <2>3. ASSUME directory \in Connectors PROVE CInv'
    <3>1. Enqueue(directory, <<StopCall>>)
      BY <1>4, <2>3 DEF Remove
    <3> QED
      BY <2>1, <2>3, <3>1, CallPreserves, JobKinds
  <2>4. ManagerOK'
    BY <1>1, <1>4 DEF Remove, ManagerOK, clientVars
  <2> QED
    BY <2>2, <2>3, <2>4 DEF ManagerOK
<1>5. CASE AskRemoval
  <2>1. CInv'
    BY <1>5, CInvUnchanged DEF AskRemoval
  <2>2. [op |-> "remove"] \in Blocks
    BY DEF Blocks
  <2>3. ManagerOK'
    BY <1>5, <2>2, OneMore DEF AskRemoval, ManagerOK, clientVars
  <2> QED
    BY <2>1, <2>3
<1> QED
  BY <1>2, <1>3, <1>4, <1>5 DEF ManagerStep

\* The blocks of a connector that the manager or a client waits for.
LEMMA ConnectorStepPreserves ==
  ASSUME CInv, ManagerOK, NEW c \in Connectors, ConnectorStep(c)
  PROVE  CInv' /\ ManagerOK'
<1>1. CASE Started(c)
  <2>1. CInv'
    BY <1>1, StartNothing, StartPreserves DEF Started
  <2>2. ManagerOK'
    BY <1>1 DEF Started, Go, ManagerOK, managerVars, Steps
  <2> QED
    BY <2>1, <2>2
<1>2. CASE Refused(c)
  <2>1. CInv'
    BY <1>2, StartNothing DEF Refused
  <2>2. ManagerOK'
    BY <1>2 DEF Refused, Go, ManagerOK, managerVars, Steps
  <2> QED
    BY <2>1, <2>2
<1>3. CASE Ended(c)
  <2>1. CInv'
    BY <1>3, StoppedPreserves DEF Ended
  <2>2. [op |-> "recycle", con |-> c] \in Blocks
    BY DEF Blocks
  <2>3. ManagerOK'
    BY <1>3, <2>2, OneMore DEF Ended, ManagerOK, clientVars
  <2> QED
    BY <2>1, <2>3
<1>4. CASE Process(c) /\ UNCHANGED <<managerVars, clientVars>>
  BY <1>4, ProcessPreserves DEF ManagerOK, managerVars, clientVars
<1> QED
  BY <1>1, <1>2, <1>3, <1>4 DEF ConnectorStep

\* A client asks, starts, opens and closes.
LEMMA ClientPreserves ==
  ASSUME CInv, ManagerOK, NEW s \in Streams, ClientStep(s) \/ CallClose(s)
  PROVE  CInv' /\ ManagerOK'
<1>1. CASE Ask(s)
  <2>1. CInv'
    BY <1>1, CInvUnchanged DEF Ask
  <2>2. [op |-> "get", sid |-> s] \in Blocks
    BY DEF Blocks
  <2>3. ManagerOK'
    BY <1>1, <2>2, OneMore DEF Ask, Go, ManagerOK, Steps
  <2> QED
    BY <2>1, <2>3
<1>2. CASE CallStart(s)
  BY <1>2, CallConnectorPreserves DEF CallStart, Steps
<1>3. CASE CallOpen(s)
  BY <1>3, CallConnectorPreserves DEF CallOpen, Steps
<1>4. CASE CallClose(s)
  BY <1>4, CallConnectorPreserves DEF CallClose, Steps
<1> QED
  BY <1>1, <1>2, <1>3, <1>4 DEF ClientStep

-----------------------------------------------------------------------------
(* Theorems                                                                *)

\* Every block of every queue, every failure and every call preserves the inductive
\* invariant.
THEOREM TunnelStep == IInv /\ [Next]_vars => IInv'
<1> SUFFICES ASSUME IInv, [Next]_vars PROVE CInv' /\ ManagerOK'
  BY DEF IInv
<1> USE DEF IInv
<1>1. ASSUME UNCHANGED <<managerVars, clientVars>> PROVE ManagerOK'
  BY <1>1 DEF ManagerOK, managerVars, clientVars
<1>2. CASE UNCHANGED vars
  BY <1>1, <1>2, CInvUnchanged DEF vars
<1>3. CASE ManagerStep \/ AskRemoval
  BY <1>3, ManagerPreserves
<1>4. CASE CallbackStep
  BY <1>1, <1>4, CallbackPreserves DEF CallbackStep
<1>5. ASSUME NEW c \in Connectors, ConnectorStep(c) PROVE CInv' /\ ManagerOK'
  BY <1>5, ConnectorStepPreserves
<1>6. ASSUME NEW c \in Connectors, SessionStep(c) \/ Events(c) PROVE CInv' /\ ManagerOK'
  BY <1>1, <1>6, SessionStopPreserves, EventsPreserve DEF SessionStep, Events
<1>7. ASSUME NEW s \in Streams, ClientStep(s) \/ CallClose(s) PROVE CInv' /\ ManagerOK'
  BY <1>7, ClientPreserves
<1> QED
  BY <1>2, <1>3, <1>4, <1>5, <1>6, <1>7 DEF Next

\* The inductive invariant holds whatever the order of the queues.
THEOREM TunnelInvariance == Spec => []IInv
BY TunnelInit, TunnelStep, PTL DEF Spec

\* Connectors, manager and clients keep their types.
THEOREM TunnelTypes == Spec => []TypeOK
<1>1. IInv => TypeOK
  BY DEF IInv, CInv, ManagerOK, TypeOK
<1> QED
  BY <1>1, TunnelInvariance, PTL

\* The sets of streams of KcpTunConnector agree, whatever is opened, closed, answered
\* and stopped, and in whatever order.
THEOREM StreamSetsAgree == Spec => []StreamsAgree
<1>1. IInv => StreamsAgree
  BY AgreesIs DEF IInv, CInv
<1> QED
  BY <1>1, TunnelInvariance, PTL

\* The report of a session's end comes after all that was read from it, so that no stream
\* stays open on a dead session.
THEOREM NoStreamOutlives == Spec => []NoGhostStreams
<1>1. ASSUME IInv, NEW c \in Connectors, session[c] # "running",
             con[c].pending \cup con[c].established # {}
      PROVE  StopUnderWay(c)
  <2>1. con[c].ready
    BY <1>1 DEF IInv, CInv, Agrees
  <2>2. connQ[c] \in Seq(Jobs) /\ cbQ \in Seq(Reports)
    BY <1>1 DEF IInv, CInv, QueuesOK
  <2>3. \/ \E j \in 1 .. Len(connQ[c]) : connQ[c][j] = Stopped
        \/ StopInCallbacks(c)
    BY <1>1, <2>1 DEF IInv, CInv, ReportLast, ReportComes
  <2> QED
    BY <2>2, <2>3 DEF StopUnderWay, StopInCallbacks, StopOf, Range
<1>2. IInv => NoGhostStreams
  BY <1>1 DEF NoGhostStreams
<1> QED
  BY <1>2, TunnelInvariance, PTL


-----------------------------------------------------------------------------
(* Handlers and the directory: no handler is forgotten, no dead connector  *)
(* stays.  The invariant, relative to IInv                                 *)

\* The client has asked its connector to open its stream.
Reached(s) == pc[s] \in {"reading", "closed"}

\* A stream that a connector has is one its client asked this connector for.
Placed == \A c \in Connectors : \A s \in con[c].streams : of[s] = c /\ Reached(s)

\* The calls that wait are calls of clients, and a stop is the manager's.
CallOK(c, j) ==
  /\ j.op = "open" => of[j.sid] = c /\ Reached(j.sid)
  /\ j.op = "close" => pc[j.sid] = "closed"
  /\ j.op = "stop" => c \in dropped
CallsOK == \A c \in Connectors : \A j \in Range(connQ[c]) : CallOK(c, j)

\* A handler that was called has a client, and the client a connector.
ToldOK == \A s \in Streams : told[s] # {} => of[s] \in Connectors /\ Reached(s)

\* Nothing has happened to a connector that does not exist.
Unborn(c) ==
  /\ session[c] = "idle" /\ ~ stopping[c] /\ ~ con[c].timer
  /\ connQ[c] = <<>> /\ \A x \in Range(cbQ) : x.con # c
UnbornOK == \A c \in Connectors \ created : Unborn(c)
OfOK == \A s \in Streams : of[s] \in created \cup {None}

HInv == Placed /\ CallsOK /\ ToldOK /\ UnbornOK /\ OfOK /\ NoneForgotten /\ Recycled

\* A fresh manager, its idle connectors and new clients satisfy it.
THEOREM HandlerInit == Init => HInv
<1> SUFFICES ASSUME Init PROVE HInv
  OBVIOUS
<1>1. \A c \in Connectors : con[c] = Cleared /\ connQ[c] = <<>> /\ session[c] = "idle"
                              /\ ~ stopping[c]
  BY DEF Init, ConnectorInit
<1>2. Range(cbQ) = {} /\ \A c \in Connectors : Range(connQ[c]) = {}
  BY <1>1 DEF Init, ConnectorInit, Range
<1>3. \A s \in Streams : told[s] = {}
  BY DEF Init, ConnectorInit
<1>4. Placed /\ CallsOK /\ ToldOK /\ UnbornOK /\ NoneForgotten
  BY <1>1, <1>2, <1>3
     DEF Placed, CallsOK, ToldOK, UnbornOK, Unborn, NoneForgotten, Cleared
<1>5. OfOK /\ Recycled
  BY DEF Init, OfOK, Recycled
<1> QED
  BY <1>4, <1>5 DEF HInv

-----------------------------------------------------------------------------
(* Queues as the sets of what waits in them                                *)

\* A queue is its head and the rest.
LEMMA RangeTail ==
  ASSUME NEW S, NEW s \in Seq(S), s # <<>>
  PROVE  Range(s) = Range(Tail(s)) \cup {Head(s)} /\ Head(s) \in S
<1>1. /\ Tail(s) \in Seq(S) /\ Head(s) \in S /\ Head(s) = s[1]
      /\ Len(s) \in Nat /\ Len(s) > 0 /\ Len(Tail(s)) = Len(s) - 1
      /\ \A i \in 1 .. Len(Tail(s)) : Tail(s)[i] = s[i + 1]
  BY TailOf
<1>2. DOMAIN s = 1 .. Len(s) /\ DOMAIN Tail(s) = 1 .. Len(Tail(s))
  BY <1>1
<1>3. ASSUME NEW i \in 1 .. Len(s) PROVE s[i] = Head(s) \/ s[i] \in Range(Tail(s))
  <2>1. CASE i = 1
    BY <1>1, <2>1
  <2>2. CASE i # 1
    <3>1. i - 1 \in 1 .. Len(Tail(s)) /\ Tail(s)[i - 1] = s[i]
      BY <1>1, <2>2
    <3> QED
      BY <1>2, <3>1 DEF Range
  <2> QED
    BY <2>1, <2>2
<1>4. ASSUME NEW i \in 1 .. Len(Tail(s)) PROVE Tail(s)[i] \in Range(s)
  <2>1. i + 1 \in 1 .. Len(s) /\ Tail(s)[i] = s[i + 1]
    BY <1>1
  <2> QED
    BY <1>2, <2>1 DEF Range
<1>5. Head(s) \in Range(s)
  BY <1>1, <1>2 DEF Range
<1>6. Range(s) \subseteq Range(Tail(s)) \cup {Head(s)}
  BY <1>2, <1>3 DEF Range
<1>7. Range(Tail(s)) \subseteq Range(s)
  BY <1>2, <1>4 DEF Range
<1> QED
  BY <1>1, <1>5, <1>6, <1>7

\* What is put at the end of a queue is in it, with all that was.
LEMMA RangeAppend ==
  ASSUME NEW S, NEW s \in Seq(S), NEW x \in S
  PROVE  Range(Append(s, x)) = Range(s) \cup {x}
<1>1. /\ Append(s, x) \in Seq(S) /\ s \o <<x>> = Append(s, x)
      /\ Len(s) \in Nat /\ Len(Append(s, x)) = Len(s) + 1
      /\ \A i \in 1 .. Len(s) : Append(s, x)[i] = s[i]
      /\ Append(s, x)[Len(s) + 1] = x
  BY OneMore
<1>2. DOMAIN s = 1 .. Len(s) /\ DOMAIN Append(s, x) = 1 .. Len(s) + 1
  BY <1>1
<1>3. \A i \in 1 .. Len(s) + 1 : i \in 1 .. Len(s) \/ i = Len(s) + 1
  BY <1>1
<1>4. 1 .. Len(s) \subseteq 1 .. Len(s) + 1 /\ Len(s) + 1 \in 1 .. Len(s) + 1
  BY <1>1
<1>5. Range(Append(s, x)) \subseteq Range(s) \cup {x}
  BY <1>1, <1>2, <1>3 DEF Range
<1>6. Range(s) \cup {x} \subseteq Range(Append(s, x))
  BY <1>1, <1>2, <1>4 DEF Range
<1> QED
  BY <1>1, <1>5, <1>6

\* What waits has a type.
LEMMA QueueTypes ==
  ASSUME IInv
  PROVE  /\ connQ \in [Connectors -> Seq(Jobs)] /\ cbQ \in Seq(Reports) /\ mgrQ \in Seq(Blocks)
         /\ con \in [Connectors -> Fields]
         /\ session \in [Connectors -> {"idle", "running", "stopped"}]
         /\ stopping \in [Connectors -> BOOLEAN]
         /\ told \in [Streams -> SUBSET {"connect", "disconnect"}]
         /\ pc \in [Streams -> Steps] /\ of \in [Streams -> Connectors \cup {None}]
         /\ directory \in created \cup {None} /\ created \subseteq Connectors
         /\ dropped \subseteq created
BY DEF IInv, CInv, ManagerOK, QueuesOK, ConnectorTypeOK

-----------------------------------------------------------------------------
(* The clients go on                                                       *)

\* What a client was given and asked for stays, and what was removed stays removed.
ClientsGrow ==
  /\ \A s \in Streams : Reached(s) => of'[s] = of[s] /\ Reached(s)'
  /\ \A s \in Streams : pc[s] = "closed" => pc'[s] = "closed"
  /\ dropped \subseteq dropped'

\* A step that takes one client from one place to the next, but for the given ones.
LEMMA GoGrows ==
  ASSUME IInv, NEW s \in Streams, NEW from \in Steps \ {"closed"}, NEW to \in Steps,
         Go(s, from, to), from = "reading" => to = "closed",
         UNCHANGED <<of, dropped>>
  PROVE  ClientsGrow
<1> pc \in [Streams -> Steps]
  BY QueueTypes
<1> QED
  BY DEF Go, ClientsGrow, Reached, Steps

\* Calls that wait stay in order while the clients go on.
LEMMA CallStays ==
  ASSUME ClientsGrow, NEW c \in Connectors, NEW j \in Jobs, CallOK(c, j)
  PROVE  CallOK(c, j)'
<1>1. j.op \in {"open", "close"} => j.sid \in Streams
  BY JobKinds
<1> QED
  BY <1>1 DEF CallOK, ClientsGrow

\* Every job that waits in a connector's queue is a job.
LEMMA JobsWait ==
  ASSUME IInv, NEW c \in Connectors
  PROVE  \A j \in Range(connQ[c]) : j \in Jobs
<1>1. connQ[c] \in Seq(Jobs)
  BY QueueTypes
<1> QED
  BY <1>1 DEF Range

-----------------------------------------------------------------------------
(* A block of a connector                                                  *)

\* What a block of c that takes the job h may do: it changes the streams of c for a
\* reason, and tells a handler that it is connected only if it has it.
StreamsChange(c, h, k) ==
  /\ k.streams \subseteq con[c].streams \cup IF h.op = "open" THEN {h.sid} ELSE {}
  /\ \A s \in con[c].streams \ k.streams :
       \/ "disconnect" \in told'[s]
       \/ h.op = "close" /\ s = h.sid
       \/ h.op = "stop"
HandlersTold(c, h, k) ==
  \A s \in Streams :
    /\ told[s] \subseteq told'[s]
    /\ told'[s] # told[s] => s \in con[c].streams \/ (h.op = "open" /\ s = h.sid)
    /\ "connect" \in told'[s] \ told[s] => s \in k.streams

RecycleJob(c) == [op |-> "recycle", con |-> c]

\* The end of c's session is still to reach c, or the manager.
EndUnderWay(c) ==
  \/ Stopped \in Range(connQ[c])
  \/ StopOf(c) \in Range(cbQ)
  \/ RecycleJob(c) \in Range(mgrQ)

\* The report of the session's end, and no other, leads to the manager.
Reported(c, h) ==
  \/ mgrQ' = mgrQ /\ h.op # "stopped"
  \/ mgrQ' = Append(mgrQ, RecycleJob(c)) /\ h.op = "stopped"

BlockDone(c, h, k) ==
  /\ connQ[c] # <<>> /\ h = Head(connQ[c]) /\ connQ' = [connQ EXCEPT ![c] = Tail(@)]
  /\ con' = [con EXCEPT ![c] = k]
  /\ StreamsChange(c, h, k) /\ HandlersTold(c, h, k) /\ Reported(c, h)
  /\ session' = session \/ session' = [session EXCEPT ![c] = "running"]
  /\ stopping' = stopping \/ stopping' = [stopping EXCEPT ![c] = TRUE]
  /\ UNCHANGED <<cbQ, of, directory, created, dropped>>

\* The head of a queue, and what is left.
LEMMA BlockQueue ==
  ASSUME IInv, NEW c \in Connectors, NEW h, NEW k, BlockDone(c, h, k)
  PROVE  /\ h \in Jobs /\ h \in Range(connQ[c])
         /\ Range(connQ[c]) = Range(connQ'[c]) \cup {h}
         /\ \A d \in Connectors \ {c} : connQ'[d] = connQ[d]
         /\ con'[c] = k /\ \A d \in Connectors \ {c} : con'[d] = con[d]
<1>1. connQ[c] # <<>> /\ h = Head(connQ[c]) /\ connQ' = [connQ EXCEPT ![c] = Tail(@)]
        /\ con' = [con EXCEPT ![c] = k]
  BY DEF BlockDone
<1>2. connQ \in [Connectors -> Seq(Jobs)] /\ con \in [Connectors -> Fields]
  BY QueueTypes
<1>3. connQ[c] \in Seq(Jobs)
  BY <1>2
<1>4. Range(connQ[c]) = Range(Tail(connQ[c])) \cup {h} /\ h \in Jobs
  BY <1>1, <1>3, RangeTail
<1>5. /\ connQ'[c] = Tail(connQ[c]) /\ \A d \in Connectors \ {c} : connQ'[d] = connQ[d]
      /\ con'[c] = k /\ \A d \in Connectors \ {c} : con'[d] = con[d]
  BY <1>1, <1>2
<1> QED
  BY <1>4, <1>5

\* Such a block forgets no handler, and no end of a session.
LEMMA BlockKeepsHandlers ==
  ASSUME IInv, HInv, ClientsGrow, NEW c \in Connectors, NEW h, NEW k, BlockDone(c, h, k)
  PROVE  HInv'
<1>1. /\ h \in Jobs /\ h \in Range(connQ[c])
      /\ Range(connQ[c]) = Range(connQ'[c]) \cup {h}
      /\ \A d \in Connectors \ {c} : connQ'[d] = connQ[d]
      /\ con'[c] = k /\ \A d \in Connectors \ {c} : con'[d] = con[d]
  BY BlockQueue
<1>2. CallOK(c, h)
  BY <1>1 DEF HInv, CallsOK
<1>3. /\ con \in [Connectors -> Fields] /\ of \in [Streams -> Connectors \cup {None}]
      /\ session \in [Connectors -> {"idle", "running", "stopped"}]
      /\ stopping \in [Connectors -> BOOLEAN]
      /\ directory \in created \cup {None} /\ created \subseteq Connectors
  BY QueueTypes
<1>4. h.op = "open" => h.sid \in Streams /\ of[h.sid] = c /\ Reached(h.sid)
  BY <1>1, <1>2, JobKinds DEF CallOK
<1>5. UNCHANGED <<cbQ, of, directory, created, dropped>>
  BY DEF BlockDone
\* The streams the block deals with are those of clients of c.
<1>6. ASSUME NEW s \in Streams, s \in con[c].streams \/ (h.op = "open" /\ s = h.sid)
      PROVE  of[s] = c /\ Reached(s)
  BY <1>4, <1>6 DEF HInv, Placed
<1>7. Placed'
  <2>1. ASSUME NEW s \in k.streams PROVE of'[s] = c /\ Reached(s)'
    <3>1. s \in con[c].streams \/ (h.op = "open" /\ s = h.sid)
      BY <2>1 DEF BlockDone, StreamsChange
    <3>2. s \in Streams
      BY <1>3, <1>4, <3>1 DEF Fields
    <3> QED
      BY <1>6, <3>1, <3>2 DEF ClientsGrow
  <2>2. ASSUME NEW d \in Connectors \ {c}, NEW s \in con[d].streams
        PROVE  of'[s] = d /\ Reached(s)'
    <3>1. of[s] = d /\ Reached(s) /\ s \in Streams
      BY <1>3, <2>2 DEF HInv, Placed, Fields
    <3> QED
      BY <3>1 DEF ClientsGrow
  <2> QED
    BY <1>1, <2>1, <2>2 DEF Placed
<1>8. CallsOK'
  <2>1. ASSUME NEW d \in Connectors, NEW j \in Range(connQ'[d]) PROVE CallOK(d, j)'
    <3>1. j \in Range(connQ[d])
      BY <1>1, <2>1
    <3>2. CallOK(d, j) /\ j \in Jobs
      BY <3>1, JobsWait DEF HInv, CallsOK
    <3> QED
      BY <3>2, CallStays
  <2> QED
    BY <2>1 DEF CallsOK
<1>9. ToldOK'
  <2>1. ASSUME NEW s \in Streams, told'[s] # {} PROVE of'[s] \in Connectors /\ Reached(s)'
    <3>1. of[s] \in Connectors /\ Reached(s)
      <4>1. CASE told'[s] = told[s]
        BY <2>1, <4>1 DEF HInv, ToldOK
      <4>2. CASE told'[s] # told[s]
        BY <1>6, <4>2 DEF BlockDone, HandlersTold
      <4> QED
        BY <4>1, <4>2
    <3> QED
      BY <3>1 DEF ClientsGrow
  <2> QED
    BY <2>1 DEF ToldOK
<1>10. NoneForgotten'
  <2> SUFFICES ASSUME NEW s \in Streams, "connect" \in told'[s], "disconnect" \notin told'[s],
                      pc'[s] # "closed", of[s] \notin dropped
               PROVE  s \in con'[of[s]].streams
    BY <1>5 DEF NoneForgotten
  <2>1. "disconnect" \notin told[s] /\ pc[s] # "closed"
    BY DEF BlockDone, HandlersTold, ClientsGrow
  <2>2. CASE "connect" \notin told[s]
    <3>1. s \in k.streams /\ of[s] = c
      BY <1>6, <2>2 DEF BlockDone, HandlersTold
    <3> QED
      BY <1>1, <3>1
  <2>3. CASE "connect" \in told[s]
    <3>1. s \in con[of[s]].streams /\ of[s] \in Connectors
      BY <2>1, <2>3 DEF HInv, NoneForgotten, ToldOK
    <3>2. CASE of[s] # c
      BY <1>1, <3>1, <3>2
    <3>3. CASE of[s] = c
      <4>1. ~ (h.op = "close" /\ s = h.sid) /\ h.op # "stop"
        BY <1>2, <2>1, <3>3 DEF CallOK
      <4>2. s \in k.streams
        BY <3>1, <3>3, <4>1 DEF BlockDone, StreamsChange
      <4> QED
        BY <1>1, <3>3, <4>2
    <3> QED
      BY <3>2, <3>3
  <2> QED
    BY <2>2, <2>3
<1>11. UnbornOK'
  <2>1. ASSUME NEW d \in Connectors \ created PROVE Unborn(d)'
    <3>1. Unborn(d)
      BY DEF HInv, UnbornOK
    <3>2. d # c
      BY <3>1 DEF BlockDone, Unborn
    <3>3. session'[d] = session[d] /\ stopping'[d] = stopping[d]
      BY <1>3, <3>2 DEF BlockDone
    <3> QED
      BY <1>1, <1>5, <3>1, <3>2, <3>3 DEF Unborn
  <2> QED
    BY <1>5, <2>1 DEF UnbornOK
<1>12. OfOK'
  BY <1>5 DEF HInv, OfOK
<1>13. Recycled'
  <2> SUFFICES ASSUME (directory # None)', (session[directory] = "stopped")'
               PROVE  EndUnderWay(directory)'
    BY Zenon DEF Recycled, StopUnderWay, EndUnderWay, RecycleJob, StopOf
  <2>1. directory \in Connectors /\ directory # None /\ session'[directory] = "stopped"
    BY <1>3, <1>5
  <2>2. session[directory] = "stopped"
    BY <1>3, <2>1 DEF BlockDone
  <2>3. mgrQ \in Seq(Blocks) /\ RecycleJob(c) \in Blocks
    BY QueueTypes DEF RecycleJob, Blocks
  <2>3a. /\ Range(mgrQ) \subseteq Range(mgrQ')
         /\ h.op = "stopped" => RecycleJob(c) \in Range(mgrQ')
    <3>1. Range(Append(mgrQ, RecycleJob(c))) = Range(mgrQ) \cup {RecycleJob(c)}
      BY <2>3, RangeAppend
    <3>2. CASE mgrQ' = mgrQ /\ h.op # "stopped"
      BY <3>2
    <3>3. CASE mgrQ' = Append(mgrQ, RecycleJob(c)) /\ h.op = "stopped"
      BY <3>1, <3>3, Zenon
    <3> QED
      BY <3>2, <3>3 DEF BlockDone, Reported
  <2>4. CASE RecycleJob(directory) \in Range(mgrQ)
    <3>1. RecycleJob(directory) \in Range(mgrQ')
      BY <2>3a, <2>4
    <3> QED
      BY <1>5, <3>1 DEF EndUnderWay
  <2>5. CASE StopOf(directory) \in Range(cbQ)
    BY <1>5, <2>5 DEF EndUnderWay, StopOf
  <2>6. CASE Stopped \in Range(connQ[directory])
    <3>1. CASE Stopped \in Range(connQ'[directory])
      BY <1>5, <3>1 DEF EndUnderWay
    <3>2. CASE Stopped \notin Range(connQ'[directory])
      <4>1. directory = c /\ h = Stopped
        BY <1>1, <2>1, <2>6, <3>2
      <4>2. h.op = "stopped"
        BY <4>1, JobKinds
      <4>3. RecycleJob(directory) \in Range(mgrQ')
        BY <2>3a, <4>1, <4>2
      <4> QED
        BY <1>5, <4>3 DEF EndUnderWay
    <3> QED
      BY <3>1, <3>2
  <2>7. EndUnderWay(directory)
    <3>1. Recycled
      BY DEF HInv
    <3>2. StopUnderWay(directory) \/ RecycleJob(directory) \in Range(mgrQ)
      BY <2>1, <2>2, <3>1, Zenon DEF Recycled, RecycleJob
    <3> QED
      BY <3>2, Zenon DEF StopUnderWay, EndUnderWay, StopOf
  <2> QED
    BY <2>4, <2>5, <2>6, <2>7 DEF EndUnderWay
<1> QED
  BY <1>7, <1>8, <1>9, <1>10, <1>11, <1>12, <1>13 DEF HInv


-----------------------------------------------------------------------------
(* The blocks                                                              *)

\* What all blocks have in common: they take the head of a queue.
LEMMA BlockHead ==
  ASSUME IInv, NEW c \in Connectors, NEW op, Take(c, op)
  PROVE  /\ connQ[c] # <<>> /\ Head(connQ[c]).op = op
         /\ connQ' = [connQ EXCEPT ![c] = Tail(@)]
         /\ con \in [Connectors -> Fields] /\ con[c] \in Fields /\ Agrees(con[c])
         /\ told \in [Streams -> SUBSET {"connect", "disconnect"}]
BY BlockTypes DEF Take, IInv

\* A block that sets the fields to k, which has the same streams, and tells the streams
\* of S, of which c has all, that they are connected.
LEMMA SameStreams ==
  ASSUME IInv, NEW c \in Connectors, NEW op, Take(c, op), op # "stopped",
         NEW k, con' = [con EXCEPT ![c] = k], k.streams = con[c].streams,
         NEW S, S \subseteq con[c].streams, Tell(S, "connect") \/ told' = told,
         session' = session \/ session' = [session EXCEPT ![c] = "running"],
         UNCHANGED <<stopping, cbQ, of, directory, created, dropped, mgrQ>>
  PROVE  BlockDone(c, Head(connQ[c]), k)
<1> DEFINE h == Head(connQ[c])
<1>1. connQ[c] # <<>> /\ h.op = op /\ connQ' = [connQ EXCEPT ![c] = Tail(@)]
  BY BlockHead
<1>2. told \in [Streams -> SUBSET {"connect", "disconnect"}]
  BY QueueTypes
<1> HIDE DEF h
<1>3. StreamsChange(c, h, k) /\ Reported(c, h)
  BY <1>1 DEF StreamsChange, Reported
<1>4. HandlersTold(c, h, k)
  BY <1>2 DEF HandlersTold, Tell
<1> QED
  BY <1>1, <1>3, <1>4 DEF BlockDone, h

\* start, whether there is a session, one begins, or none can.
LEMMA StartDone ==
  ASSUME IInv, NEW c \in Connectors, StartAgain(c) \/ StartThrows(c) \/ StartSession(c),
         UNCHANGED <<of, managerVars>>
  PROVE  \E k : BlockDone(c, Head(connQ[c]), k)
<1>1. Take(c, "start") /\ UNCHANGED <<stopping, cbQ, of, directory, created, dropped, mgrQ>>
  BY DEF StartAgain, StartThrows, StartSession, sessionVars, managerVars
<1>2. con \in [Connectors -> Fields] /\ con[c] \in Fields /\ Agrees(con[c])
  BY <1>1, BlockHead
<1>3. CASE StartAgain(c) \/ StartThrows(c)
  <2>1. con' = [con EXCEPT ![c] = con[c]] /\ session' = session /\ told' = told
    BY <1>2, <1>3 DEF StartAgain, StartThrows, sessionVars
  <2> QED
    BY <1>1, <2>1, SameStreams
<1>4. CASE StartSession(c)
  <2> DEFINE a == [con[c] EXCEPT !.started = TRUE, !.ready = TRUE, !.timer = TRUE]
             k == Drained(a)
  <2>1. a.streams = con[c].streams /\ a.waiting = con[c].waiting
    BY <1>2 DEF Fields
  <2>2. con' = [con EXCEPT ![c] = k] /\ Tell(con[c].waiting, "connect")
    BY <1>4, <2>1 DEF StartSession, Drain, Drained
  <2>3. k.streams = con[c].streams
    BY <1>2 DEF Drained, Opening, Fields
  <2>4. con[c].waiting \subseteq con[c].streams
    BY <1>2 DEF Agrees
  <2>5. session' = [session EXCEPT ![c] = "running"]
    BY <1>4 DEF StartSession
  <2> HIDE DEF k
  <2>6. BlockDone(c, Head(connQ[c]), k)
    BY <1>1, <2>2, <2>3, <2>4, <2>5, SameStreams
  <2> QED
    BY <2>6
<1> QED
  BY <1>3, <1>4

\* handleSessionStop tells every handler before it forgets them all.
LEMMA StoppedDone ==
  ASSUME IInv, NEW c \in Connectors, SessionStopped(c), mgrQ' = Append(mgrQ, RecycleJob(c)),
         UNCHANGED <<of, directory, created, dropped>>
  PROVE  BlockDone(c, Head(connQ[c]), Cleared)
<1>1. Take(c, "stopped") /\ con' = [con EXCEPT ![c] = Cleared]
        /\ Tell(con[c].streams, "disconnect") /\ UNCHANGED sessionVars
  BY DEF SessionStopped
<1> DEFINE h == Head(connQ[c])
<1>2. connQ[c] # <<>> /\ h.op = "stopped" /\ connQ' = [connQ EXCEPT ![c] = Tail(@)]
        /\ told \in [Streams -> SUBSET {"connect", "disconnect"}] /\ con[c] \in Fields
  BY <1>1, BlockHead
<1> HIDE DEF h
<1>3. con[c].streams \subseteq Streams
  BY <1>2 DEF Fields
<1>4. Reported(c, h) /\ StreamsChange(c, h, Cleared)
  BY <1>1, <1>2, <1>3 DEF Reported, StreamsChange, Cleared, Tell
<1>5. HandlersTold(c, h, Cleared)
  BY <1>1, <1>2 DEF HandlersTold, Tell
<1> QED
  BY <1>1, <1>2, <1>4, <1>5 DEF BlockDone, sessionVars, h

\* stop(), closeStream and FIN take streams away: all, the one closed, and one whose
\* handler is told.
LEMMA TakenAway ==
  ASSUME IInv, NEW c \in Connectors, UNCHANGED <<of, managerVars>>,
         StopConnector(c) \/ CloseStream(c) \/ InboundFin(c)
  PROVE  \E k : BlockDone(c, Head(connQ[c]), k)
<1> DEFINE h == Head(connQ[c])
<1>1. /\ UNCHANGED <<session, cbQ, of, directory, created, dropped, mgrQ>>
      /\ Take(c, "stop") \/ Take(c, "close") \/ Take(c, "data")
  BY DEF StopConnector, CloseStream, InboundFin, TakeFrame, sessionVars, managerVars
<1>2. /\ connQ[c] # <<>> /\ h.op \in {"stop", "close", "data"}
      /\ connQ' = [connQ EXCEPT ![c] = Tail(@)]
      /\ told \in [Streams -> SUBSET {"connect", "disconnect"}]
      /\ con \in [Connectors -> Fields] /\ con[c] \in Fields
  BY <1>1, BlockHead
<1>3. Argument(c) = h.sid
  BY DEF Argument
<1> HIDE DEF h
<1>4. Reported(c, h)
  BY <1>1, <1>2 DEF Reported
<1>5. CASE StopConnector(c)
  <2>1. con' = [con EXCEPT ![c] = Cleared] /\ stopping' = [stopping EXCEPT ![c] = TRUE]
          /\ told' = told /\ h.op = "stop"
    BY <1>5 DEF StopConnector, Take, h
  <2>2. StreamsChange(c, h, Cleared) /\ HandlersTold(c, h, Cleared)
    BY <2>1 DEF StreamsChange, HandlersTold, Cleared
  <2> QED
    BY <1>1, <1>2, <1>4, <2>1, <2>2 DEF BlockDone, h
<1>6. CASE CloseStream(c)
  <2> DEFINE k == Clear(con[c], h.sid)
  <2>1. con' = [con EXCEPT ![c] = k] /\ stopping' = stopping
          /\ told' = told /\ h.op = "close"
    BY <1>2, <1>3, <1>6 DEF CloseStream, Take, sessionVars, h
  <2>2. k.streams = con[c].streams \ {h.sid}
    BY <1>2 DEF Clear, Fields
  <2> HIDE DEF k
  <2>3. StreamsChange(c, h, k) /\ HandlersTold(c, h, k)
    BY <2>1, <2>2 DEF StreamsChange, HandlersTold
  <2>4. BlockDone(c, h, k)
    BY <1>1, <1>2, <1>4, <2>1, <2>3 DEF BlockDone, h
  <2> QED
    BY <2>4 DEF h
<1>7. CASE InboundFin(c)
  <2> DEFINE k == Clear(con[c], h.sid)
  <2>1. con' = [con EXCEPT ![c] = k] /\ stopping' = stopping
          /\ Tell({h.sid}, "disconnect") /\ h.sid \in con[c].streams
    BY <1>2, <1>3, <1>7 DEF InboundFin, Registered, sessionVars
  <2>2. k.streams = con[c].streams \ {h.sid} /\ con[c].streams \subseteq Streams
    BY <1>2 DEF Clear, Fields
  <2> HIDE DEF k
  <2>3. StreamsChange(c, h, k)
    BY <2>1, <2>2 DEF StreamsChange, Tell
  <2>4. HandlersTold(c, h, k)
    BY <1>2, <2>1, <2>2 DEF HandlersTold, Tell
  <2>5. BlockDone(c, h, k)
    BY <1>1, <1>2, <1>4, <2>1, <2>3, <2>4 DEF BlockDone, h
  <2> QED
    BY <2>5 DEF h
<1> QED
  BY <1>5, <1>6, <1>7

\* openStream registers the handler, and tells it at once if the control channel is
\* ready.
LEMMA OpenDone ==
  ASSUME IInv, NEW c \in Connectors, OpenStream(c), UNCHANGED <<of, managerVars>>
  PROVE  \E k : BlockDone(c, Head(connQ[c]), k)
<1> DEFINE h == Head(connQ[c])
           s == h.sid
<1>1. Take(c, "open")
        /\ UNCHANGED <<session, stopping, cbQ, of, directory, created, dropped, mgrQ>>
  BY DEF OpenStream, sessionVars, managerVars
<1>2. /\ connQ[c] # <<>> /\ h.op = "open" /\ connQ' = [connQ EXCEPT ![c] = Tail(@)]
      /\ told \in [Streams -> SUBSET {"connect", "disconnect"}]
      /\ con \in [Connectors -> Fields] /\ con[c] \in Fields
  BY <1>1, BlockHead
<1>3. PICK k : /\ con' = [con EXCEPT ![c] = k]
               /\ k = Opening(WithHandler(con[c], s), {s}) \/ k = WithWaiting(con[c], s)
               /\ Tell({s}, "connect") \/ told' = told
  BY DEF OpenStream, WithHandler, WithWaiting, Argument
<1>4. k.streams = con[c].streams \cup {s}
  BY <1>2, <1>3 DEF Opening, WithHandler, WithWaiting, Fields
<1> HIDE DEF h
<1>5. Reported(c, h) /\ StreamsChange(c, h, k)
  BY <1>1, <1>2, <1>4 DEF Reported, StreamsChange
<1>6. HandlersTold(c, h, k)
  <2>1. CASE told' = told
    BY <2>1 DEF HandlersTold
  <2>2. CASE Tell({s}, "connect")
    <3>1. ASSUME NEW x \in Streams
          PROVE  /\ told[x] \subseteq told'[x]
                 /\ x # s => told'[x] = told[x]
                 /\ x = s => x \in k.streams
      BY <1>4, <2>2 DEF Tell
    <3> QED
      BY <1>2, <3>1 DEF HandlersTold
  <2> QED
    BY <1>3, <2>1, <2>2
<1>7. BlockDone(c, h, k)
  BY <1>1, <1>2, <1>3, <1>5, <1>6 DEF BlockDone, h
<1> QED
  BY <1>7 DEF h

\* The frames that take no stream away: NOP of the bootstrap stream, a frame nobody
\* expects, SYN, data and UPD.
LEMMA FrameDone ==
  ASSUME IInv, NEW c \in Connectors, UNCHANGED <<of, managerVars>>,
         \/ InboundBootstrap(c) \/ InboundUnknown(c) \/ InboundSyn(c)
         \/ InboundPshOrNop(c) \/ InboundUpd(c)
  PROVE  \E k : BlockDone(c, Head(connQ[c]), k)
<1> DEFINE s == Argument(c)
<1>1. Take(c, "data")
        /\ UNCHANGED <<session, stopping, cbQ, of, directory, created, dropped, mgrQ>>
  BY DEF InboundBootstrap, InboundUnknown, InboundSyn, InboundPshOrNop, InboundUpd,
         TakeFrame, sessionVars, managerVars
<1>2. con \in [Connectors -> Fields] /\ con[c] \in Fields /\ Agrees(con[c])
  BY <1>1, BlockHead
<1>3. ASSUME NEW k, con' = [con EXCEPT ![c] = k], k.streams = con[c].streams,
             NEW S, S \subseteq con[c].streams, Tell(S, "connect") \/ told' = told
      PROVE  BlockDone(c, Head(connQ[c]), k)
  BY <1>1, <1>3, SameStreams
<1>4. CASE InboundBootstrap(c)
  <2> DEFINE k == Drained([con[c] EXCEPT !.ready = TRUE])
  <2>1. con' = [con EXCEPT ![c] = k] /\ Tell(con[c].waiting, "connect")
    BY <1>2, <1>4 DEF InboundBootstrap, Drain, Drained, Fields
  <2>2. k.streams = con[c].streams /\ con[c].waiting \subseteq con[c].streams
    BY <1>2 DEF Drained, Opening, Fields, Agrees
  <2> HIDE DEF k
  <2> QED
    BY <1>3, <2>1, <2>2
<1>5. CASE InboundUnknown(c)
  <2>1. PICK k : con' = [con EXCEPT ![c] = k] /\ (k = con[c] \/ k = Clear(con[c], s))
    BY <1>2, <1>5 DEF InboundUnknown
  <2>2. s \notin con[c].streams /\ told' = told
    BY <1>5 DEF InboundUnknown, Registered
  <2>2a. Clear(con[c], s).streams = con[c].streams \ {s}
    BY <1>2 DEF Clear, Fields
  <2>2b. k.streams = con[c].streams
    BY <2>1, <2>2, <2>2a
  <2>3. {} \subseteq con[c].streams
    OBVIOUS
  <2> QED
    BY <1>3, <2>1, <2>2, <2>2b, <2>3
<1>6. CASE InboundSyn(c) \/ InboundPshOrNop(c)
  <2> DEFINE k == Mark(con[c], s)
  <2>1. con' = [con EXCEPT ![c] = k] /\ {s} \subseteq con[c].streams
          /\ (Tell({s}, "connect") \/ told' = told)
    BY <1>2, <1>6 DEF InboundSyn, InboundPshOrNop, Registered
  <2>2. k.streams = con[c].streams
    BY <1>2 DEF Mark, Fields
  <2> HIDE DEF k
  <2> QED
    BY <1>3, <2>1, <2>2
<1>7. CASE InboundUpd(c)
  <2>1. con' = [con EXCEPT ![c] = con[c]] /\ told' = told /\ {} \subseteq con[c].streams
    BY <1>2, <1>7 DEF InboundUpd
  <2> QED
    BY <1>3, <2>1
<1> QED
  BY <1>4, <1>5, <1>6, <1>7


-----------------------------------------------------------------------------
(* Steps that leave the fields and the handlers alone                      *)

\* What such a step still has to show.
LEMMA QuietStep ==
  ASSUME IInv, HInv, ClientsGrow, UNCHANGED <<con, told>>,
         \A c \in Connectors : \A j \in Range(connQ'[c]) :
           j \in Range(connQ[c]) \/ CallOK(c, j)',
         UnbornOK', OfOK', Recycled'
  PROVE  HInv'
<1>1. con \in [Connectors -> Fields]
  BY QueueTypes
<1>2. Placed'
  <2>1. ASSUME NEW c \in Connectors, NEW s \in con[c].streams PROVE of'[s] = c /\ Reached(s)'
    <3>1. of[s] = c /\ Reached(s) /\ s \in Streams
      BY <1>1, <2>1 DEF HInv, Placed, Fields
    <3> QED
      BY <3>1 DEF ClientsGrow
  <2> QED
    BY <2>1 DEF Placed
<1>3. CallsOK'
  <2>1. ASSUME NEW c \in Connectors, NEW j \in Range(connQ'[c]), j \in Range(connQ[c])
        PROVE  CallOK(c, j)'
    <3>1. CallOK(c, j) /\ j \in Jobs
      BY <2>1, JobsWait DEF HInv, CallsOK
    <3> QED
      BY <3>1, CallStays
  <2> QED
    BY <2>1 DEF CallsOK
<1>4. ToldOK' /\ NoneForgotten'
  <2>1. ASSUME NEW s \in Streams, told[s] # {}
        PROVE  of'[s] = of[s] /\ of[s] \in Connectors /\ Reached(s)'
    BY <2>1 DEF HInv, ToldOK, ClientsGrow
  <2>2. \A s \in Streams : pc'[s] # "closed" => pc[s] # "closed"
    BY DEF ClientsGrow
  <2>3. dropped \subseteq dropped' /\ NoneForgotten
    BY DEF ClientsGrow, HInv
  <2> QED
    BY <2>1, <2>2, <2>3 DEF ToldOK, NoneForgotten
<1> QED
  BY <1>2, <1>3, <1>4 DEF HInv

\* Recycled in terms of EndUnderWay.
LEMMA RecycledSays ==
  ASSUME IInv, HInv, NEW c \in Connectors, directory = c, session[c] = "stopped"
  PROVE  EndUnderWay(c)
<1>1. directory # None /\ Recycled
  BY ManagerAssumption DEF HInv
<1>2. StopUnderWay(c) \/ RecycleJob(c) \in Range(mgrQ)
  BY <1>1, Zenon DEF Recycled, RecycleJob
<1> QED
  BY <1>2, Zenon DEF StopUnderWay, EndUnderWay, StopOf

\* How a step shows that the manager keeps no dead connector.
LEMMA RecycledKept ==
  ASSUME directory' \in Connectors \cup {None},
         \A c \in Connectors : directory' = c /\ session'[c] = "stopped" => EndUnderWay(c)'
  PROVE  Recycled'
<1> SUFFICES ASSUME (directory # None)', (session[directory] = "stopped")'
             PROVE  (StopUnderWay(directory) \/ RecycleJob(directory) \in Range(mgrQ))'
  BY Zenon DEF Recycled, RecycleJob
<1>1. PICK c \in Connectors : directory' = c /\ EndUnderWay(c)'
  OBVIOUS
<1>2. (StopUnderWay(c) \/ RecycleJob(c) \in Range(mgrQ))'
  BY <1>1, Zenon DEF StopUnderWay, EndUnderWay, StopOf
<1> QED
  BY <1>1, <1>2, Zenon DEF StopUnderWay, RecycleJob

\* The manager's queue without its head: a recycling goes only when it is done.
LEMMA ManagerBlock ==
  ASSUME IInv, NEW op, Block(op)
  PROVE  /\ Head(mgrQ) \in Blocks /\ Head(mgrQ).op = op
         /\ \A c \in Connectors : op # "recycle" \/ Head(mgrQ).con # c =>
              (RecycleJob(c) \in Range(mgrQ) => RecycleJob(c) \in Range(mgrQ'))
<1>1. mgrQ \in Seq(Blocks) /\ mgrQ # <<>> /\ mgrQ' = Tail(mgrQ) /\ Head(mgrQ).op = op
  BY QueueTypes DEF Block
<1>2. Range(mgrQ) = Range(mgrQ') \cup {Head(mgrQ)} /\ Head(mgrQ) \in Blocks
  BY <1>1, RangeTail
<1>3. \A c \in Connectors : RecycleJob(c).op = "recycle" /\ RecycleJob(c).con = c
  BY DEF RecycleJob
<1> QED
  BY <1>1, <1>2, <1>3

\* The manager gives connectors, takes them out and stops them.
LEMMA ManagerKeepsHandlers ==
  ASSUME IInv, IInv', HInv, ManagerStep \/ AskRemoval
  PROVE  HInv'
<1> USE ManagerAssumption
<1>1. /\ pc \in [Streams -> Steps] /\ of \in [Streams -> Connectors \cup {None}]
      /\ session \in [Connectors -> {"idle", "running", "stopped"}]
      /\ connQ \in [Connectors -> Seq(Jobs)] /\ mgrQ \in Seq(Blocks)
      /\ directory \in created \cup {None} /\ created \subseteq Connectors
      /\ directory' \in Connectors \cup {None}
  BY QueueTypes DEF IInv, ManagerOK
<1>2. UnbornOK /\ OfOK
  BY DEF HInv
<1>3. CASE Give
  <2>1. PICK s \in Streams, c \in Connectors :
          /\ Go(s, "asking", "start") /\ of' = [of EXCEPT ![s] = c]
          /\ directory' = c /\ created' = created \cup {c}
          /\ directory = c \/ (directory = None /\ c \notin created)
    <3>1. Block("get")
      BY <1>3 DEF Give
    <3>2. Head(mgrQ) \in Blocks /\ Head(mgrQ).op = "get"
      BY <3>1, ManagerBlock
    <3>3. Head(mgrQ).sid \in Streams
      BY <3>2 DEF Blocks
    <3> QED
      BY <1>1, <1>3, <3>3 DEF Give
  <2>2. UNCHANGED <<con, connQ, session, stopping, cbQ, told, dropped>>
    BY <1>3 DEF Give, connectorVars, sessionVars
  <2>3. ClientsGrow
    BY <1>1, <2>1, <2>2 DEF Go, ClientsGrow, Reached
  <2>4. UnbornOK' /\ OfOK'
    BY <1>1, <1>2, <2>1, <2>2 DEF UnbornOK, Unborn, OfOK
  <2>5. Recycled'
    <3> SUFFICES ASSUME NEW d \in Connectors, directory' = d, session'[d] = "stopped"
                 PROVE  EndUnderWay(d)'
      BY <1>1, RecycledKept
    <3>1. d = c /\ session[d] = "stopped"
      BY <2>1, <2>2
    <3>2. directory = d
      BY <1>2, <2>1, <3>1 DEF UnbornOK, Unborn
    <3>3. EndUnderWay(d)
      BY <3>1, <3>2, RecycledSays
    <3>4. RecycleJob(d) \in Range(mgrQ) => RecycleJob(d) \in Range(mgrQ')
      BY <1>3, ManagerBlock DEF Give
    <3> QED
      BY <2>2, <3>3, <3>4 DEF EndUnderWay
  <2> QED
    BY <2>2, <2>3, <2>4, <2>5, QuietStep
<1>4. CASE Recycle
  <2>1. UNCHANGED <<con, connQ, session, stopping, cbQ, told, created, dropped, pc, of>>
    BY <1>4 DEF Recycle, connectorVars, sessionVars, clientVars
  <2>2. ClientsGrow
    BY <2>1 DEF ClientsGrow, Reached
  <2>3. UnbornOK' /\ OfOK'
    BY <1>2, <2>1 DEF UnbornOK, Unborn, OfOK
  <2>4. Recycled'
    <3> SUFFICES ASSUME NEW d \in Connectors, directory' = d, session'[d] = "stopped"
                 PROVE  EndUnderWay(d)'
      BY <1>1, RecycledKept
    <3>1. directory = d /\ Head(mgrQ).con # d
      BY <1>4 DEF Recycle
    <3>2. EndUnderWay(d)
      BY <2>1, <3>1, RecycledSays
    <3>3. RecycleJob(d) \in Range(mgrQ) => RecycleJob(d) \in Range(mgrQ')
      BY <1>4, <3>1, ManagerBlock DEF Recycle
    <3> QED
      BY <2>1, <3>2, <3>3 DEF EndUnderWay
  <2> QED
    BY <2>1, <2>2, <2>3, <2>4, QuietStep
<1>5. CASE Remove
  <2>1. UNCHANGED <<con, session, stopping, cbQ, told, created, pc, of>> /\ directory' = None
    BY <1>5 DEF Remove, sessionVars, clientVars
  <2>2. dropped \subseteq dropped'
    BY <1>5 DEF Remove
  <2>3. ClientsGrow
    BY <2>1, <2>2 DEF ClientsGrow, Reached
  <2>4. Recycled'
    BY <1>1, <2>1, RecycledKept
  <2>5. CASE directory = None
    <3>1. connQ' = connQ
      BY <1>5, <2>5 DEF Remove
    <3>2. UnbornOK' /\ OfOK'
      BY <1>2, <2>1, <3>1 DEF UnbornOK, Unborn, OfOK
    <3> QED
      BY <2>1, <2>3, <2>4, <3>1, <3>2, QuietStep
  <2>6. CASE directory # None
    <3>1. PICK c \in Connectors : c = directory /\ c \in created
      BY <1>1, <2>6
    <3>2. connQ' = [connQ EXCEPT ![c] = @ \o <<StopCall>>] /\ c \in dropped'
      BY <1>5, <2>6, <3>1 DEF Remove, Enqueue
    <3>3. connQ[c] \in Seq(Jobs) /\ StopCall \in Jobs /\ StopCall.op = "stop"
      BY <1>1, JobKinds
    <3>4. connQ'[c] = Append(connQ[c], StopCall) /\ \A d \in Connectors \ {c} : connQ'[d] = connQ[d]
      BY <1>1, <3>2, <3>3, OneMore
    <3>5. Range(Append(connQ[c], StopCall)) = Range(connQ[c]) \cup {StopCall}
      BY <3>3, RangeAppend
    <3>6. CallOK(c, StopCall)'
      BY <3>2, <3>3 DEF CallOK
    <3>7. \A d \in Connectors : \A j \in Range(connQ'[d]) :
            j \in Range(connQ[d]) \/ CallOK(d, j)'
      BY <3>4, <3>5, <3>6
    <3>8. UnbornOK' /\ OfOK'
      BY <1>2, <2>1, <3>1, <3>4 DEF UnbornOK, Unborn, OfOK
    <3> QED
      BY <2>1, <2>3, <2>4, <3>7, <3>8, QuietStep
  <2> QED
    BY <2>5, <2>6
<1>6. CASE AskRemoval
  <2>1. /\ UNCHANGED <<con, connQ, session, stopping, cbQ, told, directory, created, dropped, pc, of>>
        /\ mgrQ' = Append(mgrQ, [op |-> "remove"])
    BY <1>6 DEF AskRemoval, connectorVars, sessionVars, clientVars
  <2>2. ClientsGrow
    BY <2>1 DEF ClientsGrow, Reached
  <2>3. UnbornOK' /\ OfOK'
    BY <1>2, <2>1 DEF UnbornOK, Unborn, OfOK
  <2>4. Range(Append(mgrQ, [op |-> "remove"])) = Range(mgrQ) \cup {[op |-> "remove"]}
    <3>1. [op |-> "remove"] \in Blocks
      BY DEF Blocks
    <3> QED
      BY <1>1, <3>1, RangeAppend
  <2>5. Recycled'
    BY <1>1, <2>1, <2>4, RecycledKept, RecycledSays DEF EndUnderWay
  <2> QED
    BY <2>1, <2>2, <2>3, <2>5, QuietStep
<1> QED
  BY <1>3, <1>4, <1>5, <1>6 DEF ManagerStep

\* A session's end is reported, and only a connector that exists has a session, reads
\* and keeps alive.
LEMMA SessionKeepsHandlers ==
  ASSUME IInv, IInv', HInv, NEW c \in Connectors, SessionStep(c) \/ Events(c)
  PROVE  HInv'
<1>1. /\ session \in [Connectors -> {"idle", "running", "stopped"}]
      /\ stopping \in [Connectors -> BOOLEAN] /\ cbQ \in Seq(Reports)
      /\ directory' \in Connectors \cup {None}
  BY QueueTypes DEF IInv, ManagerOK
<1>2. UnbornOK /\ OfOK
  BY DEF HInv
<1>3. UNCHANGED <<con, connQ, told, mgrQ, directory, created, dropped, pc, of>>
  BY DEF SessionStep, Events, SessionStop, SessionFails, SessionReads, KeepAlive, connectorVars,
         managerVars, clientVars
<1>4. ClientsGrow
  BY <1>3 DEF ClientsGrow, Reached
<1>5. c \in created
  <2>1. stopping[c] \/ session[c] = "running" \/ con[c].timer
    BY DEF SessionStep, Events, SessionStop, SessionFails, SessionReads, KeepAlive
  <2> QED
    BY <1>2, <2>1 DEF UnbornOK, Unborn
<1>6. /\ session' = session \/ session' = [session EXCEPT ![c] = "stopped"]
      /\ stopping' = stopping \/ \E b \in BOOLEAN : stopping' = [stopping EXCEPT ![c] = b]
      /\ cbQ' = cbQ \/ \E x \in Reports : x.con = c /\ cbQ' = Append(cbQ, x)
      /\ session' = session \/ cbQ' = Append(cbQ, StopOf(c))
  <2>1. StopOf(c) \in Reports /\ StopOf(c).con = c
    BY DEF StopOf, Reports
  <2>2. CASE SessionStop(c) \/ SessionFails(c)
    BY <2>1, <2>2 DEF SessionStop, SessionFails, Shutdown, StopOf
  <2>3. CASE SessionReads(c)
    <3>1. /\ session' = session /\ stopping' = stopping
          /\ \E f \in Inbound(Commands, known[c]) \cup Inbound({"nop"}, {Bootstrap}) :
               cbQ' = Append(cbQ, [con |-> c, job |-> f])
      BY <2>3 DEF SessionReads
    <3>2. known[c] \subseteq Streams
      BY DEF IInv, CInv, QueuesOK
    <3>3. Inbound(Commands, known[c]) \cup Inbound({"nop"}, {Bootstrap}) \subseteq Frames
      BY <3>2 DEF Inbound, Frames, Commands
    <3>4. \A f \in Frames : [con |-> c, job |-> f] \in Reports
      BY DEF Reports
    <3> QED
      BY <3>1, <3>3, <3>4
  <2>4. CASE KeepAlive(c)
    BY <2>4 DEF KeepAlive, sessionVars
  <2> QED
    BY <2>2, <2>3, <2>4 DEF SessionStep, Events
<1>7. /\ Range(cbQ) \subseteq Range(cbQ')
      /\ \A x \in Range(cbQ') : x \in Range(cbQ) \/ x.con = c
      /\ session' # session => StopOf(c) \in Range(cbQ')
  <2>1. StopOf(c) \in Reports
    BY DEF StopOf, Reports
  <2>2. \A x \in Reports : Range(Append(cbQ, x)) = Range(cbQ) \cup {x}
    BY <1>1, RangeAppend
  <2>3. CASE cbQ' = cbQ
    <3>1. session' # session => Range(cbQ') = Range(cbQ) \cup {StopOf(c)}
      BY <1>6, <2>1, <2>2
    <3> QED
      BY <2>3, <3>1
  <2>4. ASSUME NEW x \in Reports, x.con = c, cbQ' = Append(cbQ, x)
        PROVE  /\ Range(cbQ') = Range(cbQ) \cup {x}
               /\ session' # session => Range(cbQ') = Range(cbQ) \cup {StopOf(c)}
    BY <1>6, <2>1, <2>2, <2>4
  <2> QED
    BY <1>6, <2>3, <2>4
<1>8. UnbornOK' /\ OfOK'
  <2>1. ASSUME NEW d \in Connectors \ created PROVE Unborn(d)'
    <3>1. Unborn(d) /\ d # c
      BY <1>2, <1>5 DEF UnbornOK
    <3>2. session'[d] = session[d] /\ stopping'[d] = stopping[d]
      BY <1>1, <1>6, <3>1
    <3> QED
      BY <1>3, <1>7, <3>1, <3>2 DEF Unborn
  <2> QED
    BY <1>2, <1>3, <2>1 DEF UnbornOK, OfOK
<1>9. Recycled'
  <2> SUFFICES ASSUME NEW d \in Connectors, directory' = d, session'[d] = "stopped"
               PROVE  EndUnderWay(d)'
    BY <1>1, RecycledKept
  <2>1. CASE session[d] = "stopped"
    BY <1>3, <1>7, <2>1, RecycledSays DEF EndUnderWay
  <2>2. CASE session[d] # "stopped"
    <3>1. d = c /\ session' # session
      BY <1>1, <1>6, <2>2
    <3> QED
      BY <1>7, <3>1 DEF EndUnderWay
  <2> QED
    BY <2>1, <2>2
<1> QED
  BY <1>3, <1>4, <1>8, <1>9, QuietStep

\* The hop from the callback queue loses no report.
LEMMA CallbackKeepsHandlers ==
  ASSUME IInv, IInv', HInv, CallbackStep
  PROVE  HInv'
<1>1. /\ connQ \in [Connectors -> Seq(Jobs)] /\ cbQ \in Seq(Reports)
      /\ directory' \in Connectors \cup {None}
  BY QueueTypes DEF IInv, ManagerOK
<1>2. UnbornOK /\ OfOK
  BY DEF HInv
<1>3. /\ UNCHANGED <<con, session, stopping, told, mgrQ, directory, created, dropped, pc, of>>
      /\ cbQ # <<>> /\ cbQ' = Tail(cbQ)
      /\ Enqueue(Head(cbQ).con, <<Head(cbQ).job>>)
  BY DEF CallbackStep, Callback, managerVars, clientVars
<1>4. Range(cbQ) = Range(cbQ') \cup {Head(cbQ)} /\ Head(cbQ) \in Reports
  BY <1>1, <1>3, RangeTail
<1>5. PICK c \in Connectors, j \in Frames \cup {Stopped} :
        Head(cbQ) = [con |-> c, job |-> j] /\ Head(cbQ).con = c /\ Head(cbQ).job = j
  BY <1>4 DEF Reports
<1>6. j \in Jobs /\ j.op \in {"data", "stopped"}
  BY JobKinds
<1>7. connQ'[c] = Append(connQ[c], j) /\ \A d \in Connectors \ {c} : connQ'[d] = connQ[d]
  <2>1. connQ[c] \in Seq(Jobs)
    BY <1>1
  <2>2. connQ[c] \o <<j>> = Append(connQ[c], j)
    BY <1>6, <2>1, OneMore
  <2>3. connQ' = [connQ EXCEPT ![c] = connQ[c] \o <<j>>]
    BY <1>3, <1>5 DEF Enqueue
  <2> QED
    BY <1>1, <2>2, <2>3
<1>8. Range(Append(connQ[c], j)) = Range(connQ[c]) \cup {j}
  <2>1. connQ[c] \in Seq(Jobs)
    BY <1>1
  <2> QED
    BY <1>6, <2>1, RangeAppend
<1>9. ClientsGrow
  BY <1>3 DEF ClientsGrow, Reached
<1>10. \A d \in Connectors : \A x \in Range(connQ'[d]) :
         x \in Range(connQ[d]) \/ CallOK(d, x)'
  <2>1. CallOK(c, j)'
    BY <1>6 DEF CallOK
  <2>2. \A d \in Connectors : Range(connQ'[d]) = Range(connQ[d]) \/
          (d = c /\ Range(connQ'[d]) = Range(connQ[d]) \cup {j})
    BY <1>7, <1>8
  <2> QED
    BY <2>1, <2>2
<1>11. UnbornOK' /\ OfOK'
  <2>1. ASSUME NEW d \in Connectors \ created PROVE Unborn(d)'
    <3>1. Unborn(d) /\ d # c
      BY <1>2, <1>4, <1>5 DEF UnbornOK, Unborn
    <3> QED
      BY <1>3, <1>4, <1>7, <3>1 DEF Unborn
  <2> QED
    BY <1>2, <1>3, <2>1 DEF UnbornOK, OfOK
<1>12. Recycled'
  <2> SUFFICES ASSUME NEW d \in Connectors, directory' = d, session'[d] = "stopped"
               PROVE  EndUnderWay(d)'
    BY <1>1, RecycledKept
  <2>1. EndUnderWay(d)
    BY <1>3, RecycledSays
  <2>2. Range(connQ[d]) \subseteq Range(connQ'[d])
    BY <1>7, <1>8
  <2>3. StopOf(d) \in Range(cbQ) => StopOf(d) \in Range(cbQ') \/ Stopped \in Range(connQ'[d])
    <3>1. ASSUME Head(cbQ) = StopOf(d) PROVE Stopped \in Range(connQ'[d])
      <4>1. c = d /\ j = Stopped
        BY <1>5, <3>1 DEF StopOf
      <4> QED
        BY <1>7, <1>8, <4>1
    <3> QED
      BY <1>4, <3>1
  <2> QED
    BY <1>3, <2>1, <2>2, <2>3 DEF EndUnderWay
<1> QED
  BY <1>3, <1>9, <1>10, <1>11, <1>12, QuietStep

\* A call of a client waits at the connector it was given.
LEMMA CallKeepsHandlers ==
  ASSUME IInv, IInv', HInv, NEW s \in Streams, NEW from \in Steps \ {"closed"}, NEW to \in Steps,
         NEW op \in {"start", "open", "close"}, CallConnector(s, from, op, to),
         from = "reading" => to = "closed",
         op = "open" => to = "reading", op = "close" => to = "closed"
  PROVE  HInv'
<1>1. /\ connQ \in [Connectors -> Seq(Jobs)] /\ of \in [Streams -> Connectors \cup {None}]
      /\ pc \in [Streams -> Steps] /\ directory' \in Connectors \cup {None}
  BY QueueTypes DEF IInv, ManagerOK
<1>2. UnbornOK /\ OfOK
  BY DEF HInv
<1>3. /\ UNCHANGED <<con, session, stopping, cbQ, told, mgrQ, directory, created, dropped, of>>
      /\ Go(s, from, to) /\ Enqueue(of[s], <<Call(op, s)>>)
  BY DEF CallConnector, managerVars, sessionVars
<1>4. ClientsGrow
  BY <1>3, GoGrows
<1>5. PICK j \in Jobs : j = Call(op, s) /\ j.op = op /\ j.sid = s
  BY CallJob DEF Call
<1>6. ASSUME NEW d \in Connectors
      PROVE  \/ connQ'[d] = connQ[d]
             \/ d = of[s] /\ Range(connQ'[d]) = Range(connQ[d]) \cup {j}
  <2>1. connQ' = [connQ EXCEPT ![of[s]] = @ \o <<j>>]
    BY <1>3, <1>5 DEF Enqueue
  <2>2. connQ[d] \in Seq(Jobs)
    BY <1>1
  <2>3. connQ[d] \o <<j>> = Append(connQ[d], j)
    BY <2>2, OneMore
  <2>4. Range(Append(connQ[d], j)) = Range(connQ[d]) \cup {j}
    BY <2>2, RangeAppend
  <2>5. connQ'[d] = connQ[d] \/ (d = of[s] /\ connQ'[d] = connQ[d] \o <<j>>)
    BY <1>1, <2>1
  <2> QED
    BY <2>3, <2>4, <2>5
<1>7. ASSUME NEW d \in Connectors, d = of[s] PROVE CallOK(d, j)'
  BY <1>1, <1>3, <1>5, <1>7 DEF CallOK, Go, Reached
<1>8. \A d \in Connectors : \A x \in Range(connQ'[d]) :
        x \in Range(connQ[d]) \/ CallOK(d, x)'
  BY <1>6, <1>7
<1>9. UnbornOK' /\ OfOK'
  <2>1. ASSUME NEW d \in Connectors \ created PROVE Unborn(d)'
    <3>1. Unborn(d) /\ d # of[s]
      BY <1>2, ManagerAssumption DEF UnbornOK, OfOK
    <3>2. connQ'[d] = connQ[d]
      BY <1>6, <3>1
    <3> QED
      BY <1>3, <3>1, <3>2 DEF Unborn
  <2> QED
    BY <1>2, <1>3, <2>1 DEF UnbornOK, OfOK
<1>10. Recycled'
  <2> SUFFICES ASSUME NEW d \in Connectors, directory' = d, session'[d] = "stopped"
               PROVE  EndUnderWay(d)'
    BY <1>1, RecycledKept
  <2>1. EndUnderWay(d)
    BY <1>3, RecycledSays
  <2> QED
    BY <1>3, <1>6, <2>1 DEF EndUnderWay
<1> QED
  BY <1>3, <1>4, <1>8, <1>9, <1>10, QuietStep

\* A client asks, starts, opens and closes.
LEMMA ClientKeepsHandlers ==
  ASSUME IInv, IInv', HInv, NEW s \in Streams, ClientStep(s) \/ CallClose(s)
  PROVE  HInv'
<1>1. CASE Ask(s)
  <2>1. /\ UNCHANGED <<con, connQ, session, stopping, cbQ, told, directory, created, dropped, of>>
        /\ Go(s, "new", "asking") /\ mgrQ' = Append(mgrQ, [op |-> "get", sid |-> s])
    BY <1>1 DEF Ask, connectorVars, sessionVars
  <2>2. ClientsGrow
    BY <2>1, GoGrows DEF Steps
  <2>3. UnbornOK' /\ OfOK'
    BY <2>1 DEF HInv, UnbornOK, Unborn, OfOK
  <2>4. mgrQ \in Seq(Blocks) /\ directory' \in Connectors \cup {None}
    BY QueueTypes DEF IInv, ManagerOK
  <2>5. Range(Append(mgrQ, [op |-> "get", sid |-> s]))
          = Range(mgrQ) \cup {[op |-> "get", sid |-> s]}
    <3>1. [op |-> "get", sid |-> s] \in Blocks
      BY DEF Blocks
    <3> QED
      BY <2>4, <3>1, RangeAppend
  <2>6. Recycled'
    BY <2>1, <2>4, <2>5, RecycledKept, RecycledSays DEF EndUnderWay
  <2> QED
    BY <2>1, <2>2, <2>3, <2>6, QuietStep
<1>2. CASE CallStart(s)
  BY <1>2, CallKeepsHandlers DEF CallStart, Steps
<1>3. CASE CallOpen(s)
  BY <1>3, CallKeepsHandlers DEF CallOpen, Steps
<1>4. CASE CallClose(s)
  BY <1>4, CallKeepsHandlers DEF CallClose, Steps
<1> QED
  BY <1>1, <1>2, <1>3, <1>4 DEF ClientStep

\* The blocks of a connector, with those a client or the manager waits for.
LEMMA ConnectorKeepsHandlers ==
  ASSUME IInv, HInv, NEW c \in Connectors, ConnectorStep(c)
  PROVE  HInv'
<1>1. ASSUME ClientsGrow, NEW k, BlockDone(c, Head(connQ[c]), k) PROVE HInv'
  BY <1>1, BlockKeepsHandlers
<1>2. CASE Started(c) \/ Refused(c)
  <2>1. /\ StartAgain(c) \/ StartThrows(c) \/ StartSession(c)
        /\ UNCHANGED <<of, managerVars>>
        /\ \E to \in {"open", "refused"} : Go(Argument(c), "starting", to)
    BY <1>2 DEF Started, Refused
  <2>2. Argument(c) \in Streams
    <3>1. Take(c, "start")
      BY <2>1 DEF StartAgain, StartThrows, StartSession
    <3>2. Head(connQ[c]) \in Jobs /\ Head(connQ[c]).op = "start"
      BY <3>1, BlockTypes DEF IInv
    <3> QED
      BY <3>2, JobKinds DEF Argument
  <2>3. ClientsGrow
    BY <2>1, <2>2, GoGrows DEF Steps, managerVars
  <2> QED
    BY <1>1, <2>1, <2>3, StartDone
<1>3. ASSUME UNCHANGED clientVars, UNCHANGED dropped PROVE ClientsGrow
  BY <1>3 DEF ClientsGrow, Reached, clientVars
<1>4. CASE Ended(c)
  <2>1. /\ SessionStopped(c) /\ mgrQ' = Append(mgrQ, RecycleJob(c))
        /\ UNCHANGED <<of, directory, created, dropped>> /\ UNCHANGED clientVars
    BY <1>4 DEF Ended, RecycleJob, clientVars
  <2> QED
    BY <1>1, <1>3, <2>1, StoppedDone
<1>5. CASE Process(c) /\ UNCHANGED <<managerVars, clientVars>>
  <2>1. UNCHANGED <<of, managerVars>> /\ ClientsGrow
    BY <1>3, <1>5 DEF managerVars, clientVars
  <2>2. \E k : BlockDone(c, Head(connQ[c]), k)
    BY <1>5, <2>1, TakenAway, OpenDone, FrameDone DEF Process
  <2> QED
    BY <1>1, <2>1, <2>2
<1> QED
  BY <1>2, <1>4, <1>5 DEF ConnectorStep

-----------------------------------------------------------------------------
(* Theorems                                                                *)

\* Every block of every queue, every failure and every call preserves the invariant of
\* the handlers.
THEOREM HandlerStep == IInv /\ IInv' /\ HInv /\ [Next]_vars => HInv'
<1> SUFFICES ASSUME IInv, IInv', HInv, [Next]_vars PROVE HInv'
  OBVIOUS
<1>1. CASE UNCHANGED vars
  <2>1. UNCHANGED <<con, connQ, session, stopping, cbQ, told, mgrQ, directory, created,
                    dropped, pc, of>>
    BY <1>1 DEF vars, connectorVars, sessionVars, managerVars, clientVars
  <2>2. ClientsGrow /\ UnbornOK' /\ OfOK'
    BY <2>1 DEF HInv, ClientsGrow, Reached, UnbornOK, Unborn, OfOK
  <2>3. directory' \in Connectors \cup {None}
    BY DEF IInv, ManagerOK
  <2>4. Recycled'
    BY <2>1, <2>3, RecycledKept, RecycledSays DEF EndUnderWay
  <2> QED
    BY <2>1, <2>2, <2>4, QuietStep
<1>2. CASE ManagerStep \/ AskRemoval
  BY <1>2, ManagerKeepsHandlers
<1>3. CASE CallbackStep
  BY <1>3, CallbackKeepsHandlers
<1>4. ASSUME NEW c \in Connectors, ConnectorStep(c) PROVE HInv'
  BY <1>4, ConnectorKeepsHandlers
<1>5. ASSUME NEW c \in Connectors, SessionStep(c) \/ Events(c) PROVE HInv'
  BY <1>5, SessionKeepsHandlers
<1>6. ASSUME NEW s \in Streams, ClientStep(s) \/ CallClose(s) PROVE HInv'
  BY <1>6, ClientKeepsHandlers
<1> QED
  BY <1>1, <1>2, <1>3, <1>4, <1>5, <1>6 DEF Next

\* The invariant of the handlers holds whatever the order of the queues.
THEOREM HandlerInvariance == Spec => []HInv
BY HandlerInit, HandlerStep, TunnelInvariance, PTL DEF Spec

\* Once a handler was told of its connection, its connector keeps it until it is told of
\* the end or its client closes it, unless the manager removed the connector.
THEOREM NoHandlerForgotten == Spec => []NoneForgotten
<1>1. HInv => NoneForgotten
  BY DEF HInv
<1> QED
  BY <1>1, HandlerInvariance, PTL

\* The removal of a connector whose session has ended is always under way.
THEOREM DeadConnectorsLeave == Spec => []Recycled
<1>1. HInv => Recycled
  BY DEF HInv
<1> QED
  BY <1>1, HandlerInvariance, PTL

=============================================================================

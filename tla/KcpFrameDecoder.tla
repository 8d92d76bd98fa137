-------------------------- MODULE KcpFrameDecoder --------------------------
(***************************************************************************)
(* The smux frame decoder (Sources/Shanghai/KcpTunnelPrimitives.swift) on  *)
(* the byte stream of a connector's sessions: the peer's frames arrive cut *)
(* into chunks at any byte, and a session may end within a frame.          *)
(*                                                                         *)
(* A byte is named by its frame and its place in it, header first.  The    *)
(* peer's version and commands are valid, so the decoder takes any byte    *)
(* but the first of a frame for an invalid header.  A frame without        *)
(* payload is FIN, one with payload is PSH.                                *)
(***************************************************************************)
EXTENDS Integers, FiniteSets, SequencesExt

CONSTANTS
  HeaderSize,    \* KcpTunnelConstants.headerSize
  Shapes,        \* bound: what the peer may send in each session, as lengths of payloads
  MaxChunks      \* bound: chunks that wait in the connector's queue

ASSUME DecoderAssumption ==
  /\ {HeaderSize, MaxChunks} \subseteq Nat \ {0}
  /\ Shapes \in Seq(SUBSET Seq(Nat))

VARIABLES
  decoder,       \* readBuffer and pendingFrame
  looping,       \* processInboundSmuxBytes is in its loop
  started,       \* the connector has a session
  running,       \* that session has not ended
  sessions,      \* how many sessions there were
  shape,         \* what the peer sends in this session
  unread,        \* the bytes of it that the session has not read yet
  connQ,         \* the connector's queue
  consumed,      \* history: the bytes of this session given to the decoder
  decoded        \* history: the frames processed of them

decoderVars == <<decoder, looping, consumed, decoded>>
streamVars == <<started, running, sessions, shape, unread>>

Byte(f, i) == [of |-> f, at |-> i]
FrameBytes(lens, f) == [i \in 1..(HeaderSize + lens[f]) |-> Byte(f, i)]
FirstFrames(lens, n) == FlattenSeq([f \in 1..n |-> FrameBytes(lens, f)])
StreamBytes(lens) == FirstFrames(lens, Len(lens))
After(s, n) == SubSeq(s, n + 1, Len(s))

\* pendingFrame is nil if left is 0.
Empty == [buffer |-> <<>>, frame |-> 0, payload |-> <<>>, left |-> 0]

Chunk(bytes) == [op |-> "data", bytes |-> bytes]
Stopped == [op |-> "stopped"]
Chunks == SelectSeq(connQ, LAMBDA job : job.op = "data")

DecoderInit ==
  /\ decoder = Empty /\ looping = FALSE
  /\ started = FALSE /\ running = FALSE /\ sessions = 0
  /\ shape = <<>> /\ unread = <<>>
  /\ connQ = <<>>
  /\ consumed = <<>> /\ decoded = <<>>

-----------------------------------------------------------------------------
(* nextFrame                                                               *)

\* A frame (0 for nil), what it has of its payload, the error if there is one.
Result(d, frame, payload, error) ==
  [decoder |-> d, frame |-> frame, payload |-> payload, error |-> error]

\* The pending frame takes what it lacks, as far as it is there.
Continue(d) ==
  LET required == IF d.left < Len(d.buffer) THEN d.left ELSE Len(d.buffer)
      payload == d.payload \o SubSeq(d.buffer, 1, required)
      rest == [d EXCEPT !.buffer = After(@, required), !.payload = payload, !.left = @ - required]
  IN IF rest.left = 0
     THEN Result([Empty EXCEPT !.buffer = rest.buffer], d.frame, payload, "none")
     ELSE Result(rest, d.frame, payload, "bodyNotFull")

\* A new frame, whole or begun.
Begin(d) ==
  LET frame == Head(d.buffer).of
      total == HeaderSize + shape[frame]
      body == SubSeq(d.buffer, HeaderSize + 1, total)
      begun == SubSeq(d.buffer, HeaderSize + 1, Len(d.buffer))
  IN IF Len(d.buffer) >= total
     THEN Result([Empty EXCEPT !.buffer = After(d.buffer, total)], frame, body, "none")
     ELSE Result([buffer |-> <<>>, frame |-> frame, payload |-> begun,
                  left |-> total - Len(d.buffer)], frame, begun, "bodyNotFull")

NextFrame(d) ==
  IF d.left > 0 THEN Continue(d)
  ELSE IF Len(d.buffer) < HeaderSize THEN Result(d, 0, <<>>, "noHeader")
  ELSE IF Head(d.buffer).at # 1 THEN Result(d, 0, <<>>, "invalidVersion")
  ELSE Begin(d)

-----------------------------------------------------------------------------
(* The session and the connector's queue                                   *)

\* A session starts when the connector has none.
StartSession ==
  /\ ~ started /\ sessions < Len(Shapes)
  /\ started' = TRUE /\ running' = TRUE
  /\ sessions' = sessions + 1
  /\ \E lens \in Shapes[sessions + 1] : shape' = lens /\ unread' = StreamBytes(lens)
  /\ consumed' = <<>> /\ decoded' = <<>>
  /\ UNCHANGED <<decoder, looping, connQ>>

\* ikcp_recv gives the next bytes of the stream, as many as there are segments.
SessionReads ==
  /\ running /\ Len(Chunks) < MaxChunks
  /\ \E n \in 1..Len(unread) :
       /\ connQ' = Append(connQ, Chunk(SubSeq(unread, 1, n)))
       /\ unread' = After(unread, n)
  /\ UNCHANGED <<decoderVars, started, running, sessions, shape>>

SessionEnds ==
  /\ running
  /\ running' = FALSE
  /\ connQ' = Append(connQ, Stopped)
  /\ UNCHANGED <<decoderVars, started, sessions, shape, unread>>

Job(op) == ~ looping /\ connQ # <<>> /\ Head(connQ).op = op

\* A chunk is appended and the loop begins.
HandleData ==
  /\ Job("data")
  /\ connQ' = Tail(connQ)
  /\ decoder' = [decoder EXCEPT !.buffer = @ \o Head(connQ).bytes]
  /\ looping' = TRUE
  /\ consumed' = consumed \o Head(connQ).bytes
  /\ UNCHANGED <<decoded, streamVars>>

\* A round of the loop that gives a whole frame.
NextIsWhole == looping /\ NextFrame(decoder).error = "none"
WholeFrame == [of |-> NextFrame(decoder).frame, payload |-> NextFrame(decoder).payload]
LoopRound ==
  /\ NextIsWhole
  /\ decoder' = NextFrame(decoder).decoder
  /\ decoded' = Append(decoded, WholeFrame)
  /\ UNCHANGED <<looping, consumed, connQ, streamVars>>

\* The round that ends it; a partial frame changes nothing but the decoder.
LoopEnd ==
  /\ looping /\ ~ NextIsWhole
  /\ looping' = FALSE
  /\ decoder' = IF NextFrame(decoder).error = "invalidVersion" THEN Empty
                ELSE NextFrame(decoder).decoder
  /\ UNCHANGED <<decoded, consumed, connQ, streamVars>>

\* Mistake: the decoder outlives the session.
KeepDecoder ==
  /\ Job("stopped")
  /\ connQ' = Tail(connQ)
  /\ started' = FALSE
  /\ UNCHANGED <<decoderVars, running, sessions, shape, unread>>

\* handleSessionStop: resetState makes a new decoder.
HandleStopped ==
  /\ Job("stopped")
  /\ connQ' = Tail(connQ)
  /\ started' = FALSE
  /\ decoder' = Empty
  /\ UNCHANGED <<looping, consumed, decoded, running, sessions, shape, unread>>

-----------------------------------------------------------------------------
(* Properties                                                              *)

\* The decoder, the queue and the session have their types; a pending frame lacks
\* something.
DecoderTypeOK ==
  /\ DOMAIN decoder = DOMAIN Empty /\ decoder.left \in Nat
  /\ decoder.left = 0 => decoder.frame = 0 /\ decoder.payload = <<>>
  /\ {started, running, looping} \subseteq BOOLEAN /\ sessions \in 0..Len(Shapes)
  /\ IF sessions = 0 THEN shape = <<>> ELSE shape \in Shapes[sessions]

\* The frames of the first n bytes of a stream, each with its payload.
Whole(lens, n) ==
  LET came == {f \in DOMAIN lens : Len(FirstFrames(lens, f)) <= n}
  IN [f \in 1..Cardinality(came) |->
       [of |-> f, payload |-> After(FrameBytes(lens, f), HeaderSize)]]

\* However the stream is cut and wherever the sessions before it ended, each round of the
\* decoder gives the next frame with its payload, and the loop ends when it has given
\* every frame whose last byte has come: none is held back, cut short, or mixed with the
\* next or with a dead session's.
DecoderExact ==
  LET whole == Whole(shape, Len(consumed))
  IN IF looping THEN IsPrefix(decoded, whole) ELSE decoded = whole

=============================================================================

---------------------------- MODULE ProxyRuntime ----------------------------
(***************************************************************************)
(* One client of the local proxy (Sources/ShanghaiProxy/main.swift), from  *)
(* its request to its removal, on a connector whose sessions come and go.  *)
(*                                                                         *)
(* Three threads share the client's context: the listener's queue, where   *)
(* its bytes are read; the runtime's queue, where the answer comes in; and *)
(* the connector's queue between them.  An action is one critical section  *)
(* or one call of such a thread.  The registry is a fourth queue.          *)
(*                                                                         *)
(* The client's bytes are chunks 1, 2, ... that follow the request; a byte *)
(* of the answer is a byte of a frame's payload, and the header of the     *)
(* answer its first HeaderEnd bytes.  Routing and the sharing of the       *)
(* connector are left out (KcpTunConnectorManager).                        *)
(***************************************************************************)
EXTENDS KcpFrameDecoder

CONSTANTS
  HeaderEnd,     \* where the marker of the answer's header ends
  MaxClient      \* bound: chunks the client sends

ASSUME ProxyAssumption == HeaderEnd \in Nat \ {0} /\ MaxClient \in Nat

VARIABLES
  request,       \* what kind of request it is
  sent,          \* how many chunks have been read from the client
  reader,        \* the listener's queue: where it is, the chunk in hand
  context,       \* ProxyContext
  runtime,       \* ProxyRuntime, and what its present block still has to do
  runtimeQ,      \* the runtime's queue
  cancelled,     \* connection.cancel was called
  stream,        \* the connector's side: registered, and the request sent
  registryQ,     \* the queue runtimeQueue
  active,        \* the runtime is in runtimes and runtimeRegistry
  cut,           \* history: the chunks that came with the request
  passed,        \* history: the chunks given to connector.send, in order
  toClient,      \* history: the bytes sent to the client
  arrived        \* history: the frames that came while the stream was registered

clientVars == <<sent, reader, cut>>
answerVars == <<runtime, runtimeQ, cancelled, toClient>>
registryVars == <<registryQ, active>>
linkVars == <<decoderVars, streamVars, stream, arrived>>
vars == <<linkVars, connQ, clientVars, answerVars, registryVars, request, context, passed>>

\* The kinds of request; a CONNECT by how it is answered, with 200 or not.
Requests == {"connect", "refused", "forward"}
Idle == [at |-> "request", hand |-> 0, seen |-> FALSE, last |-> FALSE]
Fresh == [handshake |-> <<>>, forwarding |-> FALSE, busy |-> FALSE, todo |-> <<>>, rest |-> <<>>]

Init ==
  /\ DecoderInit
  /\ request \in Requests
  /\ sent = 0 /\ reader = Idle /\ cut = 0
  /\ context = [established |-> FALSE, buffered |-> <<>>]
  /\ runtime = Fresh /\ runtimeQ = <<>> /\ cancelled = FALSE
  /\ stream = [registered |-> FALSE, known |-> FALSE, opened |-> FALSE]
  /\ registryQ = <<>> /\ active = FALSE
  /\ passed = <<>> /\ toClient = <<>> /\ arrived = <<>>

Go(from, to) == reader.at = from /\ reader' = [reader EXCEPT !.at = to]
Enqueue(job) == connQ' = Append(connQ, [op |-> job])
RemoveRuntime == registryQ' = Append(registryQ, "remove")

-----------------------------------------------------------------------------
(* The listener's queue                                                    *)

\* The request is read up to its marker; what came with it is dropped.  The runtime
\* is to be added to the registry.
ReadConnectRequest ==
  /\ started
  /\ Go("request", "start")
  /\ \E n \in {0, 1} : n <= MaxClient /\ sent' = n /\ cut' = n
  /\ registryQ' = Append(registryQ, "add")
  /\ UNCHANGED <<linkVars, connQ, answerVars, active, request, context, passed>>

\* Mistake: every kind of request waits for the answer.
StartBuffering ==
  /\ Go("start", "reading")
  /\ connQ' = connQ \o <<[op |-> "open"], [op |-> "request"]>>
  /\ UNCHANGED <<linkVars, answerVars, registryVars, request, sent, cut, context, passed>>

\* start(with:) opens the stream and sends the request; only a CONNECT waits for the
\* answer before it sends more.
Start ==
  /\ Go("start", "reading")
  /\ connQ' = connQ \o <<[op |-> "open"], [op |-> "request"]>>
  /\ context' = [context EXCEPT !.established = (request = "forward")]
  /\ UNCHANGED <<linkVars, answerVars, registryVars, request, sent, cut, passed>>

\* The runtime is referenced weakly: who else still holds it.
Held ==
  \/ active \/ "add" \in Range(registryQ)
  \/ stream.registered \/ "open" \in {connQ[i].op : i \in DOMAIN connQ}
  \/ runtimeQ # <<>> \/ runtime.busy

\* The receive handler is called: with data, at the end, or with the error of a
\* cancelled connection.  It tests isEstablished.
Receive ==
  /\ reader.at = "reading" /\ Held
  /\ \E data, last \in BOOLEAN :
       /\ data \/ last
       /\ IF cancelled THEN last /\ ~ data ELSE data => sent < MaxClient
       /\ sent' = IF data THEN sent + 1 ELSE sent
       /\ reader' = [at |-> "passing", hand |-> IF data THEN sent + 1 ELSE 0,
                     seen |-> context.established, last |-> last]
  /\ UNCHANGED <<linkVars, connQ, cut, answerVars, registryVars, request, context, passed>>

ReceiveAfterEnd ==
  /\ Go("reading", "gone") /\ ~ Held
  /\ UNCHANGED <<linkVars, connQ, sent, cut, answerVars, registryVars, request, context, passed>>

\* The data is sent or queued, whatever has become of the flag.
Pass ==
  /\ reader.at = "passing"
  /\ reader' = [reader EXCEPT !.at = IF reader.last THEN "ending" ELSE "reading", !.hand = 0]
  /\ LET chunk == IF reader.hand = 0 THEN <<>> ELSE <<reader.hand>> IN
     IF reader.seen
     THEN passed' = passed \o chunk /\ UNCHANGED context
     ELSE context' = [context EXCEPT !.buffered = @ \o chunk] /\ UNCHANGED passed
  /\ UNCHANGED <<linkVars, connQ, sent, cut, answerVars, registryVars, request>>

\* Mistake: the runtime is left to the connector, which does not answer a close.
EndKeepsRuntime ==
  /\ Go("ending", "ended")
  /\ Enqueue("close")
  /\ UNCHANGED <<linkVars, sent, cut, answerVars, registryVars, request, context, passed>>

End ==
  /\ Go("ending", "ended")
  /\ Enqueue("close")
  /\ RemoveRuntime
  /\ UNCHANGED <<linkVars, sent, cut, answerVars, active, request, context, passed>>

-----------------------------------------------------------------------------
(* The runtime's queue                                                     *)

Block == runtimeQ # <<>> /\ ~ runtime.busy /\ runtimeQ' = Tail(runtimeQ)
Payload == Head(runtimeQ).payload

\* Mistake: the payload is put before what was collected.
ReceivedFirst == Payload \o runtime.handshake

Received == runtime.handshake \o Payload

Forward ==
  /\ Block /\ Head(runtimeQ).op = "data"
  /\ runtime.forwarding
  /\ toClient' = toClient \o Payload
  /\ UNCHANGED <<linkVars, connQ, clientVars, runtime, cancelled, registryVars, request, context, passed>>

Collect ==
  /\ Block /\ Head(runtimeQ).op = "data"
  /\ ~ runtime.forwarding /\ Len(Received) < HeaderEnd
  /\ runtime' = [runtime EXCEPT !.handshake = Received]
  /\ UNCHANGED <<linkVars, connQ, clientVars, cancelled, toClient, registryVars, request, context, passed>>

\* Mistake: markEstablished leaves the chunks in the buffer.
MarkWithoutClearing == context' = [context EXCEPT !.established = TRUE]

\* markEstablished
MarkEstablished == context' = [established |-> TRUE, buffered |-> <<>>]

\* Mistake: the payload that completed the header is taken for its end.
ForgetRest == <<>>

\* What follows the header.
Remainder == After(Received, HeaderEnd)

\* The header is complete and goes to the client.  If the tunnel is established the
\* chunks that were buffered are taken out, to be sent next.
Answer ==
  /\ Block /\ Head(runtimeQ).op = "data"
  /\ ~ runtime.forwarding /\ Len(Received) >= HeaderEnd
  /\ toClient' = toClient \o SubSeq(Received, 1, HeaderEnd)
  /\ IF request # "refused" THEN MarkEstablished ELSE UNCHANGED context
  /\ runtime' = [handshake |-> <<>>, forwarding |-> TRUE, busy |-> TRUE, rest |-> Remainder,
                 todo |-> IF request = "connect" THEN context.buffered ELSE <<>>]
  /\ UNCHANGED <<linkVars, connQ, clientVars, cancelled, registryVars, request, passed>>

SendBuffered ==
  /\ runtime.busy /\ runtime.todo # <<>>
  /\ passed' = Append(passed, Head(runtime.todo))
  /\ runtime' = [runtime EXCEPT !.todo = Tail(@)]
  /\ UNCHANGED <<linkVars, connQ, clientVars, runtimeQ, cancelled, toClient, registryVars, request, context>>

SendRemainder ==
  /\ runtime.busy /\ runtime.todo = <<>>
  /\ toClient' = toClient \o runtime.rest
  /\ runtime' = [runtime EXCEPT !.busy = FALSE, !.rest = <<>>]
  /\ UNCHANGED <<linkVars, connQ, clientVars, runtimeQ, cancelled, registryVars, request, context, passed>>

Disconnect ==
  /\ Block /\ Head(runtimeQ).op = "disconnect"
  /\ cancelled' = TRUE
  /\ RemoveRuntime
  /\ UNCHANGED <<linkVars, connQ, clientVars, runtime, toClient, active, request, context, passed>>

-----------------------------------------------------------------------------
(* The registry                                                            *)

Registry ==
  /\ registryQ # <<>>
  /\ active' = (Head(registryQ) = "add")
  /\ registryQ' = Tail(registryQ)
  /\ UNCHANGED <<linkVars, connQ, clientVars, answerVars, request, context, passed>>

-----------------------------------------------------------------------------
(* The connector's queue                                                   *)

restVars == <<clientVars, registryVars, request, context, passed>>
quietVars == <<restVars, answerVars, stream, arrived>>

\* The stream waits for a session or its SYN is sent.
Open ==
  /\ Job("open")
  /\ connQ' = Tail(connQ)
  /\ stream' = [stream EXCEPT !.registered = TRUE, !.opened = TRUE]
  /\ UNCHANGED <<decoderVars, streamVars, answerVars, restVars, arrived>>

\* A request reaches the peer only on a running session, behind the SYN.
SendRequest ==
  /\ Job("request")
  /\ connQ' = Tail(connQ)
  /\ stream' = [stream EXCEPT !.known = running]
  /\ UNCHANGED <<decoderVars, streamVars, answerVars, restVars, arrived>>

Close ==
  /\ Job("close")
  /\ connQ' = Tail(connQ)
  /\ stream' = [stream EXCEPT !.registered = FALSE]
  /\ UNCHANGED <<decoderVars, streamVars, answerVars, restVars, arrived>>

Data == (HandleData \/ LoopEnd) /\ UNCHANGED quietVars

\* process(frame:): a frame of the stream goes to its handler, FIN after it has taken
\* the stream away.
Process ==
  /\ LoopRound
  /\ \/ /\ stream.registered /\ WholeFrame.payload # <<>>
        /\ runtimeQ' = Append(runtimeQ, [op |-> "data", payload |-> WholeFrame.payload])
        /\ arrived' = Append(arrived, WholeFrame)
        /\ UNCHANGED stream
     \/ /\ stream.registered /\ WholeFrame.payload = <<>>
        /\ stream' = [stream EXCEPT !.registered = FALSE]
        /\ runtimeQ' = Append(runtimeQ, [op |-> "disconnect"])
        /\ UNCHANGED arrived
     \/ /\ ~ stream.registered
        /\ UNCHANGED <<stream, runtimeQ, arrived>>
  /\ UNCHANGED <<runtime, cancelled, toClient, restVars>>

\* handleSessionStop tells the handlers after it has forgotten them.
Stop ==
  /\ HandleStopped
  /\ stream' = [stream EXCEPT !.registered = FALSE]
  /\ runtimeQ' = IF stream.registered THEN Append(runtimeQ, [op |-> "disconnect"]) ELSE runtimeQ
  /\ UNCHANGED <<arrived, runtime, cancelled, toClient, restVars>>

\* The peer sends on this stream when it has had the request.
Read == stream.opened /\ (stream.registered => stream.known) /\ SessionReads /\ UNCHANGED quietVars

-----------------------------------------------------------------------------

ReaderStep == Start \/ ReceiveAfterEnd \/ Pass \/ End
RuntimeStep == Forward \/ Collect \/ Answer \/ SendBuffered \/ SendRemainder \/ Disconnect
ConnectorStep == Open \/ SendRequest \/ Close \/ Data \/ Process \/ Stop

Next ==
  \/ ReadConnectRequest \/ Receive \/ ReaderStep \/ RuntimeStep \/ Registry \/ ConnectorStep
  \/ Read
  \/ StartSession /\ UNCHANGED quietVars
  \/ SessionEnds /\ UNCHANGED quietVars

Spec == Init /\ [][Next]_vars

\* Queues run their blocks, and a connection that was cancelled calls its handler.
FairSpec ==
  /\ Spec
  /\ WF_vars(ReaderStep) /\ WF_vars(RuntimeStep) /\ WF_vars(Registry) /\ WF_vars(ConnectorStep)
  /\ WF_vars(cancelled /\ Receive)

-----------------------------------------------------------------------------
(* Properties                                                              *)

\* The variables of the proxy have their types.
TypeOK ==
  /\ DecoderTypeOK
  /\ sent \in 0..MaxClient /\ cut \in 0..sent
  /\ reader \in [at : {"request", "start", "reading", "passing", "ending", "ended", "gone"},
                 hand : 0..MaxClient, seen : BOOLEAN, last : BOOLEAN]
  /\ DOMAIN runtime = DOMAIN Fresh
  /\ stream \in [registered : BOOLEAN, known : BOOLEAN, opened : BOOLEAN]
  /\ active \in BOOLEAN /\ Range(registryQ) \subseteq {"add", "remove"}

Payloads(frames) == FlattenSeq([i \in DOMAIN frames |-> frames[i].payload])
Carried(job) == IF job.op = "data" THEN job.payload ELSE <<>>
Waiting == FlattenSeq([i \in DOMAIN runtimeQ |-> Carried(runtimeQ[i])])

\* The client gets the answer whole and in order: what was sent to it, followed by what
\* the runtime holds and what still waits, is the payload of the stream's frames, however
\* the header was cut and whatever came with its end; and nothing waits behind the
\* cancellation of its connection.
AnswerKept ==
  /\ toClient \o runtime.handshake \o runtime.rest \o Waiting = Payloads(arrived)
  /\ cancelled => runtimeQ = <<>> /\ ~ runtime.busy

Hand == IF reader.hand = 0 THEN <<>> ELSE <<reader.hand>>

\* What the runtime reads from its client is in one place exactly: sent, about to be
\* sent, buffered, or in hand.  (It may stay buffered, or be overtaken: see the README.)
ClientBytesKept ==
  LET all == passed \o runtime.todo \o context.buffered \o Hand
  IN Range(all) = (cut + 1)..sent /\ Len(all) = sent - cut

\* The body of a forwarded request is sent in order and never waits for the answer; the
\* bytes of a CONNECT are sent only after the client got the header that says 200.
UpstreamInOrder ==
  IF request = "forward"
  THEN passed \o Hand = [i \in 1..(sent - cut) |-> cut + i]
  ELSE passed # <<>> => request = "connect" /\ Len(toClient) >= HeaderEnd

Site == {"peer", "client"}

\* The answer is a reliable channel from the stream's frames to the client, whatever
\* becomes of the sessions, the stream and the runtime on the way.
AnswerPath == INSTANCE ReliableChannel WITH
  Sites     <- Site,
  Other     <- [s \in Site |-> IF s = "peer" THEN "client" ELSE "peer"],
  accepted  <- [s \in Site |-> IF s = "peer" THEN Payloads(arrived) ELSE <<>>],
  delivered <- [s \in Site |-> IF s = "client" THEN toClient ELSE <<>>]

\* No step of the proxy gives the client a byte that is not the next one of the answer,
\* takes one back, or loses one that came before it; what was collected of the header,
\* its end and what followed it leave in the order they came.
AnswerChannel == AnswerPath!Spec

\* "active=0": a client that has ended, or was disconnected, is removed for good.
RegistryDrains == (reader.at = "ending" \/ cancelled) ~> [](~ active /\ registryQ = <<>>)

=============================================================================

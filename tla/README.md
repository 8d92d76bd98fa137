# Shanghai: a TLA+ model of the KCP tunnel

Shanghai carries TCP and UDP traffic over KCP, a retransmission protocol on top
of UDP. This directory holds TLA+ specifications of its core, the
configurations that TLC checks, and proofs for TLAPS. Every definition is
translated from the source; `PROJECT.json` gives the lines of each.

## 1. Inventory

| Component | State | Operations | Interacts with |
|---|---|---|---|
| KCP control block, `Sources/CKcp/ikcp.c` | `snd_queue`, `snd_buf`, `rcv_buf`, `rcv_queue`, `acklist`, the numbers `snd_una`, `snd_nxt`, `rcv_nxt`, the windows, `probe`, timers | `ikcp_send`, `ikcp_recv`, `ikcp_input`, `ikcp_flush`, `ikcp_update`, `ikcp_check` | called by KcpSession only, on its `stateQueue`; `output` callback |
| `KcpSession` | `started`, `stopped`, socket, `ikcpcb`, update timer, codec, FEC encoder and decoder | `start`, `stop`, `send`, read events, timer, `shutdown` | callbacks `onReceive` and `onStop` on a callback queue |
| FEC, `KcpFEC.swift` | encoder: `nextSeqid`, `groupBuffer`; decoder: `rx` | `encode`, `decode` with expiry, limit and reconstruction | between `output` and the socket |
| Reed-Solomon, `KcpReedSolomon.swift`, `kcp_rs.cpp` and C++ | the coding matrix `m`; `tree`, a cache of inverted matrices | `kcp_rs_new`, `encode`, `reconstruct` | called by FEC, on the session's queue |
| Packet codec, `KcpPacketCodec.swift`, `shanghai_crypt.c` | key schedule | encrypt and checksum, decrypt and verify | between FEC and the socket |
| smux frames, `KcpTunnelPrimitives.swift` | the decoder's `buffer` and unfinished frame | `encoded`, `nextFrame`, `splitKcpFrames` | called by the connector |
| Snappy framing, `KcpSnappyFramedCodec.swift` | buffered chunk, header seen | `encode`, `append`, `readAvailable` | between frames and the session |
| `KcpTunConnector` | `started`, `controlChannelReady`, `streams`, `waitingOpenStreams`, `pendingStreams`, `establishedStreams`, keep-alive timer | `start`, `stop`, `openStream`, `closeStream`, `send`, inbound frames, session end | owns one KcpSession; calls the stream handlers |
| `KcpTunConnectorManager` | the directory endpoint -> connector | `connector(for:)`, `removeConnector`, recycling | shared by all clients |
| `ShanghaiProxy` | per request: `ProxyContext.established`, buffered client bytes, `handshakeBuffer`; the runtime registry | accept, route, open a stream, relay both ways, remove | client of the manager; stream handler |
| `KcpUdpForwarder`, `kcpfwd` | local socket, last peer, session | start, stop, relay datagrams | one KcpSession in message mode |
| Routing, logging, sockets | configuration | lookups, I/O | |
| `oldTun`, `Scripts`, `Tests` | | legacy code no target builds; test programs | |

What is hard here, and what makes each component right:

- **Control block.** The path loses, repeats and reorders; every datagram,
  however old, carries a window and an acknowledgement. Segments must be read
  once and in order; an acknowledged segment must be at the receiver, because
  it is never sent again; a window that closed must open again though every
  message that could open it can be lost; the receive loops must leave nothing
  behind that no later event moves.
- **Clock.** Every time is cut to 32 bits and compared by signed difference, but
  once as an unsigned number. The block that handles an event uses the time of the
  last `ikcp_update`; the update timer is one-shot, so that a handler which does
  not arm it stops the session. A timer of the control block must be served soon
  after it runs out, across the wrap and after the process slept.
- **FEC.** Shards of several groups arrive mixed, late, twice, or after their
  siblings expired; sequence numbers roll over. A reconstruction must never
  mix groups, and must happen as soon as it can.
- **Codec.** Any group may follow any other, so a matrix inverted for one set of
  lost shards is looked up for another: the cache must never give a matrix that
  belongs to other shards. Any `data` shards must give back the group.
- **Session, connector and manager.** Four kinds of serial queue, joined by
  asynchronous blocks. A session can end between any two blocks; reports of its
  end, data read before it and calls made after it cross each other. No handler
  may be forgotten, no dead session may leave streams that pass for open, and
  there should be one connector per endpoint.
- **Frames.** The byte stream is cut anywhere, and a session can end within a
  frame. Every frame must come out whole and as soon as it is there.
- **Proxy.** Three queues share the established flag, the buffered bytes and the
  answer; the registry is told by two of them. The answer must reach the client
  whole, the client's bytes must go out once and in order, and a client that is
  gone must be gone from the registry.
- **Forwarder.** Its owner can start it again. Reports of an earlier life wait in
  the same queue as messages of this one. Up must mean served, down released.
- **Restarts.** Each end keeps state that the other relies on, and nothing
  tells a restarted peer from the one before.

`PROJECT.json` lists each hazard at its line, with the property that covers it
or the reason why none does yet.

## 2. Modules

| Module | Models |
|---|---|
| `Kcp` | two control blocks and the UDP path between them |
| `ReliableChannel` | what a connection promises, and the proxy for an answer: two FIFO channels (abstract specification) |
| `MCKcp` | instances of `Kcp`, fairness |
| `KcpRestart` | `MCKcp` with a restart of one endpoint |
| `KcpProofs` | theorems about `Kcp` |
| `KcpClock` | what a control block times, and the session's one-shot timer |
| `MCClock` | an instance of `KcpClock` |
| `KcpClockProofs` | theorems about `KcpClock` |
| `KcpFec` | the FEC encoder, the path and the FEC decoder |
| `MCFec` | an instance of `KcpFec` |
| `KcpFecProofs` | theorems about `KcpFec` |
| `GaloisMatrix` | the field and the matrices of the codec |
| `InversionTree` | the cache of inverted matrices |
| `ReedSolomon` | the codec behind its bridge, decoding group after group |
| `MCCodec` | instances of `ReedSolomon` |
| `ReedSolomonProofs` | theorems about `ReedSolomon` |
| `CommonLemmas` | least and greatest elements, induction and recursion over numbers, flattened sequences, for the proofs |
| `KcpTunConnector` | connectors and their sessions, one action per block of a queue |
| `KcpTunConnectorManager` | the manager and its clients, on top of `KcpTunConnector` |
| `MCTunnel` | instances of `KcpTunConnectorManager` |
| `KcpTunnelProofs` | theorems about `KcpTunConnectorManager` |
| `KcpFrameDecoder` | the smux decoder on the byte stream of a connector's sessions |
| `ProxyRuntime` | one client of the proxy, on top of `KcpFrameDecoder` |
| `ProxyProofs` | theorems about `ProxyRuntime` and `KcpFrameDecoder` |
| `MCProxy` | an instance of `ProxyRuntime` |
| `KcpUdpForwarder` | the datagram forwarder against its session and its owner |
| `KcpForwarderProofs` | theorems about `KcpUdpForwarder` |

A definition commented *Mistake* is not part of the specification. It is a
plausible bug in the definition that follows it; with it in place a property
of the runs fails, which shows that the property depends on the code.

### Kcp

The variables are the fields of `ikcpcb`, each a function of the endpoint.
`snd_buf` is kept as the set of outstanding numbers, and `numbered` as the
segment that each number was given, which never changes; together they are the
list in the code. `numbered`, `sent`, `written` and `read` are history.

| Action | Code |
|---|---|
| `Send` | `ikcp_send`: stream mode fills the tail segment, and does so before the fragment count is checked |
| `Recv` | `ikcp_recv`: `ikcp_peeksize`, the merge loop, the refill of `rcv_queue`, the announcement of the window |
| `InputAck`, `InputPush`, `InputWask`, `InputWins` | `ikcp_input` for the four commands; `Header` is what all of them do |
| `Flush` | `ikcp_flush`: acknowledgements, probes, the move from `snd_queue` to `snd_buf`, transmissions |

Abstractions: time, so which outstanding segments a flush repeats and whether
a probe is due is any choice (`KcpClock` has the choice the code makes); the
congestion window, which with `nocwnd = 0` is any value up to the usable window;
a datagram carries one segment, where the
code packs several into an MTU; numbers do not wrap at 2^32. The path `net` is
a set from which datagrams are delivered any number of times and are lost at
flushes; losing them earlier would allow nothing more.

### KcpClock

One session against an environment that sends datagrams, hands over messages,
lets time pass, stops the process for a while and stops the session. `kcp` is
the control block with its data counted instead of kept: `snd_buf` maps an
outstanding number to its timer, `nsnd_que` counts what waits. Times are numbers
below `Mod`, and `Diff` is `_itimediff`. `wait` is the time until the timer of
`scheduleNextUpdate` fires, `owed` and `awake` are history.

| Action | Code |
|---|---|
| `Start`, `Stop` | `KcpSession.start` from `ikcp_create` on, `shutdown` |
| `Send` | the block of `send()`: `ikcp_send`, `ikcp_flush`, update, schedule |
| `Receive`, `ReceiveInvalid` | `handleReadableSocket`: `ikcp_input` if the datagram decodes, update, schedule |
| `ReceiveEmpty` | an empty datagram (`count == 0`): the update of the drain, and no schedule; the timer stays as it was armed |
| `Fire` | `handleUpdateTimer` |
| `Tick`, `Suspend` | time; a timer that is due runs within `Latency`, a suspended process misses it |

`Flushed` is `ikcp_flush` with its three reasons to transmit and what they do to
`cwnd`, `ssthresh` and `incr`; `Updated` is `ikcp_update`, `Check` is `ikcp_check`,
`Measured` is `ikcp_update_ack`, `Grown` the growth of the window in `ikcp_input`.

Left out: `dead_link` and `state`, which nothing reads; the branch for `cwnd`
above `rmt_wnd`, which is not reached. Bounds: a segment's `rto` grows up to
`RtoCap`, waiting acknowledgements are counted up to 1, a datagram carries at
most one acknowledgement or one segment. The repeated `ikcp_update` of
`drainKcpReceiveQueue` happens at the same time and changes nothing. `timed`
marks the segments that `TimersFit` speaks of: not those stamped before the
first `ikcp_update` or while the process was stopped (section 4).

`ClockAssumption` says how the constants lie to each other. All of it is true of
the code's numbers but for one thing that no code enforces: the process is not
stopped for more than half the range of the clock less 2 * `Slap`, which is 24.8
days. After a longer stop a probe timer that has run out looks as if it were set
far ahead. `TimersServed` speaks of times after the first update that follows a stop.

### KcpFec

A packet is its number and its length, a parity frame is the code word it was
computed from. `KcpReedSolomon.reconstruct` gives the packets of the word when
all shards belong to it and are padded to its length, and `Garbage` otherwise.
`Encode` is `encode` with the parity of a full group; `Decode` is `decode` with
expiry, duplicate test, reconstruction and limit. `rx` is a set: the code keeps
it in the order of seqid, which only the limit uses. Any entries may have expired
when a frame arrives. Group numbers are used again only when the frames that bore
them are gone (`Fresh`): a rollover takes 2^32 frames and entries expire after 30
seconds. A restarted encoder does not obey this, and is not modelled. `Encode` has
no failing parity (`KcpFEC.swift:131-134`): the shards of a full group are padded to
one length before.

### GaloisMatrix, InversionTree and ReedSolomon

The field is built from its generator polynomial by logarithms, as the tables
of `galois_table.c` were; a calculation outside TLC compared the tables with
the recursion for 8 bits and polynomial 29 and found them equal.
`FieldAssumption` says what the proofs need of the constants: that the powers of 2
are all elements but 0, that addition is commutative, associative and its own
inverse, and that multiplication distributes over it. TLC evaluates it for GF(8) on
every run of the codec; for 8 bits, where TLC would take hours, the same calculation
outside TLC confirmed it. Everything else about the field is derived. `vandermonde`,
`Multiply`, `Invert` with its Gauss elimination and row swaps are those of
`matrix.cpp`. A node of the tree is named by the way from the root, a sequence
of child positions, and the tree maps ways to matrices; a node that was only
passed through holds `Missing`.

`New` is `kcp_rs_new` with the checks of the bridge and of the constructor,
`Encode` is `kcp_rs_encode`, `ReconstructNothing` and `ReconstructMissing` are
`kcp_rs_reconstruct`, for one codec that keeps its tree. Left out: shards of
different sizes and null pointers, which `KcpReedSolomon.swift` rules out before
it calls; the assembly versions of `galMulSlice`.

### KcpTunConnector and KcpTunConnectorManager

Every block that runs on a dispatch queue is an action. `connQ[c]` is the queue
of a connector, `cbQ` the callback queue all sessions share, `mgrQ` the
manager's, and `stopping[c]` says that a stop waits in the session's queue.
`start()` is synchronous, so its client waits (`pc`), and it waits for a stop
ahead of it. A session that fails (`SessionFails`) or is stopped
(`SessionStop`) runs `shutdown`, which dispatches `onStop` to `cbQ`; `Callback`
moves it to `connQ`, where `SessionStopped` is `handleSessionStop`. The client
is the proxy: ask for the connector, start it, open a stream, close it when the
local connection ends. The remote answers any stream it has had a SYN of with
any command, and the bootstrap stream with NOP.

Left out: what `send()` carries, the count in an UPD, compression, the cutting
of the byte stream into frames, and the order of the streams that wait: they
are all opened by one block. All clients here use one endpoint; the
endpoints share only the manager's queue and the callback queue.

### KcpFrameDecoder and ProxyRuntime

A byte is named by its frame and its place in it, so a decoder that cut or mixed
frames would show. `NextFrame` is `nextFrame`: `Continue` for a pending frame,
`Begin` for a new one. A chunk is appended by `HandleData`; each `LoopRound` is a
round of `processInboundSmuxBytes` that gives a whole frame, `LoopEnd` the one
that breaks the loop. `SessionReads` cuts the stream at any byte. `decoded` is
compared with `Whole`, a reference parser that has the whole stream.

`ProxyRuntime` adds the client. The listener's queue runs `ReadConnectRequest`,
`Start`, `Receive`, `Pass`, `End`; `Receive` tests `isEstablished` and `Pass` acts
on what it saw, because the code takes the lock twice. The runtime's queue runs
`Forward`, `Collect`, `Answer`, `SendBuffered`, `SendRemainder` and `Disconnect`;
the block that completes the header is cut where another thread can see it. The
connector's queue takes the frames (`Process`), the calls (`Open`, `SendRequest`,
`Close`) and the end of the session (`Stop`). `Registry` is the queue of the map
of runtimes. The runtime refers to itself weakly in its receive handler: `Held`
says who else keeps it alive.

The environment is reduced where nothing depends on it: the peer answers a stream
once it has its request, nothing is received from the client after its connection
was cancelled, and a session ends by failure or keep-alive; the `resetState` of
`connector.stop()` (`KcpTunConnector.swift:95-103`), which the proxy never calls,
is not an action of the decoder. A `LoopRound` or `LoopEnd` stops at the frame:
what its processing does to streams is `KcpTunConnector` and, for the proxy's own,
`Process`.

Left out: the parsing of the request and the 400 answer, routing, other clients
and streams, which share nothing with this one but the registry and the
connector (see `KcpTunConnectorManager`).

### KcpUdpForwarder

The forwarder's queue is also the callback queue of its session, so `queue` holds
stops, messages and reports of an end. `start` is synchronous and one action,
with its two failures `StartBindFails` and `StartSessionFails`; it waits for a stop
in the session's queue (`MayStart`). `Shutdown` returns early when `stopped` is
set, and `stopped` is cleared only at the end of a start that succeeds. `kcpfwd`
starts it once and exits in `onStop`; the module lets an owner start it again,
which the API permits.

Left out: what the datagrams carry, and an endpoint that does not resolve, which
is `wgEndpoint = None` with a warning. A failing `sendto` (line 232) is logged as any
lost datagram and changes no state; `dropped` counts what had no target.

## 3. Runs

| Run | Bounds | Shows |
|---|---|---|
| `kcp_message` | message mode; windows 3 and 2, MSS 1, messages of 1 and 2 fragments, 3 bytes one way, 2 datagrams on the way back and 1 forth | the safety of the connection, and that it implements `ReliableChannel` |
| `kcp_live` | stream mode; windows 2 and 1, so the window closes after each segment; MSS 3 and two messages of 2 bytes, so the second fills the tail segment of the first and spills into another; 2 datagrams each way | `AllRead`: all that was sent is read; `StreamIntact`: the bytes read are those accepted |
| `kcp_wedge` | messages of 3 fragments, receive window 2 | *violation* of `NeverWedged` |
| `kcp_restart` | windows of 2, 2 messages, one restart | *violation* of `SelfHeals` |
| `clock` | 32 times, in two stretches: one before the middle of the range and one across its end; interval 2, timer late by 1, one suspension of 6; 2 segments, windows 0 and 2, fast resend after 1 | timers and acknowledgements are served in time, timers are set right, `cwnd` and `incr` agree |
| `fec` | groups of 3+1, 7 packets of 2 lengths of which two are long, a receive window of 3 shards, numbers roll over after 2 groups, 2 frames on the way | only genuine packets, as soon as there are enough shards, while live shards expire and are evicted |
| `codec` | GF(8); shapes 3+2 and 2+3, and four that the bridge or the constructor refuses; three groups of data, two of them the identity matrix | any `data` shards give back the group; the cache is never wrong |
| `tunnel` | 2 connectors, 2 streams, one removal, one inbound frame | no handler forgotten, no ghost streams, recycling, agreement of the stream sets |
| `tunnel_two` | 3 clients | *violation* of `OnePerEndpoint` |
| `tunnel_open` | 2 clients, fair queues | *violation* of `OpenIsServed` |
| `proxy` | headers of 2 bytes; a first session with frames of 1, 2 and no bytes or of 3 and 1, a second with one frame; the answer's header is 2 bytes; 2 chunks from the client; one chunk of bytes waits | `DecoderExact`; the answer and the client's bytes are kept, order upstream, `RegistryDrains`; the answer's way implements `ReliableChannel` |
| `forwarder` | 2 local addresses, 3 starts, 2 stops, 2 messages, 2 datagrams waiting | up means served, down means released, every end is reported |

Why the bounds are enough. In `kcp_message` a window of 2 with 3 segments lets
one segment be missing with a later one in `rcv_buf`, the queue fill up, and
numbers fall below, in and above the window; one forward datagram at a time
still arrives late and twice, because it stays in `net` across flushes. The
theorems of section 5 hold for all bounds. `kcp_live` needs a closed window,
more than one segment and a tail segment that is filled up, no more. In `clock`
the first stretch starts a session at a time whose signed half matters, the
second wraps while a segment, the probe and the timer are all set; the suspension
is longer than `Slap`, so that `ikcp_update` starts over. The times that are left
out differ from these by a translation, which `Diff` does not see. In `fec` two
groups are under way at once and the third bears the numbers of the first; two
unfinished groups hold up to four shards and the window three; two long packets
put a long one beside a short one in a group and leave it out (`MCFewLong`). The
theorems about `KcpFec` hold for every shape and limit. In `codec` all 2^5 sets
of shards follow each other in every order on one tree; the identity as data
shows the whole linear map a decode applies, so that no other data is needed.
In `tunnel` one frame is enough for each of the commands to arrive before,
between and after the calls; two connectors are what a removal and a later
request need. `MaxQueue` bounds only the frames a session adds to the callback
queue.

In `proxy` the frames are such that the header of the answer is cut within a
frame, between frames, and ends within one; every cut of the bytes is taken,
within a frame's header too, and a session can end after any of them. Two chunks
of the client are one that is buffered and one that comes later. In `forwarder`
three starts are a life, one that an old report may stop, and a failed one after
a stop; the theorems of section 5 hold for any number.

The runs of the clock, of FEC and the codec, of the tunnel, of the proxy and of
the forwarder have no deadlock check: the system stops when its bounds are used
up or its clients are done.

### Fairness

`FairSpec` of `MCKcp` assumes a fair-lossy path. `GoodFlush` (strong): of the
flushes that the update timer brings about for ever, some have all their
datagrams arrive, retransmission included; with a congestion window, one that
lets something through. `InputHead`, `InputUseful` and `InputProbe` (strong):
a datagram that is put on the path again and again is delivered in the end.
`NumberNew` (strong): old datagrams that close the window are not redelivered
for ever between the receipt of an open window and the next flush. `Recv`
(weak): `drainKcpReceiveQueue` reads after every input and timer event.
Nothing makes the application send.

`FairSpec` of `KcpTunConnectorManager` assumes that dispatch queues run their
blocks and that a client goes on to its next call. No failure, answer, timer or
close is assumed to happen.

`FairSpec` of `ProxyRuntime` assumes that each queue runs its blocks, and that a
connection which was cancelled calls its pending receive handler, as
`NWConnection` does. Nothing makes a client send or end, or a session start, read
or end. `FairSpec` of `KcpUdpForwarder` assumes that its queue and the session's
run their blocks.

## 4. Findings

- `kcp_wedge`: a message with more fragments than the receiver's window is
  accepted by `ikcp_send`, fills `rcv_queue`, can never be read, and blocks all
  that follows.
- `kcp_restart`: when one end restarts and the other session lives on, the
  segments sent afterwards are acknowledged and never read; the link does not
  heal. `Docs/kcpfwd-deploy.md` knows this; the comment in `KcpSession` says
  the opposite.
- `tunnel_two`: a connector that has stopped can be started again before it is
  taken out of the directory; the next client gets a second one. The directory
  is then not 1:1 with the live connectors.
- `tunnel_open`: a stream opened after the session ended waits for a start that
  nobody has to call, and its handler is told nothing.

The rest was met while modelling. The models contain these behaviours, and the
properties are stated so that they hold with them:

- The bytes of a CONNECT can stay in the buffer for ever, or be sent behind later
  ones (`main.swift:119-123`, `143-149`): the flag is tested and the bytes are
  queued under two locks, and the buffered bytes are sent after the flag is set.
  `ClientBytesKept` says that they are in one place; `UpstreamInOrder` gives the
  order for a forwarded request only.
- What comes in the same read as the request, after its marker, is dropped
  (`main.swift:231`), the beginning of a POST body for one.
- A request on a stream that waits for a session is sent to the session at once
  and lost with its SYN missing (`main.swift:88-89`, `KcpTunConnector.swift:113`).
- A CONNECT that is not answered with 200 buffers what the client sends as long
  as it sends.
- A forwarder that was stopped and whose next start fails in `session.start`
  keeps the new socket and source: `shutdown` returns early because `stopped` is
  still set (`KcpUdpForwarder.swift:164`, `238`). `Released` excludes that case.
- The report of an earlier end stops a forwarder that was started again
  (`KcpUdpForwarder.swift:135`).
- A configured WG endpoint is replaced as the target by the source of any local
  datagram (`KcpUdpForwarder.swift:194`), although lines 82-84 say that messages
  always go there. `DeliversFirst` says that there is a target.
- `KcpSession.send` flushes before the first `ikcp_update`, and the guard in
  `ikcp_flush` is commented out (`ikcp.c:924`). The segments of that flush are
  timed from 0 instead of from now. If the low 32 bits of the uptime are below
  2^31, the next update finds them overdue and sends them again at once, and the
  first round trip measured is the uptime, so that the timeout becomes 60
  seconds; from 2^31 on a lost segment is repeated only when the clock wraps, in
  up to 24 days. `TimersFit` leaves these segments out (`timed`).
- `ikcp_check` returns the earliest `resendts`, but `ikcp_update` flushes only at
  `ts_flush` (`ikcp.c:1141`): between the two the session's timer is armed with
  delay 0 over and over. The unsigned comparison in `scheduleNextUpdate` does the
  same around the wrap. Nothing is late; `TimersServed` holds.
- A codec of 256 shards is said to be possible (`reedsolomon.h:21`,
  `kcp_rs.h:24-25`, `KcpReedSolomon.swift:16`) and the bridge lets it pass, but the
  constructor refuses it (`reedsolomon.cpp:18`), as it does a codec without parity.

## 5. Proofs

`KcpProofs` proves, for every window, fragment size, mode, message length and
capacity of the path:

| Theorem | States |
|---|---|
| `InitIInv`, `StepIInv`, `Invariance` | `IInv` is an inductive invariant of `Spec` |
| `TypeCorrect` | `Spec => []TypeOK` |
| `ReadsInOrder` | `Spec => []InOrder` |
| `NothingAckedIsLost` | `Spec => []AckedIsReceived` |
| `LateDatagramsAreTrue` | `Spec => []PathIsTruthful` |
| `ImplementsChannel` | `Spec => ChannelSpec` |
| `InitFits`, `StepFits`, `AlwaysFits` | `Fits` is an invariant, relative to `IInv` |
| `BuffersStayInWindows` | `Spec => []WindowsHold` |
| `ReceiverNeverStalls` | `Spec => []NoStall` |
| `WideWindowNeverWedges` | `MaxFrag <= RcvWnd => (Spec => []NeverWedged)` |
| `MessagesStayIntact` | `~ StreamMode => (Spec => []MessagesIntact)` |
| `StreamStaysIntact` | `(\A l \in Lengths : FragCount(l) <= MaxFrag) => (Spec => []StreamIntact)` |

They rest on `KcpAssumption` alone, distinct endpoints and positive sizes, but for
the hypotheses that the last three state. Each is needed. The run `kcp_wedge` is a
window without room for the largest message. In stream mode the receiver sees
other boundaries than the sender made, so `MessagesIntact` is not meant there. And
`ikcp_send` fills the tail segment before it checks the fragment count
(`ikcp.c:475`), so that bytes of a message that it refuses can be read.

The argument. `InOrder` alone is not inductive: what moves into `rcv_queue`
comes from `rcv_buf`, and what enters `rcv_buf` comes from the path. So `IInv`
adds that `rcv_buf` holds only what the peer gave its number (`RcvBufOK`) and
that every datagram under way is true of its sender (`PathIsTruthful`). A
datagram can be old, so that must be a fact that stays true: numbers keep their
payload, `rcv_nxt` and the set of received numbers only grow. The lemmas
`LogGrows`, `ReceiverKeeps` and `StaysTrue` say so, and are used once per
action. `AckedIsReceived` needs the same facts from the other side: `snd_buf`
loses a number only by an acknowledgement or a una that was true. It needs
`AcksOK` because the acknowledgement is queued before it is sent, and `SndBufOK`
because `snd_una` and `snd_buf` bound each other. `MoveReady` is handled once,
for `Recv` and `InputPush`, in `MoveReadyEffect` and `MoveKeepsOrder`. The
refinement maps `numbered` to the items accepted and `read` to the items
delivered; `FlushAccepts` and `RecvDelivers` are its two steps that do not
stutter. The windows are proved by `Fits`, which is inductive given `IInv`: `MoveFits`
shows once, for input and read, that the loop from `rcv_buf` to `rcv_queue` stops
at the end of a run or of the queue, and a flush numbers a segment only if it is
within `snd_wnd` of a `snd_una` that never goes back.

What is read is compared with what was sent through the log of a sender,
`numbered \o snd_queue`: a flush moves the boundary and changes nothing, and what is
read and queued is the beginning of it (`InOrder`). `Counts` says that the fragment
numbers of the log count down to 0 and begin again below `MaxFrag`; the receiver
therefore finds the end of the message within a queue of `MaxFrag` segments
(`WideWindowNeverWedges`). For messages, `Whole` says that the log, folded segment by
segment, gives the messages sent; a read stops at the end of one (`ReadEnds`), so that
what is read gives the first of them. For bytes, `Carries` says of a list of segments
that their data join to given bytes; `ikcp_send` extends the last segment of the log or
appends to it (`Sends`). The folds are handled by a function of their partial results,
which is unique, and not by induction.

`KcpTunnelProofs` proves, for any number of connectors, streams, frames,
removals and queued callbacks:

| Theorem | States |
|---|---|
| `TunnelInit`, `TunnelStep`, `TunnelInvariance` | its `IInv` is an inductive invariant of `KcpTunConnectorManager!Spec` |
| `TunnelTypes` | `Spec => []TypeOK` |
| `StreamSetsAgree` | `Spec => []StreamsAgree` |
| `NoStreamOutlives` | `Spec => []NoGhostStreams` |

They rest on `ConnectorAssumption` and `ManagerAssumption`: the bootstrap
stream is not a client's, and `None` is no connector.

The argument. `NoGhostStreams` says that a connector with open streams on a
dead session will still get the report of its end. That is not inductive: a
frame still queued can make the control channel ready again
(`InboundBootstrap`), and a stream opened then passes for open. So the
invariant says of every frame of a dead session, in the callback queue and in
the connector's, that the report stands behind it (`FramesFirst`), and that the
report is under way whenever the control channel is ready (`ReportComes`). A
running session owes nothing, which is why `StartSession` may come at any time.
A block either takes a job from the connector's queue (`BlockRuns`, one lemma
for ten actions), appends one that is not data (`CallPreserves`), moves one from
the callback queue (`CallbackPreserves`), or ends a session
(`ShutdownPreserves`). `StreamsAgree` is inductive once it says that a stream is
pending or established only while the control channel is ready.

The same module goes on from there, for the handlers and the directory:

| Theorem | States |
|---|---|
| `HandlerInit`, `HandlerStep`, `HandlerInvariance` | `HInv` is an invariant, relative to the one above |
| `NoHandlerForgotten` | `Spec => []NoneForgotten` |
| `DeadConnectorsLeave` | `Spec => []Recycled` |

The argument. `NoneForgotten` relates what a handler was told to a set of another
queue, so `HInv` says where calls can come from: a connector has a stream, or a
call for it in its queue, only if it is the one its client was given (`Placed`,
`CallsOK`); a stop in a queue is of a connector that was removed; nothing has
happened to a connector that does not exist yet (`UnbornOK`). The latter is what
makes `Recycled` hold of a connector that has just been put in the directory. The
blocks of a connector's queue touch one connector and are reduced to the set of
jobs that remain (`BlockDone`, `BlockKeepsHandlers`); the steps that touch no
stream are reduced to what they add to the queues (`QuietStep`).

`KcpClockProofs` proves, for any width of a time, any intervals, timeouts and
windows, any latency of the timer and whatever the peer sends and when:

| Theorem | States |
|---|---|
| `ClockInvariance` | `ClockInv` is an invariant of `KcpClock!Spec` |
| `ClockTypes` | `Spec => []TypeOK` |
| `AcksAreSent` | `Spec => []AcksLeave` |
| `TimersAreServed` | `Spec => []TimersServed` |
| `TimersAreRight` | `Spec => []TimersFit` |
| `WindowAgrees` | `Spec => []CwndIsIncr` |

They rest on `ClockAssumption` (section 2, `KcpClock`). The argument. All that is late
is late because it waits for a flush, so `TimersOK` measures everything from the
next one: it is at most `Interval` from the last update, every timer had run out by
less than the time since the last flush, and what is acknowledged was queued since then
(`OwedOK`). `TimerOK` says that the session's one-shot timer fires before that flush is
due, which is where `ikcp_check` and `scheduleNextUpdate` come in, and bounds the age
of `kcp->current` by less than half the range: a sum of signed differences is then a
signed difference, across the wrap (`DiffSum`, `DiffPlus`). Every handler ends in an
update under a timer that fires before the next flush, whatever it did before
(`UpdateOK`); nearly all arm a new one (`FinishOK`), and after an empty datagram the old
one serves, because an update before the next flush does not move it (`NoFlushYet`). What
each handler does to the control block before that, one part of `ikcp_flush` and
`ikcp_input` at a time, keeps `BlockOK` and the timers.

`ProxyProofs` proves, for any frames and any cut of their bytes, any header, any number
of sessions and chunks, and whatever the connector and the sessions do:

| Theorem | States |
|---|---|
| `ProxyInit`, `ProxyStep`, `ProxyInvariance` | `PInv` is an inductive invariant of `ProxyRuntime!Spec` |
| `NoChunkLost` | `Spec => []ClientBytesKept` |
| `ForwardNeverWaits` | `Spec => []ForwardedInOrder`, the half of `UpstreamInOrder` that is about a forwarded request |
| `DecoderInvariance` | `DecInv` is an inductive invariant of `ProxyRuntime!Spec` |
| `FramesAreExact` | `Spec => []DecoderExact` |
| `AnswerInvariance` | `AnswerInv` is an invariant, given the two above |
| `AnswerIsKept` | `Spec => []AnswerKept` |
| `ImplementsAnswerChannel` | `Spec => AnswerChannel` |
| `NothingBeforeHeader` | `Spec => []UpstreamInOrder` |
| `ProxyTypes` | `Spec => []TypeOK`, which no run checks |

They rest on `ProxyAssumption` and `DecoderAssumption`. The argument for the client's
bytes. The chunks are counted as a set and as a length (`Counted`), because a CONNECT's
may be overtaken; for a forwarded request `PassedInOrder` adds the order. `ReaderOK` says
that the chunk in hand is the latest, and that the runtime has something to send only
within a block, without which two blocks could send the same chunks. `ForwardOK` says
that the flag of a forwarded request was set before its first chunk was read.
`HeaderFirst` says that who sends for a CONNECT, or is about to, has answered it.

For the frames, `Given` says where the decoder stands: between two frames, its buffer
being the stream from the end of the last to the last byte that has come, or within one,
whose bytes it has up to a place `q` (`Between`, `Within`). `Coming` says that the chunks in
the queue are the cuts of the stream that follow, up to what is not read yet. Both
speak of one stream; that a chunk of an ended session never reaches the decoder of the
next is `Ordered`: a session starts only when its predecessor's end, and all before it,
has left the queue. `nextFrame` then gives the next frame if all of it has come, and
otherwise leaves the decoder at a place of the same stream (`BeginIs`, `ContinueIs`).

For the answer, `AnswerWhole` puts what was sent, held and queued together and compares
it with the payloads that have come; each step moves bytes across one boundary. What
makes it true to the end is `EndOnce`: a stream is told of its end once and behind all
that it carried, because whoever reports the end takes the stream away first, and
because a stream is opened once (`OpenOnce`), so that nothing can come after.

The second refinement: `AnswerChannel` maps the payloads that have come to the items
`ReliableChannel` accepts and what was sent to the client to those it delivers; the
other direction is left empty. Only `Process` accepts and only `Forward`, `Answer` and
`SendRemainder` deliver (`StepOfChannel`). By `AnswerWhole` after the step, what was
sent is then still a beginning of what has come (`SentIsDelivered`).

`KcpForwarderProofs` proves, for any number of starts, stops, messages and
datagrams:

| Theorem | States |
|---|---|
| `ForwarderInit`, `ForwarderStep`, `ForwarderInvariance` | its `IInv` is an inductive invariant of `KcpUdpForwarder!Spec` |
| `ForwarderTypes` | `Spec => []TypeOK` |
| `UpMeansServed` | `Spec => []UpIsServed` |
| `SessionNeverOrphaned` | `Spec => []NoOrphanSession` |
| `DownMeansReleased` | `Spec => []Released` |
| `FirstIsDelivered` | `Spec => []DeliversFirst` |

They rest on `ForwarderAssumption`: `None` is no address. The argument. The
properties are nearly inductive together; `DeliversFirst` is not, because it
speaks of what happened. `Targeted` adds that a forwarder with a configured
endpoint has a target whenever it has a socket. Blocks that shut the forwarder
down are handled once in `ShutdownKeeps`, whatever the state it is handed;
`TakeKeeps` says that no other job than a report of the end uses one up.

`KcpFecProofs` proves, for every shape of a group, every limit of `rx`, every
rollover that is a multiple of the group, and every loss, repetition, delay,
expiry and eviction:

| Theorem | States |
|---|---|
| `FecInit`, `FecStep`, `FecInvariance` | `FInv` is an inductive invariant of `KcpFec!Spec` |
| `FecTypes` | `Spec => []TypeOK`, the limit of `rx` included |
| `OnlyGenuinePackets` | `Spec => []Genuine` |
| `SlotsAgree` | `Spec => []GroupsAligned` |
| `NothingStale` | `Spec => []RxTidy` |
| `EnoughSuffices` | `Spec => []NothingWithheld` |

They rest on `FecAssumption`; that the rollover is a multiple of the group size is
part of it, and is how the code computes it. The argument. A reconstruction is
right if its shards agree, so `FInv` says of any two live frames, on the path or
in `rx`, that a frame of the group of a parity frame is part of its code word
(`Agree`), and of the frames of the group being filled that they are its data
frames (`InGroup`); the latter is why the parity of a group that becomes full
agrees with what is still live of it. `GroupBegun` ties the packet numbers to the
sequence numbers; the rollover cannot split a group (`RolloverBetweenGroups`). That
a group without all its data but with enough shards has a parity frame is a
matter of counting (`SlotsFit`). For `EnoughSuffices`, `WInv` adds that every
group of which shards were held is complete and surfaced, or has what was held of
it in `rx` (`Settled`); with `RxTidy` these are too few. What completes a group is
shown once, in `DoneSurfaced`.

`ReedSolomonProofs` proves, for every field, shape, payload and sequence of decodes:

| Theorem | States |
|---|---|
| `CodecInit`, `CodecStep`, `CodecInvariance` | the invariant of the cache, `CInv`, is inductive |
| `CodecTypes` | `Spec => []TypeOK`, which no run checks: the shape is one that was accepted, the cache is a tree |
| `CacheNeverStale` | `Spec => []CacheExact` |
| `ValidShapesAreBuilt` | every shape the constructor's bounds admit has a coding matrix |
| `RebuildInit`, `RebuildStep`, `RebuildInvariance` | the stronger invariant `RInv` is inductive |
| `AnySurvivorsRebuild` | `Spec => []AnyShardsSuffice` |

They rest on `CodecAssumption`, with `FieldAssumption` in it (section 2).

The argument for the cache. The tree is keyed by the missing
shards in front of the last one used, as differences. The list of gaps determines
the shards that the scan takes (the first `data` of those not in it), so two sets
of shards with the same gaps have the same decode matrix; ascending lists are
determined by their sets, and the way determines the list, so a matrix is found
only for the gaps it was inserted for. That needs the k-th smallest element of a
set, which is shown by ranks (`Ranks`).

The argument for what is rebuilt is the correctness of the codec, from its tables up:

1. *The field.* The logarithm tables are inverse to each other because the powers of
   2 are all elements but 0 and as many; so multiplication is associative and has
   inverses, `galDivide` finds them (`Inverses`), `galExp` is repeated multiplication
   (`Powers`), and no product of others is 0 (`NoDivisors`).
2. *The elimination.* A matrix is looked at by its solutions: the columns on which
   all its rows are 0 (`Solves`). A swap, a scaling by what is not 0 and the
   addition of a multiple of another row keep them (`PivotKeeps`, `LowerRound`,
   `UpperRound`), and the rounds make the identity on the left (`Eliminated`). On
   a matrix beside the identity, whose solutions are the pairs of a column and its
   image, this gives the inverse (`Inversion`). If a round finds no pivot, back
   substitution along the triangle made so far gives a solution that is not 0; so
   a matrix that sends only 0 to 0 is always inverted (`InverseExists`).
3. *The coding matrix.* A row of the Vandermonde matrix, applied to a column, is the
   value of a polynomial at the row's number. A polynomial is divided by a root
   (`Divided`), so with `n` coefficients and `n` roots it is 0 (`Roots`). Hence the
   upper square can be inverted (`TopInverse`), and so can any `data` rows of the
   coding matrix, of which the first send the data shards as they are (`CodingRows`).
4. *The decode.* The scan takes exactly `data` shards (`EnoughAreTaken`); their rows
   can be inverted (`DecodeMatrixExists`), and the inverse makes the data shards of
   them, byte column by byte column (`DecodeMatrixDecodes`).
5. *The state.* `RInv` adds to `CInv` that the root of the tree keeps its matrix,
   which a decode without gaps is given, and that the group in `word` is the encoding
   of a payload (`GroupKept`); the cached matrix is right by `CacheExact`. TLC found
   `GroupKept` to hold on the instance of the `codec` run before it was proved.

The induction in 1 to 3 is over numbers. The provers cannot use the library's rules
for it, which have an operator as a parameter, so `CommonLemmas` states induction for
a set (`Induction`, from least elements) and the existence of a function that is
defined step by step (`Recursion`), and a definition by recursion is met through
them. `2 ^ Width` is a number by assumption, as the provers know nothing of powers.

Only model-checked: liveness (`AllRead`, `RegistryDrains`, `EndIsReported`), which is
out of the prover's reach. Every safety property that a passing run checks is a
theorem. The runs that expect a violation state what does not hold.

## 6. Not modelled

- The packet codec: cipher and checksum arithmetic, which tests compare with
  reference values. A datagram that it rejects is a lost datagram.
- Snappy framing: compression is a library outside the repository; what is left
  is a header and chunk parser that its unit tests cover.
- The wrap of the 32-bit sequence numbers, packing by MTU, allocation failures.
- The listening socket of a session and the peer it learns; routing tables,
  command lines, logging, sockets.
- `oldTun`, which no target builds.

## 7. Order of the work, and what could follow

Written in this order: `Kcp`, `ReliableChannel`, `MCKcp`, `KcpProofs`,
`KcpRestart`, `KcpFec`, `KcpTunConnector`, `KcpTunConnectorManager`,
`KcpTunnelProofs`, `KcpFrameDecoder`, `ProxyRuntime`, `KcpUdpForwarder`,
`KcpForwarderProofs`, `GaloisMatrix`, `InversionTree`, `ReedSolomon`, `KcpClock`,
`ReedSolomonProofs`, `KcpFecProofs`, `ProxyProofs`, `KcpClockProofs`. What the most
depends on came first.

Could follow: a restart of the encoder in `KcpFec`; sequence comparison modulo
2^w; the other direction of `AnswerChannel`, the client's bytes, which is a channel for
forwarded requests only.

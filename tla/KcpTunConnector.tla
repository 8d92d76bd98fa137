-------------------------- MODULE KcpTunConnector --------------------------
(***************************************************************************)
(* The connectors of one remote endpoint                                   *)
(* (Sources/Shanghai/KcpTunConnector.swift), each with its KcpSession.     *)
(*                                                                         *)
(* Everything runs on serial dispatch queues: the connector's own queue,   *)
(* the session's stateQueue, and the callback queue between them.  An      *)
(* action is one block of one queue; a block that is dispatched to another *)
(* queue waits there, and what it then finds may have changed.             *)
(*                                                                         *)
(* A frame is its command and stream.  Of the frames sent only a SYN       *)
(* changes anything here: the remote knows the stream.  A frame reaches a  *)
(* running session at once, because a session that fails before its block  *)
(* runs could have failed before the call; a stop has to wait its turn.    *)
(* Payload, the count of consumed bytes in an UPD, compression, the        *)
(* cutting of the stream into frames and the order of the streams that     *)
(* wait are left out.  A handler is its stream.                            *)
(***************************************************************************)
EXTENDS Integers, Sequences, FiniteSets, Functions

CONSTANTS
  Connectors,
  Streams,
  Bootstrap,     \* configuration.bootstrapSessionID
  MaxInbound,    \* bound: frames the remote sends
  MaxQueue       \* bound: callbacks the remote adds to

ASSUME ConnectorAssumption ==
  /\ Bootstrap \notin Streams
  /\ {MaxInbound, MaxQueue} \subseteq Nat

VARIABLES
  con,           \* the fields of each connector
  session,       \* KcpSession.started and stopped
  connQ,         \* the connector's queue
  stopping,      \* a stop waits in the session's stateQueue
  cbQ,           \* the callback queue that all sessions share
  told,          \* history: what each handler was called with
  known,         \* the streams the remote has had a SYN of in this session
  inbound        \* how many frames the remote has sent

connectorVars == <<con, connQ>>
sessionVars == <<session, stopping, cbQ>>
remoteVars == <<known, inbound>>

Commands == {"syn", "fin", "psh", "nop", "upd"}
Inbound(cmds, sids) == [op : {"data"}, cmd : cmds, sid : sids]
Call(op, s) == [op |-> op, sid |-> s]
StopCall == [op |-> "stop"]
Stopped == [op |-> "stopped"]

Fields ==
  [started : BOOLEAN, ready : BOOLEAN, timer : BOOLEAN,
   streams : SUBSET Streams, waiting : SUBSET Streams,
   pending : SUBSET Streams, established : SUBSET Streams]

\* The fields after init and after resetState, which leaves only the timer.
Cleared ==
  [started |-> FALSE, ready |-> FALSE, timer |-> FALSE, streams |-> {},
   waiting |-> {}, pending |-> {}, established |-> {}]

ConnectorInit ==
  /\ con = [c \in Connectors |-> Cleared]
  /\ session = [c \in Connectors |-> "idle"]
  /\ connQ = [c \in Connectors |-> <<>>]
  /\ stopping = [c \in Connectors |-> FALSE]
  /\ cbQ = <<>>
  /\ told = [s \in Streams |-> {}]
  /\ known = [c \in Connectors |-> {}]
  /\ inbound = 0

-----------------------------------------------------------------------------
(* Helpers                                                                 *)

Enqueue(c, jobs) == connQ' = [connQ EXCEPT ![c] = @ \o jobs]
Take(c, op) ==
  /\ connQ[c] # <<>> /\ Head(connQ[c]).op = op
  /\ connQ' = [connQ EXCEPT ![c] = Tail(@)]
Argument(c) == Head(connQ[c]).sid

\* session.send of the SYN of the streams S.
SendSyn(c, S) ==
  known' = IF session[c] = "running" /\ ~ stopping[c]
           THEN [known EXCEPT ![c] = @ \cup S] ELSE known
Tell(S, what) == told' = [s \in Streams |-> told[s] \cup IF s \in S THEN {what} ELSE {}]

\* openStreamWhenReady: the streams S are pending.
Opening(k, S) == [k EXCEPT !.pending = @ \cup S, !.established = @ \ S]

\* markStreamEstablished
Mark(k, s) ==
  IF s \in k.pending
  THEN [k EXCEPT !.pending = @ \ {s}, !.established = @ \cup {s}] ELSE k

\* Mistake: a waiting stream stays in the list when it is closed.
ClearKeepsWaiting(k, s) ==
  [k EXCEPT !.pending = @ \ {s}, !.established = @ \ {s}, !.streams = @ \ {s}]

\* clearStreamState, with removeStream.
Clear(k, s) ==
  [k EXCEPT !.pending = @ \ {s}, !.established = @ \ {s}, !.streams = @ \ {s},
            !.waiting = @ \ {s}]

\* The waiting streams of k, which is ready, are opened.
Drain(c, k) ==
  /\ con' = [con EXCEPT ![c] = [Opening(k, k.waiting) EXCEPT !.waiting = {}]]
  /\ Tell(k.waiting, "connect")

-----------------------------------------------------------------------------
(* KcpSession                                                              *)

\* Mistake: the owner is not told.
ShutdownSilent(c) ==
  /\ session' = [session EXCEPT ![c] = "stopped"]
  /\ UNCHANGED cbQ

\* shutdown: onStop is dispatched to the callback queue.
Shutdown(c) ==
  /\ session' = [session EXCEPT ![c] = "stopped"]
  /\ cbQ' = Append(cbQ, [con |-> c, job |-> Stopped])

\* The stop whose turn it is in the session's queue.
SessionStop(c) ==
  /\ stopping[c]
  /\ stopping' = [stopping EXCEPT ![c] = FALSE]
  /\ IF session[c] = "stopped" THEN UNCHANGED <<session, cbQ>> ELSE Shutdown(c)
  /\ UNCHANGED <<connectorVars, told, remoteVars>>

\* A socket error that is not transient.
SessionFails(c) ==
  /\ session[c] = "running"
  /\ Shutdown(c)
  /\ UNCHANGED <<connectorVars, stopping, told, remoteVars>>

\* The session reads a frame.  The remote answers the streams it knows, in
\* any way, and the bootstrap stream with NOP.
SessionReads(c) ==
  /\ session[c] = "running" /\ inbound < MaxInbound /\ Len(cbQ) < MaxQueue
  /\ inbound' = inbound + 1
  /\ \E f \in Inbound(Commands, known[c]) \cup Inbound({"nop"}, {Bootstrap}) :
       cbQ' = Append(cbQ, [con |-> c, job |-> f])
  /\ UNCHANGED <<connectorVars, session, stopping, told, known>>

\* onReceive and onStop hop from the callback queue to the connector's.
Callback ==
  /\ cbQ # <<>>
  /\ cbQ' = Tail(cbQ)
  /\ Enqueue(Head(cbQ).con, <<Head(cbQ).job>>)
  /\ UNCHANGED <<con, session, stopping, told, remoteVars>>

-----------------------------------------------------------------------------
(* Calls                                                                   *)

\* start on a connector that is started.
StartAgain(c) ==
  /\ Take(c, "start")
  /\ con[c].started
  /\ UNCHANGED <<con, sessionVars, told, remoteVars>>

\* session.start throws: it has been started already, or the socket fails.  It
\* waits for the blocks of the session's queue, as it does when it succeeds.
StartThrows(c) ==
  /\ Take(c, "start")
  /\ ~ con[c].started /\ ~ stopping[c]
  /\ UNCHANGED <<con, sessionVars, told, remoteVars>>

\* A new session; the control channel counts as ready at once.
StartSession(c) ==
  /\ Take(c, "start")
  /\ ~ con[c].started /\ ~ stopping[c] /\ session[c] # "running"
  /\ session' = [session EXCEPT ![c] = "running"]
  /\ known' = [known EXCEPT ![c] = con[c].waiting]
  /\ Drain(c, [con[c] EXCEPT !.started = TRUE, !.ready = TRUE, !.timer = TRUE])
  /\ UNCHANGED <<stopping, cbQ, inbound>>

\* The streams are forgotten here, before onStop comes.
StopConnector(c) ==
  /\ Take(c, "stop")
  /\ con' = [con EXCEPT ![c] = Cleared]
  /\ stopping' = [stopping EXCEPT ![c] = TRUE]
  /\ UNCHANGED <<session, cbQ, told, remoteVars>>

OpenStream(c) ==
  LET s == Argument(c)
      k == [con[c] EXCEPT !.streams = @ \cup {s}]
  IN
  /\ Take(c, "open")
  /\ \/ /\ k.ready
        /\ con' = [con EXCEPT ![c] = Opening(k, {s})]
        /\ SendSyn(c, {s})
        /\ Tell({s}, "connect")
     \/ /\ ~ k.ready
        /\ con' = [con EXCEPT ![c] = [k EXCEPT !.waiting = @ \cup {s}]]
        /\ UNCHANGED <<known, told>>
  /\ UNCHANGED <<sessionVars, inbound>>

CloseStream(c) ==
  /\ Take(c, "close")
  /\ con' = [con EXCEPT ![c] = Clear(@, Argument(c))]
  /\ UNCHANGED <<sessionVars, told, remoteVars>>

\* The keep-alive timer stops a session that has been idle.
KeepAlive(c) ==
  /\ con[c].timer /\ ~ stopping[c]
  /\ stopping' = [stopping EXCEPT ![c] = TRUE]
  /\ UNCHANGED <<connectorVars, session, cbQ, told, remoteVars>>

-----------------------------------------------------------------------------
(* What the session reports                                                *)

\* Mistake: the fields are reset before the handlers are collected.
SessionStoppedTellsNobody(c) ==
  /\ Take(c, "stopped")
  /\ con' = [con EXCEPT ![c] = Cleared]
  /\ UNCHANGED <<sessionVars, told, remoteVars>>

\* handleSessionStop, whichever session it was.
SessionStopped(c) ==
  /\ Take(c, "stopped")
  /\ con' = [con EXCEPT ![c] = Cleared]
  /\ Tell(con[c].streams, "disconnect")
  /\ UNCHANGED <<sessionVars, remoteVars>>

TakeFrame(c, cmds) == Take(c, "data") /\ Head(connQ[c]).cmd \in cmds
Registered(c) == Argument(c) \in con[c].streams

\* A frame of the bootstrap stream makes the control channel ready.
InboundBootstrap(c) ==
  /\ TakeFrame(c, Commands) /\ Argument(c) = Bootstrap
  /\ Drain(c, [con[c] EXCEPT !.ready = TRUE])
  /\ SendSyn(c, con[c].waiting)
  /\ UNCHANGED <<sessionVars, inbound>>

\* A frame for a stream that is not registered is answered with FIN.
InboundUnknown(c) ==
  /\ TakeFrame(c, Commands) /\ ~ Registered(c) /\ Argument(c) # Bootstrap
  /\ IF Head(connQ[c]).cmd \in {"fin", "upd"}
     THEN UNCHANGED con ELSE con' = [con EXCEPT ![c] = Clear(@, Argument(c))]
  /\ UNCHANGED <<sessionVars, told, remoteVars>>

InboundSyn(c) ==
  /\ TakeFrame(c, {"syn"}) /\ Registered(c)
  /\ con' = [con EXCEPT ![c] = Mark(@, Argument(c))]
  /\ Tell({Argument(c)}, "connect")
  /\ UNCHANGED <<sessionVars, remoteVars>>

InboundFin(c) ==
  /\ TakeFrame(c, {"fin"}) /\ Registered(c)
  /\ con' = [con EXCEPT ![c] = Clear(@, Argument(c))]
  /\ Tell({Argument(c)}, "disconnect")
  /\ UNCHANGED <<sessionVars, remoteVars>>

\* Data is delivered and, in smux v2, answered with UPD; NOP is nothing more
\* than a sign of life.
InboundPshOrNop(c) ==
  /\ TakeFrame(c, {"psh", "nop"}) /\ Registered(c)
  /\ con' = [con EXCEPT ![c] = Mark(@, Argument(c))]
  /\ UNCHANGED <<sessionVars, told, remoteVars>>

\* The window update of the remote is only logged.
InboundUpd(c) ==
  /\ TakeFrame(c, {"upd"}) /\ Registered(c)
  /\ UNCHANGED <<con, sessionVars, told, remoteVars>>

\* The blocks of c that nobody waits for.
Process(c) ==
  \/ StopConnector(c) \/ OpenStream(c) \/ CloseStream(c)
  \/ InboundBootstrap(c) \/ InboundUnknown(c) \/ InboundSyn(c) \/ InboundFin(c)
  \/ InboundPshOrNop(c) \/ InboundUpd(c)

-----------------------------------------------------------------------------
(* Properties                                                              *)

\* Each connector's fields have their types.
ConnectorTypeOK ==
  /\ con \in [Connectors -> Fields]
  /\ session \in [Connectors -> {"idle", "running", "stopped"}]
  /\ told \in [Streams -> SUBSET {"connect", "disconnect"}]

\* The stream sets agree: a pending, established or waiting stream has a handler,
\* none is both pending and established, streams wait only while the control channel
\* is not ready, and are pending or established only while it is.
StreamsAgree ==
  \A c \in Connectors :
    LET k == con[c] IN
    /\ k.pending \cup k.established \cup k.waiting \subseteq k.streams
    /\ k.pending \cap k.established = {}
    /\ IF k.ready THEN k.waiting = {} ELSE k.pending \cup k.established = {}

\* The end of c's session is still to reach c.
StopUnderWay(c) ==
  \/ Stopped \in Range(connQ[c])
  \/ [con |-> c, job |-> Stopped] \in Range(cbQ)

\* A dead session leaves no stream that passes for open: whatever was read, opened and
\* called around its end, the report of the end comes last.
NoGhostStreams ==
  \A c \in Connectors :
    session[c] # "running" /\ con[c].pending \cup con[c].established # {} => StopUnderWay(c)

=============================================================================

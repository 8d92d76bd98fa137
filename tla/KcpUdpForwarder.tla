-------------------------- MODULE KcpUdpForwarder --------------------------
(***************************************************************************)
(* The forwarder of a datagram protocol over KCP                           *)
(* (Sources/Shanghai/KcpUdpForwarder.swift): its lifecycle against the     *)
(* callbacks of its KcpSession, and where it sends what comes back.  Its   *)
(* owner is kcpfwd (Sources/kcpfwd/main.swift) or a program that starts it *)
(* again after it stopped.                                                 *)
(*                                                                         *)
(* An action is a block of the forwarder's queue, which is also the        *)
(* session's callback queue, or of the session's stateQueue.  What the     *)
(* datagrams carry is left out; MCKcp has the messages between two ends.   *)
(***************************************************************************)
EXTENDS Integers, Sequences, Functions

CONSTANTS
  Addrs,         \* where local datagrams come from
  None,
  MaxStarts,     \* bound: calls of start
  MaxStops,      \* bound: calls of stop
  MaxMessages,   \* bound: messages from the remote
  MaxWaiting     \* bound: datagrams that wait in the local socket

ASSUME ForwarderAssumption ==
  /\ None \notin Addrs
  /\ {MaxStarts, MaxStops, MaxMessages, MaxWaiting} \subseteq Nat

VARIABLES
  wgEndpoint,    \* the address that was configured, or None
  fwd,           \* started, stopped, localFD, readSource, wgPeer
  queue,         \* the forwarder's queue
  session,       \* KcpSession.started and stopped
  stopping,      \* a stop waits in the session's stateQueue
  socket,        \* the datagrams in the local socket: where each came from
  starts, stops, messages,
  told,          \* history: onStop was called since the last start
  leaky,         \* history: a start failed after the forwarder had been stopped
  dropped        \* history: a message was dropped while the forwarder was up

sessionVars == <<session, stopping>>
counters == <<starts, stops, messages>>
history == <<told, leaky, dropped>>
vars == <<wgEndpoint, fwd, queue, sessionVars, socket, counters, history>>

Message == [op |-> "message"]
StopCall == [op |-> "stop"]
Ended == [op |-> "ended"]

Init ==
  /\ wgEndpoint \in Addrs \cup {None}
  /\ fwd = [started |-> FALSE, stopped |-> FALSE, fd |-> FALSE, source |-> FALSE, peer |-> None]
  /\ queue = <<>>
  /\ session = "idle" /\ stopping = FALSE
  /\ socket = <<>>
  /\ starts = 0 /\ stops = 0 /\ messages = 0
  /\ told = FALSE /\ leaky = FALSE /\ dropped = FALSE

-----------------------------------------------------------------------------
(* shutdown                                                                *)

\* Mistake: the session is left to its owner.
ShutdownKeepsSession(f) ==
  /\ fwd' = IF f.stopped THEN f
            ELSE [f EXCEPT !.stopped = TRUE, !.started = FALSE, !.source = FALSE, !.fd = FALSE]
  /\ UNCHANGED stopping

\* Mistake: the socket is closed only if the forwarder had come up.
ShutdownIfStarted(f) ==
  /\ fwd' = IF f.stopped THEN f
            ELSE IF f.started
            THEN [f EXCEPT !.stopped = TRUE, !.started = FALSE, !.source = FALSE, !.fd = FALSE]
            ELSE [f EXCEPT !.stopped = TRUE]
  /\ stopping' = (stopping \/ ~ f.stopped)

\* shutdown of a forwarder in the state f, at most once: the source is cancelled, the
\* socket closed, the session told to stop.
Shutdown(f) ==
  /\ fwd' = IF f.stopped THEN f
            ELSE [f EXCEPT !.stopped = TRUE, !.started = FALSE, !.source = FALSE, !.fd = FALSE]
  /\ stopping' = (stopping \/ ~ f.stopped)

\* onStop, unless shutdown returned early.
Notify(f) == told' = (told \/ ~ f.stopped)

-----------------------------------------------------------------------------
(* start and stop                                                          *)

\* start is synchronous: its block was called before those that wait now, and
\* session.start in it waits for a stop in the session's queue, whose report then comes
\* behind.
MayStart == ~ stopping /\ starts < MaxStarts /\ ~ fwd.started

\* Mistake: the reply target is set only by a local datagram.
OpenedUnset == {[fwd EXCEPT !.fd = TRUE, !.source = TRUE]}

\* The local socket is bound, the reply target preset if it resolves, the source
\* resumed.
Opened ==
  {[fwd EXCEPT !.fd = TRUE, !.source = TRUE, !.peer = IF wgEndpoint = None THEN @ ELSE wgEndpoint]}

\* Mistake: the flag of the last shutdown stays.
UpOnly(f) == [f EXCEPT !.started = TRUE]

Up(f) == [f EXCEPT !.started = TRUE, !.stopped = FALSE]

StartSucceeds ==
  /\ MayStart /\ session # "running"
  /\ starts' = starts + 1
  /\ \E f \in Opened : fwd' = Up(f)
  /\ session' = "running"
  /\ socket' = <<>>
  /\ told' = FALSE
  /\ UNCHANGED <<wgEndpoint, queue, stopping, stops, messages, leaky, dropped>>

\* session.start throws.  A forwarder that was stopped before is stopped still, so
\* that shutdown returns early.
StartSessionFails ==
  /\ MayStart
  /\ starts' = starts + 1
  /\ \E f \in Opened : Shutdown(f)
  /\ leaky' = (leaky \/ fwd.stopped)
  /\ socket' = <<>>
  /\ UNCHANGED <<wgEndpoint, queue, session, stops, messages, told, dropped>>

\* The local socket cannot be bound: start throws and nothing has changed.
StartBindFails ==
  /\ MayStart
  /\ starts' = starts + 1
  /\ UNCHANGED <<wgEndpoint, fwd, queue, sessionVars, socket, stops, messages, history>>

Stop ==
  /\ stops < MaxStops
  /\ stops' = stops + 1
  /\ queue' = Append(queue, StopCall)
  /\ UNCHANGED <<wgEndpoint, fwd, sessionVars, socket, starts, messages, history>>

-----------------------------------------------------------------------------
(* The forwarder's queue                                                   *)

Take(job) == queue # <<>> /\ Head(queue) = job /\ queue' = Tail(queue)

HandleStop ==
  /\ Take(StopCall)
  /\ Shutdown(fwd)
  /\ Notify(fwd)
  /\ UNCHANGED <<wgEndpoint, session, socket, counters, leaky, dropped>>

\* Mistake: only a stop that was called is reported.
SessionEndedSilent ==
  /\ Take(Ended)
  /\ Shutdown(fwd)
  /\ UNCHANGED <<wgEndpoint, session, socket, counters, history>>

\* onStop of the session, whichever of its lives it ended.
SessionEnded ==
  /\ Take(Ended)
  /\ Shutdown(fwd)
  /\ Notify(fwd)
  /\ UNCHANGED <<wgEndpoint, session, socket, counters, leaky, dropped>>

\* forwardToWireGuard: a message goes to the peer, if there is a socket and a peer.
ForwardToWireGuard ==
  /\ Take(Message)
  /\ dropped' = (dropped \/ (fwd.fd /\ ~ fwd.stopped /\ fwd.peer = None))
  /\ UNCHANGED <<wgEndpoint, fwd, sessionVars, socket, counters, told, leaky>>

\* The datagrams are drained; the last one's source is the peer.
HandleLocalReadable ==
  /\ fwd.source /\ fwd.fd /\ ~ fwd.stopped /\ socket # <<>>
  /\ fwd' = [fwd EXCEPT !.peer = socket[Len(socket)]]
  /\ socket' = <<>>
  /\ UNCHANGED <<wgEndpoint, queue, sessionVars, counters, history>>

\* recvfrom fails, some datagrams after the block began.
LocalError ==
  /\ fwd.source /\ fwd.fd /\ ~ fwd.stopped
  /\ \E n \in 0..Len(socket) : Shutdown([fwd EXCEPT !.peer = IF n = 0 THEN @ ELSE socket[n]])
  /\ Notify(fwd)
  /\ socket' = <<>>
  /\ UNCHANGED <<wgEndpoint, queue, session, counters, leaky, dropped>>

-----------------------------------------------------------------------------
(* The session and the local programs                                      *)

\* Mistake: onStop is not dispatched.
ShutdownSilent == session' = "stopped" /\ UNCHANGED queue

\* Its shutdown dispatches onStop.
SessionShutdown == session' = "stopped" /\ queue' = Append(queue, Ended)

SessionStop ==
  /\ stopping
  /\ stopping' = FALSE
  /\ IF session = "stopped" THEN UNCHANGED <<session, queue>> ELSE SessionShutdown
  /\ UNCHANGED <<wgEndpoint, fwd, socket, counters, history>>

SessionFails ==
  /\ session = "running"
  /\ SessionShutdown
  /\ UNCHANGED <<wgEndpoint, fwd, stopping, socket, counters, history>>

SessionReads ==
  /\ session = "running" /\ messages < MaxMessages
  /\ messages' = messages + 1
  /\ queue' = Append(queue, Message)
  /\ UNCHANGED <<wgEndpoint, fwd, sessionVars, socket, starts, stops, history>>

Datagram(a) ==
  /\ fwd.fd /\ Len(socket) < MaxWaiting
  /\ socket' = Append(socket, a)
  /\ UNCHANGED <<wgEndpoint, fwd, queue, sessionVars, counters, history>>

-----------------------------------------------------------------------------

Queue == HandleStop \/ SessionEnded \/ ForwardToWireGuard

Next ==
  \/ StartSucceeds \/ StartSessionFails \/ StartBindFails \/ Stop
  \/ Queue \/ HandleLocalReadable \/ LocalError
  \/ SessionStop \/ SessionFails \/ SessionReads
  \/ \E a \in Addrs : Datagram(a)

Spec == Init /\ [][Next]_vars

\* Queues run their blocks; nothing has to be called, to fail or to arrive.
FairSpec == Spec /\ WF_vars(Queue) /\ WF_vars(SessionStop)

-----------------------------------------------------------------------------
(* Properties                                                              *)

\* The variables have their types; a forwarder is not started and stopped.
TypeOK ==
  /\ fwd \in [started : BOOLEAN, stopped : BOOLEAN, fd : BOOLEAN, source : BOOLEAN,
              peer : Addrs \cup {None}]
  /\ ~ (fwd.started /\ fwd.stopped)
  /\ Range(queue) \subseteq {Message, StopCall, Ended}
  /\ session \in {"idle", "running", "stopped"}
  /\ {stopping, told, leaky, dropped} \subseteq BOOLEAN
  /\ Range(socket) \subseteq Addrs

\* A forwarder that is up has its socket, its source and a session that runs, or the
\* report of its end is on the way.
UpIsServed ==
  fwd.started =>
    /\ fwd.fd /\ fwd.source
    /\ session = "running" \/ Ended \in Range(queue)

\* A forwarder that is not up leaves no session running that nobody will stop.
NoOrphanSession == session = "running" => fwd.started \/ stopping

\* A forwarder that is not up holds no socket and no source, unless a start failed after
\* it had been stopped.
Released == fwd.fd \/ fwd.source => fwd.started \/ leaky

\* "so a responder-side forwarder can deliver the very first inbound packet": with a WG
\* endpoint that resolves no message is dropped while the forwarder is up.
DeliversFirst == wgEndpoint # None => ~ dropped

\* The owner of a forwarder that is up hears of the end of its session, and of a stop.
EndIsReported ==
  fwd.started /\ (session = "stopped" \/ StopCall \in Range(queue)) ~> told /\ ~ fwd.started

=============================================================================

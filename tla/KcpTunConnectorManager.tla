----------------------- MODULE KcpTunConnectorManager -----------------------
(***************************************************************************)
(* The manager that shares one connector per remote endpoint               *)
(* (Sources/Shanghai/KcpTunConnectorManager.swift), for one endpoint, and  *)
(* the clients that ask it for the connector and open a stream each, as    *)
(* the proxy does (Sources/ShanghaiProxy/main.swift).                      *)
(***************************************************************************)
EXTENDS KcpTunConnector

CONSTANTS
  None,
  MaxRemovals    \* bound: calls of removeConnector

ASSUME ManagerAssumption == None \notin Connectors /\ MaxRemovals \in Nat

VARIABLES
  directory,     \* the connector of the endpoint, or None
  mgrQ,          \* the manager's queue
  created,       \* the connectors that exist
  removals,      \* how often removeConnector was called
  dropped,       \* history: the connectors it removed
  pc,            \* where each client is
  of             \* the connector each client was given

managerVars == <<directory, mgrQ, created, removals, dropped>>
clientVars == <<pc, of>>
vars == <<connectorVars, sessionVars, remoteVars, told, managerVars, clientVars>>

Steps == {"new", "asking", "start", "starting", "open", "reading", "closed", "refused"}

Init ==
  /\ ConnectorInit
  /\ directory = None
  /\ mgrQ = <<>>
  /\ created = {}
  /\ removals = 0
  /\ dropped = {}
  /\ pc = [s \in Streams |-> "new"]
  /\ of = [s \in Streams |-> None]

Go(s, from, to) == pc[s] = from /\ pc' = [pc EXCEPT ![s] = to]

-----------------------------------------------------------------------------
(* The manager's queue                                                     *)

Block(op) == mgrQ # <<>> /\ Head(mgrQ).op = op /\ mgrQ' = Tail(mgrQ)

\* connector(for:) gives the connector it has, or creates one.
Give ==
  /\ Block("get")
  /\ LET s == Head(mgrQ).sid IN
     /\ Go(s, "asking", "start")
     /\ \E c \in IF directory = None THEN Connectors \ created ELSE {directory} :
          /\ directory' = c
          /\ created' = created \cup {c}
          /\ of' = [of EXCEPT ![s] = c]
  /\ UNCHANGED <<removals, dropped, connectorVars, sessionVars, remoteVars, told>>

\* Mistake: the connector stays.
RecycleNothing ==
  /\ Block("recycle")
  /\ UNCHANGED <<directory, created, removals, dropped, clientVars>>
  /\ UNCHANGED <<connectorVars, sessionVars, remoteVars, told>>

\* onStateChange(false) of a connector takes it out, if it is still there.
Recycle ==
  /\ Block("recycle")
  /\ directory' = IF directory = Head(mgrQ).con THEN None ELSE directory
  /\ UNCHANGED <<created, removals, dropped, clientVars>>
  /\ UNCHANGED <<connectorVars, sessionVars, remoteVars, told>>

\* Mistake: it does not ask whether there is one.
RemoveUnchecked ==
  /\ Block("remove")
  /\ directory' = None
  /\ Enqueue(directory, <<StopCall>>)
  /\ dropped' = dropped \cup {directory}
  /\ UNCHANGED <<created, removals, clientVars, con, sessionVars, remoteVars, told>>

\* removeConnector takes it out and stops it.
Remove ==
  /\ Block("remove")
  /\ directory' = None
  /\ IF directory = None THEN UNCHANGED <<connQ, dropped>>
     ELSE Enqueue(directory, <<StopCall>>) /\ dropped' = dropped \cup {directory}
  /\ UNCHANGED <<created, removals, clientVars, con, sessionVars, remoteVars, told>>

AskRemoval ==
  /\ removals < MaxRemovals
  /\ removals' = removals + 1
  /\ mgrQ' = Append(mgrQ, [op |-> "remove"])
  /\ UNCHANGED <<directory, created, dropped, clientVars>>
  /\ UNCHANGED <<connectorVars, sessionVars, remoteVars, told>>

\* The connector's last block: it tells the manager and then its handlers.
Ended(c) ==
  /\ SessionStopped(c)
  /\ mgrQ' = Append(mgrQ, [op |-> "recycle", con |-> c])
  /\ UNCHANGED <<directory, created, removals, dropped, clientVars>>

-----------------------------------------------------------------------------
(* A client: it gets the connector, starts it, opens its stream and reads  *)
(* until it closes.                                                        *)

Ask(s) ==
  /\ Go(s, "new", "asking")
  /\ mgrQ' = Append(mgrQ, [op |-> "get", sid |-> s])
  /\ UNCHANGED <<directory, created, removals, dropped, of>>
  /\ UNCHANGED <<connectorVars, sessionVars, remoteVars, told>>

CallConnector(s, from, op, to) ==
  /\ Go(s, from, to)
  /\ Enqueue(of[s], <<Call(op, s)>>)
  /\ UNCHANGED <<of, managerVars, con, sessionVars, remoteVars, told>>

CallStart(s) == CallConnector(s, "start", "start", "starting")
CallOpen(s) == CallConnector(s, "open", "open", "reading")
CallClose(s) == CallConnector(s, "reading", "close", "closed")

\* start is synchronous: the client goes on when its block has run.
Started(c) ==
  /\ StartAgain(c) \/ StartSession(c)
  /\ Go(Argument(c), "starting", "open")
  /\ UNCHANGED <<of, managerVars>>

Refused(c) ==
  /\ StartThrows(c)
  /\ Go(Argument(c), "starting", "refused")
  /\ UNCHANGED <<of, managerVars>>

-----------------------------------------------------------------------------

ManagerStep == Give \/ Recycle \/ Remove
ConnectorStep(c) ==
  \/ Started(c) \/ Refused(c) \/ Ended(c)
  \/ Process(c) /\ UNCHANGED <<managerVars, clientVars>>
SessionStep(c) == SessionStop(c) /\ UNCHANGED <<managerVars, clientVars>>
CallbackStep == Callback /\ UNCHANGED <<managerVars, clientVars>>
Events(c) ==
  (SessionFails(c) \/ SessionReads(c) \/ KeepAlive(c)) /\ UNCHANGED <<managerVars, clientVars>>
ClientStep(s) == Ask(s) \/ CallStart(s) \/ CallOpen(s)

Next ==
  \/ ManagerStep \/ AskRemoval \/ CallbackStep
  \/ \E c \in Connectors : ConnectorStep(c) \/ SessionStep(c) \/ Events(c)
  \/ \E s \in Streams : ClientStep(s) \/ CallClose(s)

Spec == Init /\ [][Next]_vars

\* Queues run and clients go on; nothing has to fail, answer or close.
FairSpec ==
  /\ Spec
  /\ WF_vars(ManagerStep) /\ WF_vars(CallbackStep)
  /\ \A c \in Connectors : WF_vars(ConnectorStep(c)) /\ WF_vars(SessionStep(c))
  /\ \A s \in Streams : WF_vars(ClientStep(s))

-----------------------------------------------------------------------------
(* Properties                                                              *)

\* The manager's variables have their types.
TypeOK ==
  /\ ConnectorTypeOK
  /\ directory \in Connectors \cup {None}
  /\ dropped \subseteq created /\ created \subseteq Connectors
  /\ pc \in [Streams -> Steps] /\ of \in [Streams -> Connectors \cup {None}]

\* A handler is never forgotten: once it was told of its connection it stays registered
\* until it is told of its end or its client closes it, however the session ends.  Only
\* removeConnector, whose stop() resets the streams first, leaves handlers untold.
NoneForgotten ==
  \A s \in Streams :
    "connect" \in told[s] /\ "disconnect" \notin told[s] /\ pc[s] # "closed"
      => s \in con[of[s]].streams \/ of[s] \in dropped

\* A connector whose session has ended does not stay in the directory ("connectors are
\* recycled when they stop"): its removal is always under way.
Recycled ==
  directory # None /\ session[directory] = "stopped" =>
    StopUnderWay(directory) \/ [op |-> "recycle", con |-> directory] \in Range(mgrQ)

\* One connector per endpoint: two are never running.
OnePerEndpoint == Cardinality({c \in Connectors : session[c] = "running"}) <= 1

\* A stream that was opened has its SYN sent, or its handler is told, or is closed.
OpenIsServed ==
  \A s \in Streams :
    pc[s] = "reading" ~> told[s] # {} \/ pc[s] = "closed"

=============================================================================

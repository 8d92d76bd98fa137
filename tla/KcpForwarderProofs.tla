------------------------- MODULE KcpForwarderProofs -------------------------
(***************************************************************************)
(* Proofs about the forwarder, for any number of starts, stops, messages   *)
(* and datagrams.                                                          *)
(***************************************************************************)
EXTENDS KcpUdpForwarder, TLAPS

-----------------------------------------------------------------------------
(* The inductive invariant                                                 *)

Jobs == {Message, StopCall, Ended}
Fields == [started : BOOLEAN, stopped : BOOLEAN, fd : BOOLEAN, source : BOOLEAN,
           peer : Addrs \cup {None}]

\* TypeOK, and the queues are sequences.
TInv ==
  /\ wgEndpoint \in Addrs \cup {None}
  /\ fwd \in Fields /\ ~ (fwd.started /\ fwd.stopped)
  /\ queue \in Seq(Jobs) /\ socket \in Seq(Addrs)
  /\ session \in {"idle", "running", "stopped"}
  /\ stopping \in BOOLEAN /\ told \in BOOLEAN /\ leaky \in BOOLEAN /\ dropped \in BOOLEAN

EndComes == \E i \in 1 .. Len(queue) : queue[i] = Ended

\* UpIsServed, with the place of the report.
Served == fwd.started => fwd.fd /\ fwd.source /\ (session = "running" \/ EndComes)

\* Whenever there is a socket there is a target for what comes back.
Targeted == wgEndpoint # None => (fwd.fd => fwd.peer # None) /\ ~ dropped

IInv == TInv /\ Served /\ NoOrphanSession /\ Released /\ Targeted

-----------------------------------------------------------------------------
(* Queues                                                                  *)

\* The kinds of jobs are told apart by op.
LEMMA JobKinds ==
  /\ Message \in Jobs /\ StopCall \in Jobs /\ Ended \in Jobs
  /\ Message # Ended /\ StopCall # Ended
<1>1. Message.op # Ended.op /\ StopCall.op # Ended.op
  BY DEF Message, StopCall, Ended
<1>2. QED
  BY <1>1 DEF Jobs

\* A job that is taken is none of those that still wait.
LEMMA TakeKeeps ==
  ASSUME TInv, NEW job \in Jobs, Take(job)
  PROVE  /\ queue' \in Seq(Jobs)
         /\ job # Ended /\ EndComes => EndComes'
<1>1. queue # <<>> /\ queue \in Seq(Jobs) /\ queue' = Tail(queue) /\ queue[1] = job
  BY DEF Take, TInv
<1>2. Tail(queue) \in Seq(Jobs) /\ Len(queue) \in Nat /\ Len(Tail(queue)) = Len(queue) - 1
      /\ \A i \in 1 .. Len(Tail(queue)) : Tail(queue)[i] = queue[i + 1]
  BY <1>1
<1>3. ASSUME job # Ended, NEW i \in 1 .. Len(queue), queue[i] = Ended
      PROVE  EndComes'
  <2>1. i # 1 /\ i - 1 \in 1 .. Len(Tail(queue))
    BY <1>1, <1>2, <1>3
  <2>2. Tail(queue)[i - 1] = Ended
    BY <1>2, <1>3, <2>1
  <2>3. QED
    BY <1>1, <2>1, <2>2 DEF EndComes
<1>4. QED
  BY <1>1, <1>2, <1>3 DEF EndComes

\* A job that is appended joins those that wait.
LEMMA AppendKeeps ==
  ASSUME TInv, NEW job \in Jobs, queue' = Append(queue, job)
  PROVE  /\ queue' \in Seq(Jobs)
         /\ EndComes \/ job = Ended => EndComes'
<1>1. /\ Append(queue, job) \in Seq(Jobs) /\ Len(queue) \in Nat
      /\ Len(Append(queue, job)) = Len(queue) + 1
      /\ \A i \in 1 .. Len(queue) : Append(queue, job)[i] = queue[i]
      /\ Append(queue, job)[Len(queue) + 1] = job
  BY DEF TInv
<1>2. ASSUME EndComes PROVE EndComes'
  BY <1>1, <1>2 DEF EndComes
<1>3. ASSUME job = Ended PROVE EndComes'
  <2>1. Len(queue) + 1 \in 1 .. Len(queue') /\ queue'[Len(queue) + 1] = Ended
    BY <1>1, <1>3
  <2>2. QED
    BY <2>1 DEF EndComes
<1>4. QED
  BY <1>1, <1>2, <1>3

\* An empty queue.
LEMMA EmptyQueue == ASSUME NEW S PROVE <<>> \in Seq(S)
OBVIOUS

\* The elements of a queue, as a range and by place.
LEMMA RangeIs ==
  ASSUME NEW S, NEW s \in Seq(S)
  PROVE  Range(s) \subseteq S /\ \A x : x \in Range(s) <=> \E i \in 1 .. Len(s) : s[i] = x
BY DEF Range

-----------------------------------------------------------------------------
(* The steps                                                               *)

\* shutdown of a forwarder in a state f that holds a socket as fwd does, or that a start
\* has just opened, leaves one that is down and holds nothing, or holds what it held.
LEMMA ShutdownLeaves ==
  ASSUME NEW f \in Fields, Shutdown(f), stopping \in BOOLEAN
  PROVE  /\ fwd' \in Fields /\ stopping' \in BOOLEAN
         /\ fwd'.peer = f.peer
         /\ f.stopped => fwd' = f /\ stopping' = stopping
         /\ ~ f.stopped => ~ fwd'.started /\ ~ fwd'.fd /\ ~ fwd'.source /\ stopping'
         /\ stopping => stopping'
BY DEF Shutdown, Fields

\* A block that shuts the forwarder down, after it may have set the target.
LEMMA ShutdownKeeps ==
  ASSUME IInv, NEW f \in Fields, Shutdown(f),
         f.started = fwd.started, f.stopped = fwd.stopped, f.fd = fwd.fd, f.source = fwd.source,
         fwd.peer # None => f.peer # None,
         UNCHANGED <<wgEndpoint, session, leaky, dropped>>,
         told' \in BOOLEAN, queue' \in Seq(Jobs), socket' \in Seq(Addrs)
  PROVE  IInv'
<1>1. TInv'
  BY ShutdownLeaves DEF IInv, TInv
<1>2. Served'
  BY ShutdownLeaves DEF IInv, TInv, Served
<1>3. NoOrphanSession'
  BY ShutdownLeaves DEF IInv, TInv, NoOrphanSession
<1>4. Released'
  BY ShutdownLeaves DEF IInv, TInv, Released
<1>5. Targeted'
  BY ShutdownLeaves DEF IInv, TInv, Targeted
<1>6. QED
  BY <1>1, <1>2, <1>3, <1>4, <1>5 DEF IInv

\* A step that leaves the forwarder and its session as they are and forgets no report.
LEMMA QuietKeeps ==
  ASSUME IInv, UNCHANGED <<wgEndpoint, fwd, session, stopping, told, leaky>>,
         queue' \in Seq(Jobs), EndComes => EndComes', socket' \in Seq(Addrs),
         dropped' \in BOOLEAN, wgEndpoint # None => ~ dropped'
  PROVE  IInv'
BY DEF IInv, TInv, Served, NoOrphanSession, Released, Targeted

\* What the socket and the source of a start look like.
LEMMA OpenedIs ==
  ASSUME IInv, NEW f \in Opened
  PROVE  /\ f \in Fields /\ f.fd /\ f.source
         /\ f.started = fwd.started /\ f.stopped = fwd.stopped
         /\ wgEndpoint # None => f.peer # None
BY DEF IInv, TInv, Fields, Opened

\* A start brings up the socket and the session.
LEMMA StartSucceedsKeeps == IInv /\ StartSucceeds => IInv'
<1> SUFFICES ASSUME IInv, StartSucceeds PROVE IInv'
  OBVIOUS
<1>1. PICK f \in Opened : fwd' = Up(f)
  BY DEF StartSucceeds
<1>2. f \in Fields /\ f.fd /\ f.source /\ (wgEndpoint # None => f.peer # None)
  BY OpenedIs
<1>3. /\ fwd' \in Fields /\ fwd'.started /\ ~ fwd'.stopped
      /\ fwd'.fd /\ fwd'.source /\ fwd'.peer = f.peer
  BY <1>1, <1>2 DEF Up, Fields
<1>4. socket' \in Seq(Addrs) /\ queue' \in Seq(Jobs)
  BY EmptyQueue DEF StartSucceeds, IInv, TInv
<1>5. TInv'
  BY <1>3, <1>4 DEF StartSucceeds, IInv, TInv
<1>6. QED
  BY <1>2, <1>3, <1>5 DEF StartSucceeds, IInv, Served, NoOrphanSession, Released, Targeted

\* A start that fails leaves no session, and its socket only if it was stopped before.
LEMMA StartSessionFailsKeeps == IInv /\ StartSessionFails => IInv'
<1> SUFFICES ASSUME IInv, StartSessionFails PROVE IInv'
  OBVIOUS
<1>1. PICK f \in Opened : Shutdown(f)
  BY DEF StartSessionFails
<1>2. /\ f \in Fields /\ ~ f.started /\ f.stopped = fwd.stopped
      /\ wgEndpoint # None => f.peer # None
  BY OpenedIs DEF StartSessionFails, MayStart
<1>3. stopping \in BOOLEAN /\ session # "running"
  BY DEF IInv, TInv, StartSessionFails, MayStart, NoOrphanSession
<1>4. /\ fwd' \in Fields /\ stopping' \in BOOLEAN /\ ~ fwd'.started
      /\ fwd'.peer = f.peer
      /\ fwd'.fd \/ fwd'.source => fwd.stopped
  BY <1>1, <1>2, <1>3, ShutdownLeaves
<1>5. TInv'
  BY <1>4 DEF StartSessionFails, IInv, TInv
<1>6. QED
  BY <1>2, <1>3, <1>4, <1>5
     DEF StartSessionFails, IInv, Served, NoOrphanSession, Released, Targeted

\* The end of the session is reported.
LEMMA SessionShutdownKeeps ==
  ASSUME IInv, SessionShutdown, stopping' \in BOOLEAN,
         UNCHANGED <<wgEndpoint, fwd, socket, told, leaky, dropped>>
  PROVE  IInv'
<1>1. queue' \in Seq(Jobs) /\ EndComes'
  BY JobKinds, AppendKeeps DEF SessionShutdown, IInv
<1>2. QED
  BY <1>1 DEF SessionShutdown, IInv, TInv, Served, NoOrphanSession, Released, Targeted

-----------------------------------------------------------------------------
(* The theorems                                                            *)

\* A forwarder that was never started satisfies the invariant.
THEOREM ForwarderInit == Init => IInv
<1> SUFFICES ASSUME Init PROVE IInv
  OBVIOUS
<1>1. queue \in Seq(Jobs) /\ socket \in Seq(Addrs)
  BY EmptyQueue DEF Init
<1>2. fwd \in Fields /\ ~ fwd.started /\ ~ fwd.fd /\ ~ fwd.source
  BY DEF Init, Fields
<1>3. TInv
  BY <1>1, <1>2 DEF Init, TInv
<1>4. QED
  BY <1>2, <1>3 DEF Init, IInv, Served, NoOrphanSession, Released, Targeted

\* Every block of the queue, every call and every event of the session preserves it.
THEOREM ForwarderStep == IInv /\ [Next]_vars => IInv'
<1> SUFFICES ASSUME IInv, [Next]_vars PROVE IInv'
  OBVIOUS
<1>0. /\ TInv /\ fwd \in Fields /\ queue \in Seq(Jobs) /\ socket \in Seq(Addrs)
      /\ wgEndpoint # None => ~ dropped
  BY DEF IInv, TInv, Targeted
<1>1. CASE StartSucceeds
  BY <1>1, StartSucceedsKeeps
<1>2. CASE StartSessionFails
  BY <1>2, StartSessionFailsKeeps
<1>3. CASE StartBindFails
  <2>1. UNCHANGED <<wgEndpoint, fwd, queue, session, stopping, socket, told, leaky, dropped>>
    BY <1>3 DEF StartBindFails, sessionVars, history
  <2>2. QED
    BY <2>1, <1>0, QuietKeeps DEF EndComes, TInv
<1>4. CASE Stop
  <2>1. queue' \in Seq(Jobs) /\ (EndComes => EndComes')
    BY <1>0, <1>4, JobKinds, AppendKeeps DEF Stop
  <2>2. QED
    BY <2>1, <1>0, <1>4, QuietKeeps DEF Stop, sessionVars, history, TInv
<1>5. CASE HandleStop
  <2>1. queue' \in Seq(Jobs)
    BY <1>0, <1>5, JobKinds, TakeKeeps DEF HandleStop
  <2>2. told' \in BOOLEAN
    BY <1>0, <1>5 DEF HandleStop, Notify, TInv, Fields
  <2>3. QED
    BY <2>1, <2>2, <1>0, <1>5, ShutdownKeeps DEF HandleStop
<1>6. CASE SessionEnded
  <2>1. queue' \in Seq(Jobs)
    BY <1>0, <1>6, JobKinds, TakeKeeps DEF SessionEnded
  <2>2. told' \in BOOLEAN
    BY <1>0, <1>6 DEF SessionEnded, Notify, TInv, Fields
  <2>3. QED
    BY <2>1, <2>2, <1>0, <1>6, ShutdownKeeps DEF SessionEnded
<1>7. CASE ForwardToWireGuard
  <2>1. queue' \in Seq(Jobs) /\ (EndComes => EndComes')
    BY <1>0, <1>7, JobKinds, TakeKeeps DEF ForwardToWireGuard
  <2>2. dropped' \in BOOLEAN /\ (wgEndpoint # None => ~ dropped')
    BY <1>0, <1>7 DEF ForwardToWireGuard, IInv, TInv, Targeted, Fields
  <2>3. QED
    BY <2>1, <2>2, <1>0, <1>7, QuietKeeps DEF ForwardToWireGuard, sessionVars
<1>8. CASE HandleLocalReadable
  <2>1. socket[Len(socket)] \in Addrs
    BY <1>0, <1>8 DEF HandleLocalReadable
  <2>2. /\ fwd' \in Fields /\ fwd'.peer # None
        /\ fwd'.started = fwd.started /\ fwd'.stopped = fwd.stopped
        /\ fwd'.fd = fwd.fd /\ fwd'.source = fwd.source
    BY <2>1, <1>0, <1>8, ForwarderAssumption DEF HandleLocalReadable, Fields
  <2>3. QED
    BY <2>2, <1>8 DEF HandleLocalReadable, sessionVars, history, EndComes,
         IInv, TInv, Served, NoOrphanSession, Released, Targeted
<1>9. CASE LocalError
  <2>1. PICK n \in 0 .. Len(socket) :
          Shutdown([fwd EXCEPT !.peer = IF n = 0 THEN @ ELSE socket[n]])
    BY <1>9 DEF LocalError
  <2> DEFINE f == [fwd EXCEPT !.peer = IF n = 0 THEN @ ELSE socket[n]]
  <2>2. n # 0 => socket[n] \in Addrs
    BY <1>0
  <2>3. /\ f \in Fields
        /\ f.started = fwd.started /\ f.stopped = fwd.stopped
        /\ f.fd = fwd.fd /\ f.source = fwd.source
        /\ fwd.peer # None => f.peer # None
    BY <2>2, <1>0, ForwarderAssumption DEF Fields
  <2>4. told' \in BOOLEAN /\ queue' \in Seq(Jobs) /\ socket' \in Seq(Addrs)
    BY <1>0, <1>9 DEF LocalError, Notify, TInv, Fields
  <2> HIDE DEF f
  <2>5. Shutdown(f)
    BY <2>1 DEF f
  <2>6. QED
    BY <2>3, <2>4, <2>5, <1>9, ShutdownKeeps DEF LocalError
<1>10. CASE SessionStop
  <2>1. stopping' \in BOOLEAN
    BY <1>10 DEF SessionStop
  <2>2. CASE session = "stopped"
    BY <2>1, <2>2, <1>10 DEF SessionStop, history, EndComes,
         IInv, TInv, Served, NoOrphanSession, Released, Targeted
  <2>3. CASE session # "stopped"
    BY <2>1, <2>3, <1>10, SessionShutdownKeeps DEF SessionStop, history
  <2>4. QED
    BY <2>2, <2>3
<1>11. CASE SessionFails
  BY <1>0, <1>11, SessionShutdownKeeps DEF SessionFails, history, TInv
<1>12. CASE SessionReads
  <2>1. queue' \in Seq(Jobs) /\ (EndComes => EndComes')
    BY <1>0, <1>12, JobKinds, AppendKeeps DEF SessionReads
  <2>2. QED
    BY <2>1, <1>0, <1>12, QuietKeeps DEF SessionReads, sessionVars, history, TInv
<1>13. ASSUME NEW a \in Addrs, Datagram(a) PROVE IInv'
  <2>1. socket' \in Seq(Addrs)
    BY <1>0, <1>13 DEF Datagram
  <2>2. UNCHANGED <<wgEndpoint, fwd, queue, session, stopping, told, leaky, dropped>>
    BY <1>13 DEF Datagram, sessionVars, history
  <2>3. QED
    BY <2>1, <2>2, <1>0, QuietKeeps DEF EndComes, TInv
<1>14. CASE UNCHANGED vars
  <2>1. UNCHANGED <<wgEndpoint, fwd, queue, session, stopping, socket, told, leaky, dropped>>
    BY <1>14 DEF vars, sessionVars, history
  <2>2. QED
    BY <2>1, <1>0, QuietKeeps DEF EndComes, TInv
<1>15. QED
  BY <1>1, <1>2, <1>3, <1>4, <1>5, <1>6, <1>7, <1>8, <1>9, <1>10, <1>11, <1>12, <1>13, <1>14
     DEF Next, Queue

\* The invariant holds in every behaviour.
THEOREM ForwarderInvariance == Spec => []IInv
BY ForwarderInit, ForwarderStep, PTL DEF Spec

\* The fields of the forwarder keep their types and it is never started and stopped.
THEOREM ForwarderTypes == Spec => []TypeOK
<1>1. IInv => TypeOK
  BY RangeIs DEF IInv, TInv, TypeOK, Fields, Jobs
<1>2. QED
  BY <1>1, ForwarderInvariance, PTL

\* A forwarder that is up has its socket and a session that runs, or hears of its end.
THEOREM UpMeansServed == Spec => []UpIsServed
<1>1. IInv => UpIsServed
  BY RangeIs DEF IInv, TInv, Served, EndComes, UpIsServed
<1>2. QED
  BY <1>1, ForwarderInvariance, PTL

\* A forwarder that is down leaves no session that nobody will stop.
THEOREM SessionNeverOrphaned == Spec => []NoOrphanSession
<1>1. IInv => NoOrphanSession
  BY DEF IInv
<1>2. QED
  BY <1>1, ForwarderInvariance, PTL

\* A forwarder that is down holds no socket, but for a failed start after a stop.
THEOREM DownMeansReleased == Spec => []Released
<1>1. IInv => Released
  BY DEF IInv
<1>2. QED
  BY <1>1, ForwarderInvariance, PTL

\* With a WG endpoint that resolves the first message finds its target.
THEOREM FirstIsDelivered == Spec => []DeliversFirst
<1>1. IInv => DeliversFirst
  BY DEF IInv, Targeted, DeliversFirst
<1>2. QED
  BY <1>1, ForwarderInvariance, PTL

=============================================================================

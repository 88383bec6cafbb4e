--------------------------- MODULE HttpServerProofs ---------------------------
(***************************************************************************)
(* Theorems about HttpServer.tla: the state of the server is what its      *)
(* members say, and no thread of a connection is ever without somebody who *)
(* will join it, for any number of connections and of callers of stop.     *)
(***************************************************************************)
EXTENDS HttpServer, TLAPS

IInv == TypeOK /\ NoThreadAbandoned

-----------------------------------------------------------------------------
(* The moves of a pc and of a connection. *)

LEMMA GotoKeepsType ==
    ASSUME TypeOK, NEW t \in Threads, NEW from, NEW to, Goto(t, from, to),
           t = Listener => to \in ListenPcs,
           t \in Stoppers => to \in StopPcs
    PROVE  /\ pc' \in [Threads -> ListenPcs \cup StopPcs]
           /\ pc'[Listener] \in ListenPcs
           /\ \A u \in Stoppers : pc'[u] \in StopPcs
           /\ pc'[t] = to
           /\ \A u \in Threads \ {t} : pc'[u] = pc[u]
  BY ServerAssumption DEF TypeOK, Goto, Threads

LEMMA MoveKeepsType ==
    ASSUME TypeOK, NEW c \in Connections, NEW from, NEW to, Move(c, from, to),
           to \in {"absent", "backlog", "accepted", "ended"} \cup Alive,
           from # "bridging", to # "bridging", activeBridges' = activeBridges
    PROVE  /\ connections' \in
                 [Connections -> {"absent", "backlog", "accepted", "ended"} \cup Alive]
           /\ activeBridges' = {d \in Connections : connections'[d] = "bridging"}
           /\ connections'[c] = to
           /\ \A d \in Connections \ {c} : connections'[d] = connections[d]
  BY DEF TypeOK, Move

\* A thread whose pc goes on without leaving the part of the code it is in
\* abandons nobody.
LEMMA NobodyNew ==
    ASSUME TypeOK, NoThreadAbandoned,
           \A c \in Connections : connections'[c] \in Alive => connections[c] \in Alive,
           UNCHANGED <<threads, connectionThreads>>,
           \A t \in Threads : pc[t] = "join_threads" => pc'[t] = "join_threads",
           pc[Listener] \in {"loop", "accept", "spawn", "swap"} =>
               pc'[Listener] \in {"loop", "accept", "spawn", "swap"}
    PROVE  NoThreadAbandoned'
  BY DEF NoThreadAbandoned

-----------------------------------------------------------------------------
LEMMA InitHolds == Init => IInv
<1> SUFFICES ASSUME Init PROVE IInv
  OBVIOUS
<1>1. TypeOK
  BY ServerAssumption DEF Init, TypeOK, Threads, ListenPcs, StopPcs, Directions
<1>2. NoThreadAbandoned
  BY DEF Init, NoThreadAbandoned, Alive
<1> QED
  BY <1>1, <1>2 DEF IInv

\* The listener's steps, up to the end of its loop.
LEMMA ListenKeepsIInv == IInv /\ Listen => IInv'
<1> SUFFICES ASSUME IInv, Listen PROVE IInv'
  OBVIOUS
<1> USE DEF IInv
<1>0. Listener \in Threads /\ Listener \notin Stoppers
  BY ServerAssumption DEF Threads
<1>1. CASE Bind \/ BindFails \/ StartInternalServer \/ Waited \/ Publish \/ Loop
           \/ AcceptNothing \/ AcceptAborted
  <2>1. PICK from, to : /\ Goto(Listener, from, to)
                        /\ to \in ListenPcs
                        /\ from # "join_threads"
                        /\ from \in {"loop", "accept", "spawn", "swap"} =>
                               to \in {"loop", "accept", "spawn", "swap"}
    <3>1. CASE Loop
      BY <3>1 DEF Loop, ListenPcs, Joining, Ends
    <3>2. CASE ~Loop
      BY <1>1, <3>2 DEF Bind, BindFails, StartInternalServer, Waited, Publish, AcceptNothing,
             AcceptAborted, ListenPcs, Joining, Ends
    <3> QED
      BY <3>1, <3>2
  <2>2. UNCHANGED <<bridges, threads, connectionVars, handling>>
    BY <1>1 DEF Bind, BindFails, StartInternalServer, Waited, Publish, Loop, AcceptNothing,
           AcceptAborted, OnlyPcChanges, localVars, connectionVars, internalVars, callVars
  <2>3. /\ stopping' \in BOOLEAN
        /\ acceptor' \in {"none", "open", "closed"}
        /\ internal' \in {"none", "starting", "running", "stopping", "ended"}
        /\ internalThread' \in {"none", "joinable", "joined"}
    BY <1>1 DEF Bind, BindFails, StartInternalServer, Waited, Publish, Loop, AcceptNothing,
           AcceptAborted, OnlyPcChanges, serverVars, internalVars, TypeOK
  <2>4. /\ pc' \in [Threads -> ListenPcs \cup StopPcs]
        /\ pc'[Listener] \in ListenPcs
        /\ \A u \in Stoppers : pc'[u] \in StopPcs
        /\ pc'[Listener] = to
        /\ \A u \in Threads \ {Listener} : pc'[u] = pc[u]
    BY <1>0, <2>1, GotoKeepsType
  <2>5. TypeOK'
    BY <2>2, <2>3, <2>4 DEF TypeOK, connectionVars, bridgeVars
  <2>6. NoThreadAbandoned'
    BY <2>1, <2>2, <2>4, NobodyNew DEF connectionVars, Goto
  <2> QED
    BY <2>5, <2>6
<1>2. ASSUME NEW c \in Connections, Accept(c) PROVE IInv'
  <2>1. /\ pc' \in [Threads -> ListenPcs \cup StopPcs]
        /\ pc'[Listener] \in ListenPcs
        /\ \A u \in Stoppers : pc'[u] \in StopPcs
        /\ pc'[Listener] = "spawn"
        /\ \A u \in Threads \ {Listener} : pc'[u] = pc[u]
    BY <1>0, <1>2, GotoKeepsType DEF Accept, ListenPcs
  <2>2. activeBridges' = activeBridges
    BY <1>2 DEF Accept, bridgeVars
  <2>3. /\ connections' \in
              [Connections -> {"absent", "backlog", "accepted", "ended"} \cup Alive]
        /\ activeBridges' = {d \in Connections : connections'[d] = "bridging"}
        /\ connections'[c] = "accepted"
        /\ \A d \in Connections \ {c} : connections'[d] = connections[d]
    BY <1>2, <2>2, MoveKeepsType DEF Accept
  <2>4. TypeOK'
    BY <1>2, <2>1, <2>3 DEF Accept, TypeOK, serverVars, localVars, bridgeVars, internalVars
  <2>5. NoThreadAbandoned'
    BY <1>2, <2>1, <2>3, NobodyNew DEF Accept, Goto, localVars, Alive
  <2> QED
    BY <2>4, <2>5
<1>3. ASSUME NEW c \in Connections, Spawn(c) PROVE IInv'
  <2>1. /\ pc' \in [Threads -> ListenPcs \cup StopPcs]
        /\ pc'[Listener] \in ListenPcs
        /\ \A u \in Stoppers : pc'[u] \in StopPcs
        /\ pc'[Listener] = "loop"
        /\ \A u \in Threads \ {Listener} : pc'[u] = pc[u]
    BY <1>0, <1>3, GotoKeepsType DEF Spawn, ListenPcs
  <2>2. activeBridges' = activeBridges
    BY <1>3 DEF Spawn, bridgeVars
  <2>3. /\ connections' \in
              [Connections -> {"absent", "backlog", "accepted", "ended"} \cup Alive]
        /\ activeBridges' = {d \in Connections : connections'[d] = "bridging"}
        /\ connections'[c] = "reading"
        /\ \A d \in Connections \ {c} : connections'[d] = connections[d]
    BY <1>3, <2>2, MoveKeepsType DEF Spawn, Alive
  <2>4. TypeOK'
    BY <1>3, <2>1, <2>3 DEF Spawn, TypeOK, serverVars, localVars, bridgeVars, internalVars
  <2>5. pc[Listener] = "spawn" /\ threads' = threads /\ connectionThreads' = connectionThreads \cup {c}
    BY <1>3 DEF Spawn, Goto, localVars
  <2>6. NoThreadAbandoned'
    BY <1>0, <2>1, <2>3, <2>5 DEF NoThreadAbandoned
  <2> QED
    BY <2>4, <2>6
<1> QED
  BY <1>1, <1>2, <1>3 DEF Listen

\* join_connection_threads and stop_internal_server, in either caller. A swap
\* takes over whoever is in connection_threads_; nobody is dropped before its
\* thread has ended.
LEMMA JoinKeepsIInv == ASSUME IInv, NEW t \in Threads, Join(t) PROVE IInv'
<1> USE DEF IInv
<1>1. Joining \subseteq ListenPcs /\ Joining \subseteq StopPcs
  BY DEF ListenPcs, StopPcs
<1>2. PICK from, to : Goto(t, from, to) /\ to \in Joining
  BY DEF Join, SwapThreads, JoinThreads, CheckJoinable, JoinInternalThread, JoinTwice, Joining, Ends
<1>3. /\ pc' \in [Threads -> ListenPcs \cup StopPcs]
      /\ pc'[Listener] \in ListenPcs
      /\ \A u \in Stoppers : pc'[u] \in StopPcs
      /\ pc'[t] = to
      /\ \A u \in Threads \ {t} : pc'[u] = pc[u]
  BY <1>1, <1>2, GotoKeepsType
<1>4. UNCHANGED <<serverVars, bridges, connections, bridgeVars, internal, handling>>
  BY DEF Join, SwapThreads, JoinThreads, CheckJoinable, JoinInternalThread, JoinTwice,
         OnlyPcChanges, localVars, connectionVars, internalVars
<1>5. CASE SwapThreads(t)
  <2>1. /\ pc[t] = "swap" /\ pc'[t] = "join_threads"
        /\ threads' = [threads EXCEPT ![t] = connectionThreads]
        /\ connectionThreads' = {}
        /\ UNCHANGED internalVars
    BY <1>5 DEF SwapThreads, Goto, TypeOK
  <2>2. TypeOK'
    BY <1>3, <1>4, <2>1 DEF TypeOK, serverVars, bridgeVars, internalVars
  <2>3. ASSUME NEW c \in Connections, connections'[c] \in Alive
        PROVE  \E u \in Threads : c \in threads'[u] /\ pc'[u] = "join_threads"
    <3>1. connections[c] \in Alive
      BY <1>4, <2>3
    <3>2. CASE c \in connectionThreads
      BY <2>1, <3>2 DEF TypeOK
    <3>3. CASE c \notin connectionThreads
      <4>1. PICK u \in Threads : c \in threads[u] /\ pc[u] = "join_threads"
        BY <3>1, <3>3 DEF NoThreadAbandoned
      <4>2. u # t
        BY <2>1, <4>1
      <4> QED
        BY <1>3, <2>1, <4>1, <4>2 DEF TypeOK
    <3> QED
      BY <3>2, <3>3
  <2> QED
    BY <2>2, <2>3 DEF NoThreadAbandoned
<1>6. CASE JoinThreads(t)
  <2>1. /\ pc[t] = "join_threads"
        /\ \A c \in threads[t] : connections[c] = "ended"
        /\ threads' = [threads EXCEPT ![t] = {}]
        /\ UNCHANGED <<connectionThreads, internalVars>>
    BY <1>6 DEF JoinThreads, Goto, connectionVars
  <2>2. TypeOK'
    BY <1>3, <1>4, <2>1 DEF TypeOK, serverVars, bridgeVars, internalVars
  <2>3. ASSUME NEW c \in Connections, connections'[c] \in Alive
        PROVE  \/ c \in connectionThreads' /\ pc'[Listener] \in {"loop", "accept", "spawn", "swap"}
               \/ \E u \in Threads : c \in threads'[u] /\ pc'[u] = "join_threads"
    <3>1. connections[c] \in Alive
      BY <1>4, <2>3
    <3>2. CASE c \in connectionThreads /\ pc[Listener] \in {"loop", "accept", "spawn", "swap"}
      BY <1>3, <2>1, <3>2 DEF Threads
    <3>3. ASSUME NEW u \in Threads, c \in threads[u], pc[u] = "join_threads"
          PROVE  \E v \in Threads : c \in threads'[v] /\ pc'[v] = "join_threads"
      <4>1. u # t
        BY <2>1, <3>1, <3>3 DEF Alive
      <4> QED
        BY <1>3, <2>1, <3>3, <4>1 DEF TypeOK
    <3> QED
      BY <3>1, <3>2, <3>3 DEF NoThreadAbandoned
  <2> QED
    BY <2>2, <2>3 DEF NoThreadAbandoned
<1>7. CASE CheckJoinable(t) \/ JoinInternalThread(t) \/ JoinTwice(t)
  <2>1. pc[t] \in {"check", "join"} /\ UNCHANGED <<threads, connectionThreads>>
    BY <1>7 DEF CheckJoinable, JoinInternalThread, JoinTwice, Goto, OnlyPcChanges, localVars,
           connectionVars
  <2>2. internalThread' \in {"none", "joinable", "joined"}
    BY <1>7 DEF CheckJoinable, JoinInternalThread, JoinTwice, OnlyPcChanges, internalVars, TypeOK
  <2>3. TypeOK'
    BY <1>3, <1>4, <2>1, <2>2 DEF TypeOK, serverVars, bridgeVars
  <2>4. NoThreadAbandoned'
    BY <1>3, <1>4, <2>1, NobodyNew DEF Threads
  <2> QED
    BY <2>3, <2>4
<1> QED
  BY <1>5, <1>6, <1>7 DEF Join

\* stop, up to its joins: no thread is entered and none taken out.
LEMMA StopKeepsIInv ==
    ASSUME IInv, NEW t \in Stoppers, StopAgain(t) \/ StopBegin(t) \/ Stop(t) PROVE IInv'
<1> USE DEF IInv
<1>0. t \in Threads /\ t # Listener
  BY ServerAssumption DEF Threads
<1>1. CASE \E c \in Connections : CloseBridge(t, c)
  <2> PICK c \in Connections : CloseBridge(t, c)
    BY <1>1
  <2>1. TypeOK'
    BY <1>0 DEF CloseBridge, TypeOK, serverVars, internalVars
  <2>2. NoThreadAbandoned'
    BY NobodyNew DEF CloseBridge
  <2> QED
    BY <2>1, <2>2
<1>2. CASE StopAgain(t) \/ StopBegin(t) \/ StopInternalServer(t) \/ CloseAcceptor(t)
           \/ Snapshot(t) \/ BridgesClosed(t)
  <2>1. PICK from, to : Goto(t, from, to) /\ to \in StopPcs /\ from # "join_threads"
    BY <1>2 DEF StopAgain, StopBegin, StopInternalServer, CloseAcceptor, Snapshot, BridgesClosed,
           StopPcs, Joining, Ends
  <2>2. UNCHANGED <<threads, connectionVars, internalThread, handling>>
    BY <1>2 DEF StopAgain, StopBegin, StopInternalServer, CloseAcceptor, Snapshot, BridgesClosed,
           OnlyPcChanges, localVars, internalVars
  <2>3. /\ stopping' \in BOOLEAN
        /\ acceptor' \in {"none", "open", "closed"}
        /\ internal' \in {"none", "starting", "running", "stopping", "ended"}
    BY <1>2 DEF StopAgain, StopBegin, StopInternalServer, CloseAcceptor, Snapshot, BridgesClosed,
           OnlyPcChanges, serverVars, internalVars, TypeOK
  <2>4. bridges' \in [Threads -> SUBSET Connections]
    BY <1>2 DEF StopAgain, StopBegin, StopInternalServer, CloseAcceptor, Snapshot, BridgesClosed,
           OnlyPcChanges, localVars, TypeOK
  <2>5. /\ pc' \in [Threads -> ListenPcs \cup StopPcs]
        /\ pc'[Listener] \in ListenPcs
        /\ \A u \in Stoppers : pc'[u] \in StopPcs
        /\ pc'[t] = to
        /\ \A u \in Threads \ {t} : pc'[u] = pc[u]
    BY <1>0, <2>1, GotoKeepsType
  <2>6. TypeOK'
    BY <2>2, <2>3, <2>4, <2>5 DEF TypeOK, connectionVars, bridgeVars
  <2>7. NoThreadAbandoned'
    BY <1>0, <2>1, <2>2, <2>5, NobodyNew DEF connectionVars, Goto, Threads
  <2> QED
    BY <2>6, <2>7
<1> QED
  BY <1>1, <1>2 DEF Stop

\* What a connection's thread does: it may end, but it does not begin again.
LEMMA HandleKeepsIInv ==
    ASSUME IInv, NEW c \in Connections, Connect(c) \/ Handle(c) \/ HandlerReturns(c)
    PROVE  IInv'
<1> USE DEF IInv
<1>1. UNCHANGED <<serverVars, callVars, connectionThreads, internal, internalThread>>
  BY DEF Connect, Handle, HandlerReturns, ReadRequest, Forward, ForwardRefused, ProxyAnswered,
         ProxyTimesOut, Attach, Register, Unregister, OnlyConnectionMoves, connectionVars,
         internalVars
<1>2. handling' \subseteq Connections
  BY DEF Connect, Handle, HandlerReturns, ReadRequest, Forward, ForwardRefused, ProxyAnswered,
         ProxyTimesOut, Attach, Register, Unregister, OnlyConnectionMoves, internalVars, TypeOK
<1>3. CASE Register(c)
  <2>1. /\ pumps' \in [Connections -> SUBSET Directions] /\ closed' = closed
        /\ connections' \in
              [Connections -> {"absent", "backlog", "accepted", "ended"} \cup Alive]
        /\ activeBridges' = {d \in Connections : connections'[d] = "bridging"}
    BY <1>3 DEF Register, Move, TypeOK, Alive
  <2>2. \A d \in Connections : connections'[d] \in Alive => connections[d] \in Alive
    BY <1>3 DEF Register, Move, TypeOK, Alive
  <2> QED
    BY <1>1, <1>2, <2>1, <2>2, NobodyNew DEF TypeOK, serverVars, callVars, localVars
<1>4. CASE Unregister(c)
  <2>1. /\ closed' \in [Connections -> BOOLEAN] /\ pumps' = pumps
        /\ connections' \in
              [Connections -> {"absent", "backlog", "accepted", "ended"} \cup Alive]
        /\ activeBridges' = {d \in Connections : connections'[d] = "bridging"}
    BY <1>4 DEF Unregister, Move, TypeOK, Alive
  <2>2. \A d \in Connections : connections'[d] \in Alive => connections[d] \in Alive
    BY <1>4 DEF Unregister, Move, TypeOK, Alive
  <2> QED
    BY <1>1, <1>2, <2>1, <2>2, NobodyNew DEF TypeOK, serverVars, callVars, localVars
<1>5. CASE HandlerReturns(c)
  <2>1. UNCHANGED connectionVars
    BY <1>5 DEF HandlerReturns
  <2> QED
    BY <1>1, <1>2, <2>1, NobodyNew
       DEF TypeOK, serverVars, callVars, localVars, connectionVars, bridgeVars
<1>6. CASE Connect(c) \/ ReadRequest(c) \/ Forward(c) \/ ForwardRefused(c) \/ ProxyAnswered(c)
           \/ ProxyTimesOut(c) \/ Attach(c)
  <2>1. PICK from, to :
            /\ Move(c, from, to)
            /\ to \in {"absent", "backlog", "accepted", "ended"} \cup Alive
            /\ to \in Alive => from \in Alive
            /\ from # "bridging" /\ to # "bridging"
    BY <1>6 DEF Connect, ReadRequest, Forward, ForwardRefused, ProxyAnswered, ProxyTimesOut,
           Attach, Alive
  <2>2. UNCHANGED bridgeVars
    BY <1>6 DEF Connect, ReadRequest, Forward, ForwardRefused, ProxyAnswered, ProxyTimesOut,
           Attach, OnlyConnectionMoves
  <2>3. activeBridges' = activeBridges
    BY <2>2 DEF bridgeVars
  <2>4. /\ connections' \in
              [Connections -> {"absent", "backlog", "accepted", "ended"} \cup Alive]
        /\ activeBridges' = {d \in Connections : connections'[d] = "bridging"}
        /\ connections'[c] = to
        /\ \A d \in Connections \ {c} : connections'[d] = connections[d]
    BY <2>1, <2>3, MoveKeepsType
  <2>5. \A d \in Connections : connections'[d] \in Alive => connections[d] \in Alive
    BY <2>1, <2>4 DEF Move
  <2> QED
    BY <1>1, <1>2, <2>2, <2>4, <2>5, NobodyNew
       DEF TypeOK, serverVars, callVars, localVars, bridgeVars
<1> QED
  BY <1>3, <1>4, <1>5, <1>6 DEF Handle

\* The end of the process leaves nobody to be joined.
LEMMA TerminateKeepsIInv ==
    ASSUME IInv, NEW c \in Connections, UpgradeTargetThrows(c) PROVE IInv'
<1>1. pc' \in [Threads -> ListenPcs \cup StopPcs] /\ \A t \in Threads : pc'[t] = "terminated"
  BY DEF UpgradeTargetThrows, ListenPcs, StopPcs, Joining, Ends
<1>2. Listener \in Threads /\ Stoppers \subseteq Threads
  BY DEF Threads
<1>3. "terminated" \in ListenPcs /\ "terminated" \in StopPcs
  BY DEF ListenPcs, StopPcs, Joining, Ends
<1>4. /\ connections' \in
            [Connections -> {"absent", "backlog", "accepted", "ended"} \cup Alive]
      /\ \A d \in Connections : connections'[d] = "ended"
      /\ activeBridges' = {}
  BY DEF UpgradeTargetThrows
<1>5. TypeOK'
  BY <1>1, <1>2, <1>3, <1>4 DEF UpgradeTargetThrows, IInv, TypeOK
<1>6. NoThreadAbandoned'
  BY <1>4 DEF NoThreadAbandoned, Alive
<1> QED
  BY <1>5, <1>6 DEF IInv

\* Every step of the server keeps the invariant.
THEOREM StepKeepsIInv == IInv /\ [Next]_vars => IInv'
<1> SUFFICES ASSUME IInv, [Next]_vars PROVE IInv'
  OBVIOUS
<1>1. CASE Listen
  BY <1>1, ListenKeepsIInv
<1>2. ASSUME NEW t \in Threads, Join(t) PROVE IInv'
  BY <1>2, JoinKeepsIInv
<1>3. ASSUME NEW t \in Stoppers, StopAgain(t) \/ StopBegin(t) \/ Stop(t) PROVE IInv'
  BY <1>3, StopKeepsIInv
<1>4. ASSUME NEW c \in Connections, Connect(c) \/ Handle(c) \/ HandlerReturns(c) PROVE IInv'
  BY <1>4, HandleKeepsIInv
<1>5. ASSUME NEW c \in Connections, NEW d \in Directions, ForwardEnds(c, d) PROVE IInv'
  <2>1. TypeOK'
    BY <1>5 DEF IInv, ForwardEnds, TypeOK, serverVars, callVars, localVars, internalVars
  <2>2. NoThreadAbandoned'
    BY <1>5, NobodyNew DEF IInv, ForwardEnds, callVars, localVars
  <2> QED
    BY <2>1, <2>2 DEF IInv
<1>6. CASE InternalRuns \/ InternalEnds
  <2>1. TypeOK'
    BY <1>6 DEF IInv, InternalRuns, InternalEnds, TypeOK, serverVars, callVars, localVars,
           connectionVars, bridgeVars
  <2>2. NoThreadAbandoned'
    BY <1>6, NobodyNew DEF IInv, InternalRuns, InternalEnds, callVars, localVars, connectionVars
  <2> QED
    BY <2>1, <2>2 DEF IInv
<1>7. CASE UNCHANGED vars
  BY <1>7 DEF IInv, TypeOK, NoThreadAbandoned, vars, serverVars, callVars, localVars,
         connectionVars, bridgeVars, internalVars
<1>8. ASSUME NEW c \in Connections, UpgradeTargetThrows(c) PROVE IInv'
  BY <1>8, TerminateKeepsIInv
<1> QED
  BY <1>1, <1>2, <1>3, <1>4, <1>5, <1>6, <1>7, <1>8 DEF Next

\* The members of HttpServer::Impl agree: the bridges in active_bridges_ are
\* those whose connection's thread is in run, and each call is where it can be.
THEOREM TypeCorrect == Spec => []TypeOK
<1>1. IInv => TypeOK
  BY DEF IInv
<1> QED
  BY InitHolds, StepKeepsIInv, <1>1, PTL DEF Spec

\* Every running thread of a connection is in connection_threads_ while the
\* listener has its join still before it, or in the hands of a caller that is
\* waiting for it - also one that was accepted while stop went on.
THEOREM ThreadsAreJoined == Spec => []NoThreadAbandoned
<1>1. IInv => NoThreadAbandoned
  BY DEF IInv
<1> QED
  BY InitHolds, StepKeepsIInv, <1>1, PTL DEF Spec

=============================================================================

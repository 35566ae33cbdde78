---------------------------- MODULE ServerProofs ----------------------------
(***************************************************************************)
(* Accept loop and Close of the server: the limit on connections holds     *)
(* although it is checked without the mutex, and Close leaves no           *)
(* connection behind.                                                      *)
(***************************************************************************)
EXTENDS Server, FiniteSetTheorems, TLAPS

USE TransportsAssumption, SetsAssumption, CapsAssumption

-----------------------------------------------------------------------------
(* The invariant *)

\* The parts of TypeOK the accept loop and Close work with.
LifeType ==
    /\ maxConnections \in Nat
    /\ run \in [pc : {"off", "accept", "backoff", "check", "lock", "returned"},
                conn : Conns \union {NoConn}]
    /\ net \in [Conns -> {"none", "offered", "open", "dead", "closed"}]
    /\ connMap \subseteq Conns
    /\ goroutine \in [Conns -> GoroutineStates]
    /\ closer \in {"serving", "shutdown", "listener", "conns", "waiting", "returned"}

\* A connection in the hands of Run or in connMap exists, so that closing it
\* closes it.
HeldInv ==
    /\ \A c \in connMap : net[c] # "none"
    /\ run.pc \in {"check", "lock"} => run.conn \in Conns /\ net[run.conn] # "none"

\* connMap has exactly the connections whose goroutine runs.
ServedInv == \A c \in Conns : c \in connMap <=> goroutine[c] \notin {"none", "done"}

\* Run alone adds to connMap: what it saw below the limit is below the limit when
\* it registers the connection.
RoomInv ==
    maxConnections > 0 =>
        /\ Cardinality(connMap) <= maxConnections
        /\ run.pc = "lock" => Cardinality(connMap) < maxConnections

\* Close has swept connMap, and nothing it has not closed is in it.
SweptInv == closer \in {"conns", "waiting", "returned"} => \A c \in connMap : net[c] = "closed"

\* wg.Wait has returned.
DrainedInv == closer = "returned" => connMap = {}

Inv == LifeType /\ HeldInv /\ ServedInv /\ RoomInv /\ SweptInv /\ DrainedInv

-----------------------------------------------------------------------------
(* What the steps have in common *)

\* No step undoes the dialling or the closing of a connection.
NetGrows ==
    /\ net' \in [Conns -> {"none", "offered", "open", "dead", "closed"}]
    /\ \A c \in Conns : /\ net'[c] = "none" => net[c] = "none"
                        /\ net[c] = "closed" => net'[c] = "closed"

\* A step of a connection's goroutine that is not its last, or of nobody's.
Moves ==
    /\ UNCHANGED <<maxConnections, run, connMap, closer>>
    /\ NetGrows
    /\ goroutine' \in [Conns -> GoroutineStates]
    /\ \A c \in Conns : goroutine'[c] \in {"none", "done"} <=> goroutine[c] \in {"none", "done"}

\* A step of Run that registers nothing.
RunMoves ==
    /\ UNCHANGED <<maxConnections, connMap, goroutine, closer>>
    /\ NetGrows
    /\ run' \in [pc : {"off", "accept", "backoff", "check", "lock", "returned"},
                 conn : Conns \union {NoConn}]
    /\ run'.pc \in {"check", "lock"} => run'.conn \in Conns /\ net'[run'.conn] # "none"
    /\ run'.pc = "lock" /\ maxConnections > 0 => Cardinality(connMap) < maxConnections

\* Closing connections is such a change, and it closes those that exist.
LEMMA ClosedGrows ==
    ASSUME LifeType, NEW cs, net' = Closed(cs)
    PROVE  /\ NetGrows
           /\ \A c \in Conns : c \in cs /\ net[c] # "none" => net'[c] = "closed"
BY Zenon DEF LifeType, Closed, NetGrows

\* connMap is finite: its cardinality is a number, and shrinks with it.
LEMMA ConnMapFinite ==
    ASSUME LifeType
    PROVE  /\ IsFiniteSet(connMap) /\ Cardinality(connMap) \in Nat
           /\ \A T : T \subseteq connMap =>
                 Cardinality(T) \in Nat /\ Cardinality(T) <= Cardinality(connMap)
<1>1. IsFiniteSet(connMap) BY Zenon, FS_Subset DEF LifeType
<1>2. ASSUME NEW T, T \subseteq connMap
      PROVE  Cardinality(T) \in Nat /\ Cardinality(T) <= Cardinality(connMap)
  <2>1. IsFiniteSet(T) /\ Cardinality(T) <= Cardinality(connMap) BY Zenon, <1>1, <1>2, FS_Subset
  <2> QED BY Zenon, <2>1, FS_CardinalityType
<1> QED BY Zenon, <1>1, <1>2, FS_CardinalityType

\* A goroutine that moves on changes nothing Run and Close rely on.
LEMMA MovesInv == Inv /\ Moves => Inv'
<1> SUFFICES ASSUME Inv, Moves PROVE Inv' BY Zenon
<1>1. LifeType' BY Zenon DEF Inv, LifeType, Moves, NetGrows
<1>2. HeldInv' BY Zenon DEF Inv, LifeType, HeldInv, Moves, NetGrows
<1>3. ServedInv' BY Zenon DEF Inv, ServedInv, Moves
<1>4. RoomInv' BY Zenon DEF Inv, RoomInv, Moves
<1>5. SweptInv' BY Zenon DEF Inv, LifeType, SweptInv, Moves, NetGrows
<1>6. DrainedInv' BY Zenon DEF Inv, DrainedInv, Moves
<1> QED BY Zenon, <1>1, <1>2, <1>3, <1>4, <1>5, <1>6 DEF Inv

\* Run may take, check and reject connections.
LEMMA RunMovesInv == Inv /\ RunMoves => Inv'
<1> SUFFICES ASSUME Inv, RunMoves PROVE Inv' BY Zenon
<1>1. LifeType' BY Zenon DEF Inv, LifeType, RunMoves, NetGrows
<1>2. HeldInv' BY Zenon DEF Inv, LifeType, HeldInv, RunMoves, NetGrows
<1>3. ServedInv' BY Zenon DEF Inv, ServedInv, RunMoves
<1>4. RoomInv' BY Zenon DEF Inv, RoomInv, RunMoves
<1>5. SweptInv' BY Zenon DEF Inv, LifeType, SweptInv, RunMoves, NetGrows
<1>6. DrainedInv' BY Zenon DEF Inv, DrainedInv, RunMoves
<1> QED BY Zenon, <1>1, <1>2, <1>3, <1>4, <1>5, <1>6 DEF Inv

\* Run registers a connection, before any shutdown and with room under the limit.
LEMMA RegistersInv == Inv /\ run.pc = "lock" /\ ~Shutdown /\ Registers => Inv'
<1> SUFFICES ASSUME Inv, run.pc = "lock", ~Shutdown, Registers PROVE Inv' BY Zenon
<1>0. run.conn \in Conns /\ net[run.conn] # "none" BY Zenon DEF Inv, HeldInv
<1>1. LifeType' BY Zenon, <1>0 DEF Inv, LifeType, Registers, config, GoroutineStates
<1>2. HeldInv' BY Zenon, <1>0 DEF Inv, LifeType, HeldInv, Registers
<1>3. ServedInv' BY Zenon, <1>0 DEF Inv, LifeType, ServedInv, Registers
<1>4. RoomInv'
  <2>1. IsFiniteSet(connMap) /\ Cardinality(connMap) \in Nat BY Zenon, ConnMapFinite DEF Inv
  <2>2. Cardinality(connMap') <= Cardinality(connMap) + 1 /\ Cardinality(connMap') \in Nat
    <3>1. connMap' = connMap \union {run.conn} BY Zenon DEF Registers
    <3>2. \/ Cardinality(connMap \union {run.conn}) = Cardinality(connMap)
          \/ Cardinality(connMap \union {run.conn}) = Cardinality(connMap) + 1
      BY Zenon, <2>1, FS_AddElement
    <3> QED BY <2>1, <3>1, <3>2
  <2>3. maxConnections' = maxConnections /\ run'.pc = "accept" /\ maxConnections \in Nat
    BY Zenon DEF Inv, LifeType, Registers, config
  <2> QED BY <2>1, <2>2, <2>3 DEF Inv, RoomInv
<1>5. SweptInv' /\ DrainedInv' BY Zenon DEF SweptInv, DrainedInv, Shutdown, Registers
<1> QED BY Zenon, <1>1, <1>2, <1>3, <1>4, <1>5 DEF Inv

\* The last step of a connection's goroutine.
LEMMA EndsInv ==
    ASSUME Inv, NEW c \in Conns, Ends(c)
    PROVE  Inv'
<1>0. NetGrows BY Zenon, ClosedGrows DEF Inv, Ends
<1>1. LifeType' BY Zenon, <1>0 DEF Inv, LifeType, Ends, NetGrows, config, GoroutineStates
<1>2. HeldInv' BY Zenon, <1>0 DEF Inv, LifeType, HeldInv, Ends, NetGrows
<1>3. ServedInv' BY Zenon DEF Inv, LifeType, ServedInv, Ends
<1>4. RoomInv'
  <2>1. Cardinality(connMap') \in Nat /\ Cardinality(connMap') <= Cardinality(connMap)
    BY Zenon, ConnMapFinite DEF Inv, Ends
  <2>2. Cardinality(connMap) \in Nat BY Zenon, ConnMapFinite DEF Inv
  <2>3. maxConnections' = maxConnections /\ run' = run /\ maxConnections \in Nat
    BY Zenon DEF Inv, LifeType, Ends, config
  <2> QED BY <2>1, <2>2, <2>3 DEF Inv, RoomInv
<1>5. SweptInv' BY Zenon, <1>0 DEF Inv, LifeType, SweptInv, Ends, NetGrows
<1>6. DrainedInv' BY Zenon DEF Inv, DrainedInv, Ends
<1> QED BY Zenon, <1>1, <1>2, <1>3, <1>4, <1>5, <1>6 DEF Inv

-----------------------------------------------------------------------------
(* The steps *)

\* Peers, network and listener.
LEMMA NetSteps ==
    ASSUME Inv, NEW c \in Conns,
           Dial(c) \/ PeerCloses(c) \/ PeerVanishes(c) \/ KeepAlive(c) \/ ListenerGone(c)
    PROVE  Inv'
<1>1. NetGrows
  BY Zenon DEF Inv, LifeType, NetGrows, Dial, PeerCloses, PeerVanishes, KeepAlive,
     ListenerGone
<1>2. UNCHANGED <<maxConnections, run, connMap, goroutine, closer>>
  BY Zenon DEF Dial, PeerCloses, PeerVanishes, KeepAlive, ListenerGone, config
<1> QED BY Zenon, <1>1, <1>2, MovesInv DEF Moves, Inv, LifeType

\* Queue and sender of a session.
LEMMA SessionSteps ==
    ASSUME Inv, NEW k \in Clients, HandlerSends(k) \/ SenderStep(k) \/ SenderWrites(k)
    PROVE  Inv'
<1>1. UNCHANGED <<maxConnections, run, net, connMap, goroutine, closer>>
  BY Zenon DEF HandlerSends, SenderStep, SenderTakes, SenderFails, SenderStops,
     SenderWrites, SenderDone, config
<1>2. NetGrows BY Zenon, <1>1 DEF NetGrows, Inv, LifeType
<1> QED BY Zenon, <1>1, <1>2, MovesInv DEF Moves, Inv, LifeType

\* The accept loop: a rejected connection is closed, a registered one has room.
LEMMA RunSteps ==
    ASSUME Inv, RunCalled \/ RunStep
    PROVE  Inv'
<1>1. CASE RunCalled \/ AcceptFails \/ BackoffEnds
  <2>1. UNCHANGED <<maxConnections, net, connMap, goroutine, closer>>
    BY Zenon, <1>1 DEF RunCalled, AcceptFails, BackoffEnds, config
  <2>2. NetGrows BY Zenon, <2>1 DEF NetGrows, Inv, LifeType
  <2>3. /\ run'.pc \in {"accept", "backoff", "returned"} /\ run'.conn = run.conn
        /\ run' \in [pc : {"off", "accept", "backoff", "check", "lock", "returned"},
                     conn : Conns \union {NoConn}]
    BY Zenon, <1>1 DEF RunCalled, AcceptFails, BackoffEnds, Inv, LifeType
  <2> QED BY Zenon, <2>1, <2>2, <2>3, RunMovesInv DEF RunMoves
<1>2. ASSUME NEW c \in Conns, Accept(c) PROVE Inv'
  <2>1. NetGrows /\ net'[c] = "open" BY Zenon, <1>2 DEF Accept, NetGrows, Inv, LifeType
  <2>2. run' = [pc |-> "check", conn |-> c] BY Zenon, <1>2 DEF Accept
  <2>3. UNCHANGED <<maxConnections, connMap, goroutine, closer>> BY Zenon, <1>2 DEF Accept, config
  <2> QED BY Zenon, <2>1, <2>2, <2>3, RunMovesInv DEF RunMoves
<1>3. ASSUME Reject PROVE Inv'
  <2>1. NetGrows BY Zenon, <1>3, ClosedGrows DEF Reject, Inv
  <2>2. run' = [pc |-> "accept", conn |-> NoConn] BY Zenon, <1>3 DEF Reject
  <2>3. UNCHANGED <<maxConnections, connMap, goroutine, closer>> BY Zenon, <1>3 DEF Reject, config
  <2> QED BY Zenon, <2>1, <2>2, <2>3, RunMovesInv DEF RunMoves
<1>4. CASE CheckLimit
  <2>1. CASE maxConnections > 0 /\ Cardinality(connMap) >= maxConnections
    BY Zenon, <1>3, <1>4, <2>1 DEF CheckLimit
  <2>2. CASE ~(maxConnections > 0 /\ Cardinality(connMap) >= maxConnections)
    <3>1. UNCHANGED <<maxConnections, net, connMap, goroutine, closer>>
      BY Zenon, <1>4, <2>2 DEF CheckLimit, config
    <3>2. NetGrows BY Zenon, <3>1 DEF NetGrows, Inv, LifeType
    <3>3. run.pc = "check" /\ run' = [run EXCEPT !.pc = "lock"] BY Zenon, <1>4, <2>2 DEF CheckLimit
    <3>4. maxConnections > 0 => Cardinality(connMap) < maxConnections
      BY <2>2, ConnMapFinite DEF Inv, LifeType
    <3>5. run.conn \in Conns /\ net[run.conn] # "none" BY Zenon, <3>3 DEF Inv, HeldInv
    <3>6. /\ run'.conn = run.conn
          /\ run' \in [pc : {"off", "accept", "backoff", "check", "lock", "returned"},
                       conn : Conns \union {NoConn}]
      BY Zenon, <3>3 DEF Inv, LifeType
    <3> QED BY Zenon, <3>1, <3>2, <3>4, <3>5, <3>6, RunMovesInv DEF RunMoves
  <2> QED BY Zenon, <2>1, <2>2
<1>5. CASE Register BY Zenon, <1>3, <1>5, RegistersInv DEF Register
<1> QED BY Zenon, <1>1, <1>2, <1>4, <1>5 DEF RunStep

\* The goroutine of a connection: it moves on, or ends and closes the connection.
LEMMA ConnSteps ==
    ASSUME Inv, NEW c \in Conns, ConnStep(c) \/ ReadRequest(c)
    PROVE  Inv'
<1>1. ASSUME UNCHANGED <<maxConnections, run, connMap, closer>>, NetGrows,
             goroutine[c] \in GoroutineStates \ {"none", "done"},
             NEW pc \in GoroutineStates \ {"none", "done"}, Goes(c, pc)
      PROVE  Inv'
  BY Zenon, <1>1, MovesInv DEF Moves, Goes, Inv, LifeType
<1>2. UNCHANGED net => NetGrows BY Zenon DEF NetGrows, Inv, LifeType
<1>3. CASE ReadHandshake(c)
  BY Zenon, <1>1, <1>2, <1>3 DEF ReadHandshake, GoroutineStates, config
<1>4. ASSUME NEW k \in Clients, Attach(c, k) PROVE Inv'
  <2>1. NetGrows
    <3>1. CASE UNCHANGED net BY Zenon, <3>1, <1>2
    <3>2. CASE net' = Closed({session[k].active}) BY Zenon, <3>2, ClosedGrows DEF Inv
    <3> QED BY Zenon, <1>4, <3>1, <3>2 DEF Attach
  <2>2. goroutine[c] = "authn" /\ Goes(c, "greet") BY Zenon, <1>4 DEF Attach
  <2>3. UNCHANGED <<maxConnections, run, connMap, closer>> BY Zenon, <1>4 DEF Attach, config
  <2> QED BY Zenon, <1>1, <2>1, <2>2, <2>3 DEF GoroutineStates
<1>5. CASE Greet(c)
  <2>1. CASE Ends(c) BY Zenon, <2>1, EndsInv
  <2>2. CASE /\ Goes(c, "reading")
             /\ UNCHANGED <<config, listener, run, net, connMap, client, asked, session, closer>>
    <3>1. goroutine[c] = "greet" BY Zenon, <1>5 DEF Greet
    <3> QED BY Zenon, <1>1, <1>2, <2>2, <3>1 DEF GoroutineStates, config
  <2> QED BY Zenon, <1>5, <2>1, <2>2 DEF Greet
<1>6. CASE ReadRequest(c)
  <2>1. CASE Goes(c, "rejecting")
    BY Zenon, <1>1, <1>2, <1>6, <2>1 DEF ReadRequest, GoroutineStates, config
  <2>2. CASE UNCHANGED goroutine
    <3>1. UNCHANGED <<maxConnections, run, net, connMap, closer>> BY Zenon, <1>6 DEF ReadRequest, config
    <3> QED BY Zenon, <1>2, <2>2, <3>1, MovesInv DEF Moves, Inv, LifeType
  <2> QED BY Zenon, <1>6, <2>1, <2>2 DEF ReadRequest
<1>7. CASE RejectSends(c)
  BY Zenon, <1>1, <1>2, <1>7 DEF RejectSends, GoroutineStates, config
<1>8. CASE HandshakeFails(c) \/ ReadFails(c) BY Zenon, <1>8, EndsInv DEF HandshakeFails, ReadFails
<1> QED BY Zenon, <1>3, <1>4, <1>5, <1>6, <1>7, <1>8 DEF ConnStep

\* Close: its sweep of connMap closes what is registered, wg.Wait sees it leave.
LEMMA CloseSteps ==
    ASSUME Inv, CloseCalled \/ CloseStep
    PROVE  Inv'
<1>1. /\ UNCHANGED <<maxConnections, run, connMap, goroutine>>
      /\ closer' \in {"shutdown", "listener", "conns", "waiting", "returned"}
  BY Zenon DEF CloseCalled, CloseStep, CloseListener, SweepConns, SweepClients,
     Drained, config
<1>2. NetGrows
  <2>1. UNCHANGED net => NetGrows BY Zenon DEF NetGrows, Inv, LifeType
  <2>2. CASE CloseCalled \/ CloseListener \/ Drained
    BY Zenon, <2>1, <2>2 DEF CloseCalled, CloseListener, Drained
  <2>3. CASE SweepConns BY Zenon, <2>3, ClosedGrows DEF SweepConns, Inv
  <2>4. CASE SweepClients BY Zenon, <2>4, ClosedGrows DEF SweepClients, Inv
  <2> QED BY Zenon, <2>2, <2>3, <2>4 DEF CloseStep
<1>3. LifeType' BY Zenon, <1>1, <1>2 DEF Inv, LifeType, NetGrows
<1>4. HeldInv' BY Zenon, <1>1, <1>2 DEF Inv, LifeType, HeldInv, NetGrows
<1>5. ServedInv' /\ RoomInv' BY Zenon, <1>1 DEF Inv, ServedInv, RoomInv
<1>6. SweptInv'
  <2>1. CASE SweepConns
    BY Zenon, <1>1, <2>1, ClosedGrows DEF SweepConns, Inv, LifeType, HeldInv, SweptInv
  <2>2. CASE SweepClients \/ Drained
    BY Zenon, <1>1, <1>2, <2>2 DEF SweepClients, Drained, Inv, LifeType, SweptInv,
       NetGrows
  <2>3. CASE CloseCalled \/ CloseListener BY Zenon, <2>3 DEF CloseCalled, CloseListener, SweptInv
  <2> QED BY Zenon, <2>1, <2>2, <2>3 DEF CloseStep
<1>7. DrainedInv'
  BY Zenon, <1>1 DEF DrainedInv, CloseCalled, CloseStep, CloseListener, SweepConns,
     SweepClients, Drained
<1> QED BY Zenon, <1>3, <1>4, <1>5, <1>6, <1>7 DEF Inv

\* The invariant holds in every state of the server.
LEMMA InvCorrect == Spec => []Inv
<1>1. Init => Inv
  <2> SUFFICES ASSUME Init PROVE Inv BY Zenon
  <2>1. LifeType BY Zenon DEF Init, LifeType, GoroutineStates
  <2>2. HeldInv /\ ServedInv /\ SweptInv /\ DrainedInv
    BY Zenon DEF Init, HeldInv, ServedInv, SweptInv, DrainedInv
  <2>3. RoomInv
    <3>1. Cardinality(connMap) = 0 BY Zenon, FS_EmptySet DEF Init
    <3>2. maxConnections \in Nat /\ run.pc = "off" BY Zenon DEF Init
    <3> QED BY <3>1, <3>2 DEF RoomInv
  <2> QED BY Zenon, <2>1, <2>2, <2>3 DEF Inv
<1>2. Inv /\ [Next]_vars => Inv'
  <2> SUFFICES ASSUME Inv, [Next]_vars PROVE Inv' BY Zenon
  <2>1. CASE UNCHANGED vars
    <3>1. UNCHANGED <<maxConnections, run, net, connMap, goroutine, closer>>
      BY Zenon, <2>1 DEF vars, config
    <3>2. NetGrows BY Zenon, <3>1 DEF NetGrows, Inv, LifeType
    <3> QED BY Zenon, <3>1, <3>2, MovesInv DEF Moves, Inv, LifeType
  <2>2. CASE Next
    BY Zenon, <2>2, NetSteps, SessionSteps, RunSteps, ConnSteps, CloseSteps DEF Next
  <2> QED BY Zenon, <2>1, <2>2
<1> QED BY <1>1, <1>2, PTL DEF Spec

-----------------------------------------------------------------------------
(* The theorems *)

\* Run compares with maxConnections before it takes the mutex, and still never
\* serves more connections than that: goroutines that end only make room.
THEOREM LimitCorrect == Spec => []LimitHolds
<1>1. Inv => LimitHolds BY Zenon DEF Inv, RoomInv, LimitHolds
<1> QED BY <1>1, InvCorrect, PTL

\* The sweep of Close misses no connection, and Close returns after the last
\* goroutine of one has ended.
THEOREM CloseCompleteCorrect == Spec => []CloseComplete
<1>1. Inv => CloseComplete
  BY Zenon DEF Inv, LifeType, ServedInv, SweptInv, DrainedInv, CloseComplete
<1> QED BY <1>1, InvCorrect, PTL
=============================================================================

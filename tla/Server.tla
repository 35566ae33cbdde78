------------------------------- MODULE Server -------------------------------
(***************************************************************************)
(* The server's lifecycle: listener, accept loop, one goroutine per        *)
(* connection, the sessions with their outgoing queue and sender, and the  *)
(* drain of Close.                                                         *)
(*                                                                         *)
(* The transport is "stream" (TCP, TLS, Unix), "ws" or "mem".  They differ *)
(* in how a connection is offered to Accept, in whether a peer can vanish  *)
(* without a trace (not in memory) and in whether a write has a deadline   *)
(* (not in memory).  The hash chain of a session is the business of module *)
(* Session, what a handler does of module Dispatch: here a handler runs    *)
(* and then sends one frame.                                               *)
(***************************************************************************)
EXTENDS Integers, FiniteSets

CONSTANTS
    Transports,     \* the transports to consider
    Conns,          \* connections, each dialled once
    Clients,        \* client ids
    Limits,         \* the values of maxConnections to consider
    MaxHandlers,    \* maxConcurrentRequests of a session
    QueueCap,       \* outgoingQueueCap
    MaxRequests,    \* bound on the requests read from one connection
    NoConn, NoClient

ASSUME TransportsAssumption == Transports \subseteq {"stream", "ws", "mem"}
ASSUME SetsAssumption == IsFiniteSet(Conns) /\ NoConn \notin Conns /\ NoClient \notin Clients
ASSUME CapsAssumption == /\ Limits \subseteq Nat /\ MaxRequests \in Nat
                         /\ MaxHandlers \in Nat \ {0} /\ QueueCap \in Nat \ {0}

VARIABLES
    transport,      \* the transport, for good
    maxConnections, \* serverConfig.maxConnections, for good; 0 is no limit
    listener,       \* "open" or "closed"
    run,            \* Run: its program counter and the connection in its hands
    net,            \* net[c]: the connection as the operating system sees it
    connMap,        \* connections registered by Run: also liveConns and wg
    goroutine,      \* goroutine[c]: handleConnection, see GoroutineStates
    client,         \* client[c]: the session c is attached to
    asked,          \* asked[c]: requests read from c
    session,        \* session[k]: the servingClient of k in clientMap
    closer          \* Close: how far it has come

config == <<transport, maxConnections>>
vars == <<config, listener, run, net, connMap, goroutine, client, asked,
          session, closer>>

GoroutineStates == {"none", "handshake", "authn", "greet", "reading", "rejecting", "done"}

TypeOK ==
    /\ transport \in Transports /\ maxConnections \in Limits
    /\ listener \in {"open", "closed"}
    /\ run \in [pc : {"off", "accept", "backoff", "check", "lock", "returned"},
                conn : Conns \union {NoConn}]
    /\ net \in [Conns -> {"none", "offered", "open", "dead", "closed"}]
    /\ connMap \subseteq Conns
    /\ goroutine \in [Conns -> GoroutineStates]
    /\ client \in [Conns -> Clients \union {NoClient}]
    /\ asked \in [Conns -> 0..MaxRequests]
    /\ session \in [Clients -> [state : {"none", "open", "closed"},
                                active : Conns \union {NoConn},
                                queue : 0..QueueCap,
                                handlers : 0..MaxHandlers,
                                sender : {"off", "idle", "writing", "stopped"},
                                target : Conns \union {NoConn}]]
    /\ closer \in {"serving", "shutdown", "listener", "conns", "waiting", "returned"}

Init ==
    /\ transport \in Transports /\ maxConnections \in Limits
    /\ listener = "open"
    /\ run = [pc |-> "off", conn |-> NoConn]
    /\ net = [c \in Conns |-> "none"]
    /\ connMap = {}
    /\ goroutine = [c \in Conns |-> "none"]
    /\ client = [c \in Conns |-> NoClient]
    /\ asked = [c \in Conns |-> 0]
    /\ session = [k \in Clients |-> [state |-> "none", active |-> NoConn, queue |-> 0,
                                     handlers |-> 0, sender |-> "off", target |-> NoConn]]
    /\ closer = "serving"

Shutdown == closer # "serving"

\* Close of a MsgConn: idempotent, and both directions of it end.
Closed(cs) == [c \in Conns |-> IF c \in cs /\ net[c] # "none" THEN "closed" ELSE net[c]]

\* WriteMessage: ErrClientClosed or an I/O error on a closed connection, and a
\* deadline on the transports that have one.
WriteMayFail(c) == net[c] = "closed" \/ transport # "mem"

\* ReadMessage may return a message: one that arrived before the connection was
\* closed can still be in the reader's buffer, or win the select in memory.
Readable(c) == net[c] \in {"open", "dead"} \/ (net[c] = "closed" /\ transport # "ws")

-----------------------------------------------------------------------------
(* The peer, the network and the listener *)

Dial(c) ==
    /\ net[c] = "none" /\ listener = "open"
    /\ net' = [net EXCEPT ![c] = "offered"]
    /\ UNCHANGED <<config, listener, run, connMap, goroutine, client, asked, session, closer>>

\* The dialer's context ends, the peer closes the connection, or it breaks.
PeerCloses(c) ==
    /\ net[c] \in {"offered", "open"}
    /\ net' = [net EXCEPT ![c] = "closed"]
    /\ UNCHANGED <<config, listener, run, connMap, goroutine, client, asked, session, closer>>

\* The peer's host is gone and no packet says so.
PeerVanishes(c) ==
    /\ transport # "mem" /\ net[c] = "open"
    /\ net' = [net EXCEPT ![c] = "dead"]
    /\ UNCHANGED <<config, listener, run, connMap, goroutine, client, asked, session, closer>>

\* Wrong: a ping that fails is not acted on.
KeepAliveIgnored(c) == FALSE /\ UNCHANGED vars

\* The pinger of a WebSocket connection closes it when a ping fails; TCP's
\* keepalive, which Accept enables, does the same.
KeepAlive(c) ==
    /\ net[c] = "dead"
    /\ net' = [net EXCEPT ![c] = "closed"]
    /\ UNCHANGED <<config, listener, run, connMap, goroutine, client, asked, session, closer>>

\* The listener is closed.  A connection nobody has accepted is refused; the HTTP
\* handler of a WebSocket connection lives as long as it and closes it.
ListenerGone(c) ==
    /\ listener = "closed"
    /\ net[c] = "offered" \/ (transport = "ws" /\ net[c] \in {"open", "dead"})
    /\ net' = [net EXCEPT ![c] = "closed"]
    /\ UNCHANGED <<config, listener, run, connMap, goroutine, client, asked, session, closer>>

-----------------------------------------------------------------------------
(* Run *)

RunCalled ==
    /\ run.pc = "off"
    /\ run' = [run EXCEPT !.pc = "accept"]
    /\ UNCHANGED <<config, listener, net, connMap, goroutine, client, asked, session, closer>>

\* Accept of the in-memory and WebSocket listeners selects over the handover and
\* the closing of the listener: with both ready it may still yield a connection.
Accept(c) ==
    /\ run.pc = "accept" /\ net[c] = "offered"
    /\ listener = "open" \/ transport # "stream"
    /\ run' = [pc |-> "check", conn |-> c]
    /\ net' = [net EXCEPT ![c] = "open"]
    /\ UNCHANGED <<config, listener, connMap, goroutine, client, asked, session, closer>>

\* Accept fails, for good or for a moment: Run returns after a shutdown and backs
\* off before it.
AcceptFails ==
    /\ run.pc = "accept"
    /\ run' = [run EXCEPT !.pc = IF Shutdown THEN "returned" ELSE "backoff"]
    /\ UNCHANGED <<config, listener, net, connMap, goroutine, client, asked, session, closer>>

BackoffEnds ==
    /\ run.pc = "backoff"
    /\ run' = [run EXCEPT !.pc = "accept"]
    /\ UNCHANGED <<config, listener, net, connMap, goroutine, client, asked, session, closer>>

Reject ==
    /\ net' = Closed({run.conn})
    /\ run' = [pc |-> "accept", conn |-> NoConn]
    /\ UNCHANGED <<config, listener, connMap, goroutine, client, asked, session, closer>>

\* Wrong: one connection too many is let in.
CheckLimitLate ==
    /\ run.pc = "check"
    /\ IF maxConnections > 0 /\ Cardinality(connMap) > maxConnections
       THEN Reject
       ELSE /\ run' = [run EXCEPT !.pc = "lock"]
            /\ UNCHANGED <<config, listener, net, connMap, goroutine, client, asked, session, closer>>

\* The limit is checked without the mutex.
CheckLimit ==
    /\ run.pc = "check"
    /\ IF maxConnections > 0 /\ Cardinality(connMap) >= maxConnections
       THEN Reject
       ELSE /\ run' = [run EXCEPT !.pc = "lock"]
            /\ UNCHANGED <<config, listener, net, connMap, goroutine, client, asked, session, closer>>

Registers ==
    /\ connMap' = connMap \union {run.conn}
    /\ goroutine' = [goroutine EXCEPT ![run.conn] = "handshake"]
    /\ run' = [pc |-> "accept", conn |-> NoConn]
    /\ UNCHANGED <<config, listener, net, client, asked, session, closer>>

\* Wrong: shutdown is not looked at again under the mutex.
RegisterUnchecked == run.pc = "lock" /\ Registers

\* The critical section of acceptMu: liveConns, connMap and wg follow one check
\* of shutdown.
Register ==
    /\ run.pc = "lock"
    /\ IF Shutdown THEN Reject ELSE Registers

-----------------------------------------------------------------------------
(* The goroutine of a connection *)

\* handleConnection returns: it closes the connection, then Run's deferred calls
\* take it out of connMap, liveConns and wg.
Ends(c) ==
    /\ goroutine' = [goroutine EXCEPT ![c] = "done"]
    /\ net' = Closed({c})
    /\ connMap' = connMap \ {c}
    /\ UNCHANGED <<config, listener, run, client, asked, session, closer>>

Goes(c, pc) == goroutine' = [goroutine EXCEPT ![c] = pc]

\* The handshake message arrives before its deadline.
ReadHandshake(c) ==
    /\ goroutine[c] = "handshake" /\ Readable(c)
    /\ Goes(c, "authn")
    /\ UNCHANGED <<config, listener, run, net, connMap, client, asked, session, closer>>

\* The connect authorizer or the authenticator refuses, the message is no valid
\* handshake, the read fails, or the handshake deadline passes.
HandshakeFails(c) == goroutine[c] \in {"handshake", "authn"} /\ Ends(c)

\* NewServingClient: the session and its one sender.
NewServingClient(c) ==
    [state |-> "open", active |-> c, queue |-> 0, handlers |-> 0,
     sender |-> "idle", target |-> NoConn]

\* createOrUpdateServingClient: the first connection of a client creates its
\* session, a later one replaces the connection of it, which is closed.
Attach(c, k) ==
    /\ goroutine[c] = "authn"
    /\ Goes(c, "greet")
    /\ client' = [client EXCEPT ![c] = k]
    /\ IF session[k].state = "none"
       THEN session' = [session EXCEPT ![k] = NewServingClient(c)] /\ UNCHANGED net
       ELSE /\ session' = [session EXCEPT ![k].active = c]
            /\ net' = Closed({session[k].active})
    /\ UNCHANGED <<config, listener, run, connMap, asked, closer>>

\* The handshake response is written to the connection itself, not queued.
Greet(c) ==
    /\ goroutine[c] = "greet"
    /\ \/ /\ net[c] \in {"open", "dead"}
          /\ Goes(c, "reading")
          /\ UNCHANGED <<config, listener, run, net, connMap, client, asked, session, closer>>
       \/ WriteMayFail(c) /\ Ends(c)

\* serveNewRequest: a request over the cap is turned down by the read loop itself,
\* which has to queue the error; any other one gets a handler goroutine.
ReadRequest(c) ==
    /\ goroutine[c] = "reading" /\ Readable(c) /\ asked[c] < MaxRequests
    /\ asked' = [asked EXCEPT ![c] = @ + 1]
    /\ IF session[client[c]].handlers < MaxHandlers
       THEN session' = [session EXCEPT ![client[c]].handlers = @ + 1] /\ UNCHANGED goroutine
       ELSE Goes(c, "rejecting") /\ UNCHANGED session
    /\ UNCHANGED <<config, listener, run, net, connMap, client, closer>>

ReadFails(c) == goroutine[c] = "reading" /\ net[c] = "closed" /\ Ends(c)

-----------------------------------------------------------------------------
(* The outgoing queue of a session *)

\* Wrong: a producer waits for room only.
CanSendOpen(k) == session[k].queue < QueueCap

\* send returns: there is room, or the session is closed.
CanSend(k) == session[k].queue < QueueCap \/ session[k].state = "closed"

\* What send leaves in the queue: with room and a closed session, either.
Queued(k) ==
    {q \in {session[k].queue, session[k].queue + 1} :
        \/ q = session[k].queue /\ session[k].state = "closed"
        \/ q = session[k].queue + 1 /\ session[k].queue < QueueCap}

RejectSends(c) ==
    /\ goroutine[c] = "rejecting" /\ CanSend(client[c])
    /\ \E q \in Queued(client[c]) : session' = [session EXCEPT ![client[c]].queue = q]
    /\ Goes(c, "reading")
    /\ UNCHANGED <<config, listener, run, net, connMap, client, asked, closer>>

\* A handler's answer; it gives its slot back after the send.
HandlerSends(k) ==
    /\ session[k].handlers > 0 /\ CanSend(k)
    /\ \E q \in Queued(k) :
          session' = [session EXCEPT ![k].queue = q, ![k].handlers = @ - 1]
    /\ UNCHANGED <<config, listener, run, net, connMap, goroutine, client, asked, closer>>

\* The sender takes a frame and loads activeConn.
SenderTakes(k) ==
    /\ session[k].sender = "idle" /\ session[k].queue > 0
    /\ session' = [session EXCEPT ![k].queue = @ - 1, ![k].sender = "writing",
                                  ![k].target = session[k].active]
    /\ UNCHANGED <<config, listener, run, net, connMap, goroutine, client, asked, closer>>

SenderDone(k) ==
    /\ session' = [session EXCEPT ![k].sender = "idle", ![k].target = NoConn]
    /\ UNCHANGED <<config, listener, run, net, connMap, goroutine, client, asked, closer>>

\* The peer takes the frame, or the kernel's buffer does.
SenderWrites(k) ==
    /\ session[k].sender = "writing" /\ net[session[k].target] \in {"open", "dead"}
    /\ SenderDone(k)

\* Wrong: the frame goes back into the queue, which may be full.
SenderFailsRequeue(k) ==
    /\ session[k].sender = "writing" /\ WriteMayFail(session[k].target)
    /\ session[k].queue < QueueCap
    /\ session' = [session EXCEPT ![k].sender = "idle", ![k].target = NoConn, ![k].queue = @ + 1]
    /\ UNCHANGED <<config, listener, run, net, connMap, goroutine, client, asked, closer>>

\* The write fails: the frame is dropped and the sender goes on.
SenderFails(k) ==
    /\ session[k].sender = "writing" /\ WriteMayFail(session[k].target)
    /\ SenderDone(k)

SenderStops(k) ==
    /\ session[k].sender = "idle" /\ session[k].state = "closed"
    /\ session' = [session EXCEPT ![k].sender = "stopped"]
    /\ UNCHANGED <<config, listener, run, net, connMap, goroutine, client, asked, closer>>

-----------------------------------------------------------------------------
(* Close *)

\* The server's context is cancelled and shutdown closed under acceptMu.
CloseCalled ==
    /\ closer = "serving"
    /\ closer' = "shutdown"
    /\ UNCHANGED <<config, listener, run, net, connMap, goroutine, client, asked, session>>

CloseListener ==
    /\ closer = "shutdown"
    /\ listener' = "closed"
    /\ closer' = "listener"
    /\ UNCHANGED <<config, run, net, connMap, goroutine, client, asked, session>>

\* Wrong: only connections that have a session are closed.
SweepConnsServed ==
    /\ closer = "listener"
    /\ net' = Closed({c \in connMap : client[c] # NoClient})
    /\ closer' = "conns"
    /\ UNCHANGED <<config, listener, run, connMap, goroutine, client, asked, session>>

SweepConns ==
    /\ closer = "listener"
    /\ net' = Closed(connMap)
    /\ closer' = "conns"
    /\ UNCHANGED <<config, listener, run, connMap, goroutine, client, asked, session>>

\* servingClient.Close of every session in clientMap.  One that is stored later
\* is not closed by anybody.
SweepClients ==
    /\ closer = "conns"
    /\ session' = [k \in Clients |->
          [session[k] EXCEPT !.state = IF @ = "open" THEN "closed" ELSE @]]
    /\ net' = Closed({session[k].active : k \in {j \in Clients : session[j].state = "open"}})
    /\ closer' = "waiting"
    /\ UNCHANGED <<config, listener, run, connMap, goroutine, client, asked>>

\* wg.Wait.
Drained ==
    /\ closer = "waiting" /\ connMap = {}
    /\ closer' = "returned"
    /\ UNCHANGED <<config, listener, run, net, connMap, goroutine, client, asked, session>>

-----------------------------------------------------------------------------
RunStep == (\E c \in Conns : Accept(c)) \/ AcceptFails \/ BackoffEnds \/ CheckLimit \/ Register
ConnStep(c) ==
    \/ HandshakeFails(c) \/ ReadHandshake(c) \/ (\E k \in Clients : Attach(c, k))
    \/ Greet(c) \/ ReadFails(c) \/ RejectSends(c)
SenderStep(k) == SenderTakes(k) \/ SenderFails(k) \/ SenderStops(k)
CloseStep == CloseListener \/ SweepConns \/ SweepClients \/ Drained

Next ==
    \/ \E c \in Conns : Dial(c) \/ PeerCloses(c) \/ PeerVanishes(c) \/ KeepAlive(c) \/ ListenerGone(c)
    \/ RunCalled \/ RunStep
    \/ \E c \in Conns : ConnStep(c) \/ ReadRequest(c)
    \/ \E k \in Clients : HandlerSends(k) \/ SenderStep(k) \/ SenderWrites(k)
    \/ CloseCalled \/ CloseStep

Spec == Init /\ [][Next]_vars

(***************************************************************************)
(* Every goroutine runs when it can; the handshake and write deadlines     *)
(* pass, keepalive notices a dead peer, a handler returns.  Whether a peer *)
(* reads what is written to it, sends a request or closes is up to it.     *)
(***************************************************************************)
Fairness ==
    /\ WF_vars(RunStep) /\ WF_vars(CloseStep)
    /\ \A c \in Conns : WF_vars(ConnStep(c)) /\ WF_vars(KeepAlive(c))
    /\ \A k \in Clients : WF_vars(SenderStep(k)) /\ WF_vars(HandlerSends(k))

FairSpec == Spec /\ Fairness

-----------------------------------------------------------------------------
(* Properties *)

(***************************************************************************)
(* maxConnections bounds the connections being served, although Run        *)
(* compares with it before it takes the mutex.                             *)
(***************************************************************************)
LimitHolds == maxConnections > 0 => Cardinality(connMap) <= maxConnections

(***************************************************************************)
(* Close leaves nothing behind, whatever Run was accepting meanwhile: once *)
(* it has swept connMap every connection still served is closed, and when  *)
(* it returns no goroutine of a connection is running.                     *)
(***************************************************************************)
CloseComplete ==
    /\ closer \in {"conns", "waiting", "returned"} => \A c \in connMap : net[c] = "closed"
    /\ closer = "returned" => \A c \in Conns : goroutine[c] \in {"none", "done"}

\* Close returns and so does Run, whatever connections are doing: waiting for a
\* handshake, being attached, blocked on a full queue, or just being accepted.
CloseDrains == Shutdown ~> (closer = "returned" /\ run.pc \in {"off", "returned"})

\* A read loop that waits in send to turn a request down goes on, even when the
\* peer reads nothing: writes have a deadline, except in memory.
ReadLoopResumes ==
    \A c \in Conns :
        (transport # "mem" /\ goroutine[c] = "rejecting") ~> (goroutine[c] # "rejecting")

\* The slot of a connection that broke, was replaced or whose peer vanished is
\* given back: its goroutine ends, wherever it is.
ConnReclaimed ==
    \A c \in Conns :
        (transport # "mem" /\ c \in connMap /\ net[c] \in {"dead", "closed"}) ~> (c \notin connMap)

\* servingClient.Close stops the sender and unblocks every producer: nothing of a
\* closed session is left running or waiting on its queue.
ClosedSessionStops ==
    \A k \in Clients :
        session[k].state = "closed" ~> (session[k].sender = "stopped" /\ session[k].handlers = 0)
=============================================================================

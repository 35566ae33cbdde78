-------------------------------- MODULE Quic --------------------------------
(***************************************************************************)
(* One connection of the QUIC transport (quic/transport.go): a QUIC stream *)
(* per request, opened by the client with the first frame it writes for a  *)
(* request id, the half-close of each stream driven by the type of the     *)
(* frames, the readers that funnel the frames of all streams into          *)
(* ReadMessage, and Close.                                                 *)
(*                                                                         *)
(* queue[e] and core[e][r] stand for the RPC layer above: the frames it    *)
(* has handed to its writing goroutine (requestLoop, sender), and how far  *)
(* request r has got.  A stream of values is a window, a number of values  *)
(* and an end; modules Stream and Session have the rest.  QUIC itself is a *)
(* reliable FIFO per stream and direction until the connection is lost.    *)
(***************************************************************************)
EXTENDS Integers, Sequences, FiniteSets

CONSTANTS
    Reqs,       \* ids of the client's requests
    Kinds,      \* Kinds[r]: the kinds request r may have
    Window,     \* maxPending on both sides
    MaxValues   \* MaxValues[k][e]: values e's application puts into a stream

RequestKinds == {"Function", "GetStream", "PutStream", "Chat"}

\* Grants are batched to half a window: one value, up to a window of three.
ASSUME ReqsAssumption   == Reqs \subseteq Nat \ {0}
ASSUME KindsAssumption  == Kinds \in [Reqs -> SUBSET RequestKinds]
ASSUME WindowAssumption == Window \in 1..3
ASSUME ValuesAssumption == MaxValues \in [RequestKinds -> [{"client", "server"} -> Nat]]

Ends == {"client", "server"}
Other(e) == IF e = "client" THEN "server" ELSE "client"

Handshake == 0                          \* Dialect.HandshakeRequestId
Rids == Reqs \union {Handshake}

\* QUIC streams in the order of opening: the handshake's, one per request, and at
\* most one more that a frame opens after the request's first stream is gone.
None == 0
Streams == 1..(1 + 2 * Cardinality(Reqs))
\* n is the number of the value carried, or the credit granted.
Types == RequestKinds \union
    {"HandshakeRequest", "HandshakeResponse", "FunctionResponse", "ErrorResponse",
     "StreamReady", "StreamValue", "StreamEnd", "StreamCredit", "CancelRequest"}

Frame(r, t, n) == [rid |-> r, type |-> t, n |-> n]
FIN == Frame(Handshake, "FIN", 0)
Frames == [rid : Rids, type : Types, n : Nat]

VARIABLES
    kind,       \* kind[r]
    core,       \* core[e][r]: what the RPC layer of e knows of r
    queue,      \* queue[e]: reqCh of the client, outgoingQueue of the server
    writer,     \* writer[e]: the stream WriteMessage has to finish, or None
    opened,     \* streams the client has opened
    wire,       \* wire[e][s]: what stream s still has to deliver to e
    stream,     \* stream[e][s]: quicStreamState and its streamReader
    entry,      \* entry[e][r]: quicMsgConn.streams
    accepted,   \* streams the server has accepted
    acceptor,   \* program counter of serverAcceptLoop
    lost,       \* the QUIC connection has failed, or one side has closed it
    closer      \* closer[e]: how far quicMsgConn.Close has got

transport == <<writer, opened, wire, stream, entry, accepted, acceptor, lost, closer>>
vars == <<kind, core, queue, transport>>

\* "ended" and "failed": by the peer's or the own last frame; "gaveUp": by a cancel.
Progress == [st : {"new", "asked", "handling", "open", "cancelled",
                   "ended", "failed", "gaveUp"},
             credit : Nat, sent : Nat, got : Seq(Nat), granted : Nat]

TypeOK ==
    /\ kind \in [Reqs -> RequestKinds]
    /\ core \in [Ends -> [Rids -> Progress]]
    /\ queue \in [Ends -> Seq(Frames)]
    /\ writer \in [Ends -> Streams \union {None}]
    /\ opened \in Streams \union {None}
    /\ wire \in [Ends -> [Streams -> Seq(Frames \union {FIN})]]
    /\ stream \in [Ends -> [Streams ->
                      [pc : {"none", "read", "funnel", "fin", "exit"}, rid : Rids,
                       type : Types \union {"none"}, held : Frames \union {FIN},
                       writeClosed : BOOLEAN, remoteDone : BOOLEAN]]]
    /\ entry \in [Ends -> [Rids -> Streams \union {None}]]
    /\ accepted \in 0..opened
    /\ acceptor \in {"first", "reading", "loop", "exit"}
    /\ lost \in BOOLEAN
    /\ closer \in [Ends -> {"open", "closing", "returned"}]

Unopened == [pc |-> "none", rid |-> Handshake, type |-> "none", held |-> FIN,
             writeClosed |-> FALSE, remoteDone |-> FALSE]

Unasked == [st |-> "new", credit |-> 0, sent |-> 0, got |-> << >>, granted |-> 0]

\* newConn has queued the handshake request.
Init ==
    /\ kind \in {k \in [Reqs -> RequestKinds] : \A r \in Reqs : k[r] \in Kinds[r]}
    /\ core = [[e \in Ends |-> [r \in Rids |-> Unasked]]
                 EXCEPT !["client"][Handshake].st = "asked"]
    /\ queue = [e \in Ends |-> IF e = "client"
                                  THEN <<Frame(Handshake, "HandshakeRequest", 0)>>
                                  ELSE << >>]
    /\ writer = [e \in Ends |-> None]
    /\ opened = None
    /\ wire = [e \in Ends |-> [s \in Streams |-> << >>]]
    /\ stream = [e \in Ends |-> [s \in Streams |-> Unopened]]
    /\ entry = [e \in Ends |-> [r \in Rids |-> None]]
    /\ accepted = 0
    /\ acceptor = "first"
    /\ lost = FALSE
    /\ closer = [e \in Ends |-> "open"]

-----------------------------------------------------------------------------
(* When a half of a stream is finished *)

\* finOnWrite: type is the last message e will send on a stream of this request.
FinOnWrite(e, type, reqType) ==
    IF e = "client" THEN type \in {"StreamEnd", "CancelRequest"}
    ELSE \/ type \in {"HandshakeResponse", "FunctionResponse", "ErrorResponse", "StreamEnd"}
         \/ type = "StreamReady" /\ reqType = "PutStream"

\* Wrong: a call that failed is not finished.
FinOnReadOK(type, reqType) ==
    \/ reqType = "Function" /\ type = "FunctionResponse"
    \/ reqType = "GetStream" /\ type \in {"StreamEnd", "ErrorResponse"}
    \/ reqType = "HandshakeRequest" /\ type = "HandshakeResponse"

\* Wrong: a get-stream's request is taken for the client's last frame.
FinOnReadReady(type, reqType) ==
    \/ reqType = "Function" /\ type \in {"FunctionResponse", "ErrorResponse"}
    \/ reqType = "GetStream" /\ type \in {"StreamReady", "StreamEnd", "ErrorResponse"}
    \/ reqType = "HandshakeRequest" /\ type = "HandshakeResponse"

\* finOnRead: after this message the client sends no more on the stream.
FinOnRead(type, reqType) ==
    \/ reqType = "Function" /\ type \in {"FunctionResponse", "ErrorResponse"}
    \/ reqType = "GetStream" /\ type \in {"StreamEnd", "ErrorResponse"}
    \/ reqType = "HandshakeRequest" /\ type = "HandshakeResponse"

\* finWrite: the entry goes with the second half, by request id; then the FIN.
FinWrite(e, s) ==
    LET st == stream[e][s] IN
    /\ stream' = [stream EXCEPT ![e][s].writeClosed = TRUE,
                                ![e][s].pc = IF @ = "fin" THEN "read" ELSE @]
    /\ entry' = IF st.remoteDone /\ ~st.writeClosed
                THEN [entry EXCEPT ![e][st.rid] = None] ELSE entry
    /\ wire' = IF st.writeClosed \/ lost THEN wire
               ELSE [wire EXCEPT ![Other(e)][s] = Append(@, FIN)]

-----------------------------------------------------------------------------
(* WriteMessage *)

\* The sides in es are done with this connection: what they have queued is refused
\* or cannot be written, and the RPC layer goes on with another connection.
Abandon(es) ==
    /\ queue' = [e \in Ends |-> IF e \in es THEN << >> ELSE queue[e]]
    /\ core' = [e \in Ends |-> IF e \in es THEN [r \in Rids |-> Unasked] ELSE core[e]]

\* The QUIC connection is gone and what was on it with it, save the frames readers
\* hold.
LoseConn ==
    /\ lost' = TRUE
    /\ wire' = [e \in Ends |-> [s \in Streams |-> << >>]]

\* done is closed and the QUIC connection with it.
Shut(e) ==
    /\ closer' = [closer EXCEPT ![e] = "closing"]
    /\ LoseConn
    /\ Abandon({e, "server"})

\* streamForWrite finds the request's stream; a client opens one, with its entry
\* and its reader, when there is none.  Looking it up and writing are one step: a
\* stream that is finished in between swallows the frame as a finished one does.
Write(e) ==
    /\ queue[e] # << >> /\ writer[e] = None /\ closer[e] = "open"
    /\ LET f  == Head(queue[e])
           s  == IF entry[e][f.rid] # None THEN entry[e][f.rid] ELSE opened + 1
           st == IF entry[e][f.rid] # None THEN stream[e][s]
                 ELSE [Unopened EXCEPT !.pc = "read", !.rid = f.rid, !.type = f.type]
       IN  \/ /\ entry[e][f.rid] # None /\ st.writeClosed
              /\ queue' = [queue EXCEPT ![e] = Tail(@)]
              /\ UNCHANGED <<core, writer, opened, wire, stream, entry, closer, lost>>
           \/ /\ ~st.writeClosed /\ ~lost
              /\ entry[e][f.rid] # None \/ e = "client"
              /\ queue' = [queue EXCEPT ![e] = Tail(@)]
              /\ opened' = IF s > opened THEN s ELSE opened
              /\ stream' = [stream EXCEPT ![e][s] = st]
              /\ entry' = [entry EXCEPT ![e][f.rid] = s]
              /\ wire' = [wire EXCEPT ![Other(e)][s] = Append(@, f)]
              /\ writer' = [writer EXCEPT ![e] = IF FinOnWrite(e, f.type, st.type)
                                                 THEN s ELSE None]
              /\ UNCHANGED <<core, closer, lost>>
           \/ /\ e = "client" /\ ~st.writeClosed /\ lost
              /\ Shut(e)              \* requestLoop reports a BadConnection
              /\ UNCHANGED <<writer, opened, stream, entry>>
           \/ /\ e = "server" /\ entry[e][f.rid] = None
              /\ queue' = [queue EXCEPT ![e] = Tail(@)]     \* sender logs it
              /\ UNCHANGED <<core, writer, opened, wire, stream, entry, closer, lost>>
    /\ UNCHANGED <<kind, accepted, acceptor>>

Fin(e) ==
    /\ writer[e] # None
    /\ FinWrite(e, writer[e])
    /\ writer' = [writer EXCEPT ![e] = None]
    /\ UNCHANGED <<kind, core, queue, opened, accepted, acceptor, lost, closer>>

-----------------------------------------------------------------------------
(* The RPC layer: what a frame does, and what is sent *)

HasUp(r)   == r \in Reqs /\ kind[r] \in {"PutStream", "Chat"}
HasDown(r) == r \in Reqs /\ kind[r] \in {"GetStream", "Chat"}
Sends(e, r) == IF e = "client" THEN HasUp(r) ELSE HasDown(r)
Receives(e, r) == Sends(Other(e), r)

\* The number the StreamEnd of side e carries.
End(e, r) == MaxValues[kind[r]][e] + 1

\* The request a client holds is over when nothing is left in either direction.
ClientDone(r, c) == /\ HasUp(r) => c.sent = End("client", r)
                    /\ HasDown(r) => \E i \in DOMAIN c.got : c.got[i] = End("server", r)

\* processResponse.
ClientHandles(f) ==
    LET c == core["client"][f.rid]
        g == [c EXCEPT !.got = Append(@, f.n)]
    IN  IF c.st \notin {"asked", "open"} THEN c
        ELSE CASE f.type \in {"HandshakeResponse", "FunctionResponse"} -> [c EXCEPT !.st = "ended"]
               [] f.type = "ErrorResponse" -> [c EXCEPT !.st = "failed"]
               [] f.type = "StreamReady"   -> [c EXCEPT !.st = "open"]
               [] f.type = "StreamCredit"  -> [c EXCEPT !.credit = @ + f.n]
               [] f.type = "StreamValue"   -> g
               [] f.type = "StreamEnd"     -> IF ClientDone(f.rid, g)
                                              THEN [g EXCEPT !.st = "ended"] ELSE g
               [] OTHER -> c

\* handshake and processRequest.  A cancel finds a registered stream or nothing.
ServerHandles(f) ==
    LET c == core["server"][f.rid]
        g == [c EXCEPT !.got = Append(@, f.n)]
    IN  CASE f.type = "HandshakeRequest" -> [c EXCEPT !.st = "ended"]
          [] f.type \in RequestKinds     -> [c EXCEPT !.st = "handling"]
          [] f.type = "CancelRequest" /\ c.st = "open" ->
                 [c EXCEPT !.st = IF HasDown(f.rid) THEN "cancelled" ELSE "gaveUp"]
          [] f.type = "StreamCredit" /\ c.st = "open" -> [c EXCEPT !.credit = @ + f.n]
          [] f.type = "StreamValue" /\ c.st = "open"  -> g
          [] f.type = "StreamEnd" /\ c.st = "open"    ->
                 IF HasDown(f.rid) THEN g ELSE [g EXCEPT !.st = "ended"]
          [] OTHER -> c

Handles(e, f) == IF e = "client" THEN ClientHandles(f) ELSE ServerHandles(f)

\* What is sent at once: the handshake's answer, and the client's first window.
Replies(e, f) ==
    IF f.type = "HandshakeRequest" THEN <<Frame(f.rid, "HandshakeResponse", 0)>>
    ELSE IF e = "client" /\ f.type = "StreamReady" /\ HasDown(f.rid)
                         /\ core[e][f.rid].st = "asked"
         THEN <<Frame(f.rid, "StreamCredit", Window)>> ELSE << >>

\* A step of the RPC layer: r's progress becomes p and the frames fs are queued.
\* A server whose connection is lost does nothing that this connection shows.
Core(e, r, p, fs) ==
    /\ closer[e] = "open" /\ (e = "server" => ~lost)
    /\ core' = [core EXCEPT ![e][r] = p]
    /\ queue' = [queue EXCEPT ![e] = @ \o fs]

Ask(r) ==
    LET c == core["client"][r] IN
    /\ core["client"][Handshake].st = "ended" /\ c.st = "new"
    /\ Core("client", r, [c EXCEPT !.st = "asked"], <<Frame(r, kind[r], 0)>>)
    /\ UNCHANGED <<kind, transport>>

\* A timeout or a cancelled context.
GiveUp(r) ==
    LET c == core["client"][r] IN
    /\ c.st \in {"asked", "open"}
    /\ Core("client", r, [c EXCEPT !.st = "gaveUp"], <<Frame(r, "CancelRequest", 0)>>)
    /\ UNCHANGED <<kind, transport>>

\* The handler returns: an answer, a refusal, or a stream that is registered.  The
\* first window is granted at the registration, before the handler is called.
Answer(r) ==
    LET c == core["server"][r]
        grant == IF HasUp(r) THEN <<Frame(r, "StreamCredit", Window)>> ELSE << >>
    IN  /\ c.st = "handling"
        /\ \/ \E granted \in {<< >>, grant} :
                 Core("server", r, [c EXCEPT !.st = "failed"],
                      Append(granted, Frame(r, "ErrorResponse", 0)))
           \/ /\ kind[r] = "Function"
              /\ Core("server", r, [c EXCEPT !.st = "ended"],
                      <<Frame(r, "FunctionResponse", 0)>>)
           \/ /\ kind[r] # "Function"
              /\ Core("server", r, [c EXCEPT !.st = "open"],
                      Append(grant, Frame(r, "StreamReady", 0)))
        /\ UNCHANGED <<kind, transport>>

\* streamOut and outgoingStreamer: the next value, against credit.
Emit(e, r) ==
    LET c == core[e][r] IN
    /\ Sends(e, r) /\ c.st = "open" /\ c.sent + 1 < End(e, r) /\ c.credit > 0
    /\ Core(e, r, [c EXCEPT !.sent = @ + 1, !.credit = @ - 1],
            <<Frame(r, "StreamValue", c.sent + 1)>>)
    /\ UNCHANGED <<kind, transport>>

\* The application's channel is at its end.
EmitEnd(e, r) ==
    LET c == core[e][r]
        d == [c EXCEPT !.sent = End(e, r)]
    IN  /\ Sends(e, r) /\ c.st = "open" /\ c.sent + 1 = End(e, r)
        /\ Core(e, r, IF e = "server" \/ ClientDone(r, d)
                      THEN [d EXCEPT !.st = "ended"] ELSE d,
                <<Frame(r, "StreamEnd", End(e, r))>>)
        /\ UNCHANGED <<kind, transport>>

\* The streamer of a cancelled stream sends the end, unless it was at its gate.
Cancelled(r) ==
    LET c == core["server"][r] IN
    /\ c.st = "cancelled"
    /\ \E fs \in {<< >>, <<Frame(r, "StreamEnd", c.sent + 1)>>} :
          Core("server", r, [c EXCEPT !.st = "gaveUp"], fs)
    /\ UNCHANGED <<kind, transport>>

\* The pump has delivered a value to the application (grantRecv, grantInbound):
\* also after the end of the stream, while it drains.
Grant(e, r) ==
    LET c == core[e][r] IN
    /\ Receives(e, r)
    /\ \/ c.st = "open"
       \/ c.st = "ended" /\ (e = "client" \/ kind[r] = "PutStream")
    /\ c.granted < Cardinality({i \in DOMAIN c.got : c.got[i] # End(Other(e), r)})
    /\ Core(e, r, [c EXCEPT !.granted = @ + 1], <<Frame(r, "StreamCredit", 1)>>)
    /\ UNCHANGED <<kind, transport>>

-----------------------------------------------------------------------------
(* The readers *)

\* serverAcceptLoop: streams are accepted in the order of their ids, once
\* something has arrived on this or a later one.  The first is read by the loop.
AcceptStream ==
    /\ acceptor \in {"first", "loop"} /\ ~lost
    /\ \E s \in Streams : s > accepted /\ wire["server"][s] # << >>
    /\ accepted' = accepted + 1
    /\ stream' = [stream EXCEPT !["server"][accepted + 1].pc = "read"]
    /\ acceptor' = IF acceptor = "first" THEN "reading" ELSE "loop"
    /\ UNCHANGED <<kind, core, queue, writer, opened, wire, entry, lost, closer>>

\* The accept loop, not a reader of its own, is reading stream s of e.
ReadByAcceptor(e, s) == e = "server" /\ s = 1 /\ acceptor = "reading"

\* Wrong: once registered, every frame is read by a goroutine of its own.
ReadAny(e, s) ==
    LET st == stream[e][s] IN
    /\ st.pc = "read"
    /\ \E i \in IF st.type = "none" THEN DOMAIN wire[e][s] \intersect {1} ELSE DOMAIN wire[e][s] :
          LET f == wire[e][s][i] IN
          /\ f # FIN
          /\ wire' = [wire EXCEPT ![e][s] = SubSeq(@, 1, i - 1) \o SubSeq(@, i + 1, Len(@))]
          /\ stream' = [stream EXCEPT ![e][s].rid = f.rid, ![e][s].pc = "funnel",
                                      ![e][s].held = f,
                                      ![e][s].type = IF @ = "none" THEN f.type ELSE @]
          /\ entry' = [entry EXCEPT ![e][f.rid] = s]
    /\ UNCHANGED <<kind, core, queue, writer, opened, accepted, acceptor, lost, closer>>

\* streamReader: readFrame and register.
Read(e, s) ==
    LET st == stream[e][s]
        f  == Head(wire[e][s])
        rg == IF st.type = "none" THEN [st EXCEPT !.rid = f.rid, !.type = f.type] ELSE st
    IN  /\ st.pc = "read" /\ wire[e][s] # << >> /\ f # FIN
        /\ wire' = [wire EXCEPT ![e][s] = Tail(@)]
        /\ stream' = [stream EXCEPT ![e][s] = [rg EXCEPT !.pc = "funnel", !.held = f]]
        /\ entry' = IF st.type = "none" THEN [entry EXCEPT ![e][f.rid] = s] ELSE entry
        /\ UNCHANGED <<kind, core, queue, writer, opened, accepted, acceptor, lost, closer>>

\* ReadMessage takes the frame the reader holds and the RPC layer handles it.
Taken(e, s) ==
    LET st == stream[e][s]
        f  == st.held
    IN  /\ closer[e] = "open"
        /\ stream' = [stream EXCEPT ![e][s].held = FIN,
                                    ![e][s].pc = IF e = "client" /\ FinOnRead(f.type, st.type)
                                                 THEN "fin" ELSE "read"]
        /\ acceptor' = IF ReadByAcceptor(e, s) THEN "loop" ELSE acceptor
        /\ \/ Core(e, f.rid, Handles(e, f), Replies(e, f))
           \/ e = "server" /\ lost /\ UNCHANGED <<core, queue>>

\* Wrong: a reader that waits to hand its frame over is not woken.
FunnelDeaf(e, s) ==
    /\ stream[e][s].pc = "funnel"
    /\ Taken(e, s)
    /\ UNCHANGED <<kind, writer, opened, wire, entry, accepted, lost, closer>>

\* funnel: the reader hands its frame over, or is woken by done and ends as it is.
Funnel(e, s) ==
    /\ stream[e][s].pc = "funnel"
    /\ \/ Taken(e, s)
       \/ /\ closer[e] # "open"
          /\ stream' = [stream EXCEPT ![e][s].held = FIN, ![e][s].pc = "exit"]
          /\ acceptor' = IF ReadByAcceptor(e, s) THEN "exit" ELSE acceptor
          /\ UNCHANGED <<core, queue>>
    /\ UNCHANGED <<kind, writer, opened, wire, entry, accepted, lost, closer>>

\* The client's last frame of a request that the peer has answered: finWrite.
ReaderFin(s) ==
    /\ stream["client"][s].pc = "fin"
    /\ FinWrite("client", s)
    /\ UNCHANGED <<kind, core, queue, writer, opened, accepted, acceptor, lost, closer>>

\* readFrame fails, at the peer's FIN or because the connection is lost, and ends
\* the reader: markRemoteDone.  The accept loop just goes on.
ReadFails(e, s) ==
    LET st == stream[e][s] IN
    /\ st.pc = "read"
    /\ lost \/ (wire[e][s] # << >> /\ Head(wire[e][s]) = FIN)
    /\ wire' = IF lost THEN wire ELSE [wire EXCEPT ![e][s] = Tail(@)]
    /\ IF ReadByAcceptor(e, s)
       THEN /\ stream' = [stream EXCEPT ![e][s].pc = "exit"]
            /\ acceptor' = "loop"
            /\ UNCHANGED entry
       ELSE /\ stream' = [stream EXCEPT ![e][s].remoteDone = TRUE, ![e][s].pc = "exit"]
            /\ entry' = IF st.writeClosed THEN [entry EXCEPT ![e][st.rid] = None] ELSE entry
            /\ UNCHANGED acceptor
    /\ UNCHANGED <<kind, core, queue, writer, opened, accepted, lost, closer>>

-----------------------------------------------------------------------------
(* The end of the connection *)

\* Close: close(done) and CloseWithError ...
Close(e) ==
    /\ closer[e] = "open"
    /\ Shut(e)
    /\ UNCHANGED <<kind, writer, opened, stream, entry, accepted, acceptor>>

\* AcceptStream fails and the accept loop ends.
AcceptFails ==
    /\ acceptor \in {"first", "loop"} /\ lost
    /\ acceptor' = "exit"
    /\ UNCHANGED <<kind, core, queue, writer, opened, wire, stream, entry, accepted, lost, closer>>

\* ... and wg.Wait.
CloseWait(e) ==
    /\ closer[e] = "closing"
    /\ \A s \in Streams : stream[e][s].pc \in {"none", "exit"}
    /\ e = "server" => acceptor = "exit"
    /\ closer' = [closer EXCEPT ![e] = "returned"]
    /\ UNCHANGED <<kind, core, queue, writer, opened, wire, stream, entry, accepted,
                   acceptor, lost>>

\* The network fails and the idle timeout expires.
Lose ==
    /\ ~lost
    /\ LoseConn
    /\ Abandon({"server"})
    /\ UNCHANGED <<kind, writer, opened, stream, entry, accepted, acceptor, closer>>

Next ==
    \/ AcceptStream \/ AcceptFails \/ Lose
    \/ \E r \in Reqs : Ask(r) \/ GiveUp(r) \/ Answer(r) \/ Cancelled(r)
    \/ \E e \in Ends : Write(e) \/ Fin(e) \/ Close(e) \/ CloseWait(e)
    \/ \E e \in Ends, r \in Reqs : Emit(e, r) \/ EmitEnd(e, r) \/ Grant(e, r)
    \/ \E e \in Ends, s \in Streams : Read(e, s) \/ Funnel(e, s) \/ ReadFails(e, s)
    \/ \E s \in Streams : ReaderFin(s)

Spec == Init /\ [][Next]_vars

\* What happens of itself: goroutines run, handlers return and applications read.
\* Nobody has to give up, to close or to fail.
Running ==
    \/ AcceptStream \/ AcceptFails
    \/ \E r \in Reqs : Ask(r) \/ Answer(r) \/ Cancelled(r)
    \/ \E e \in Ends : Write(e) \/ Fin(e) \/ CloseWait(e)
    \/ \E e \in Ends, r \in Reqs : Emit(e, r) \/ EmitEnd(e, r) \/ Grant(e, r)
    \/ \E e \in Ends, s \in Streams : Read(e, s) \/ Funnel(e, s) \/ ReadFails(e, s)
    \/ \E s \in Streams : ReaderFin(s)

\* As long as anybody can go on, somebody does.
Fairness == WF_vars(Running)

FairSpec == Spec /\ Fairness

-----------------------------------------------------------------------------
(* Properties *)

\* The values of a request arrive in the order in which they were written, the
\* end after the last of them, although the frames of a request can travel on
\* two streams and every stream has a reader of its own (streamForWrite, funnel).
InOrder ==
    \A e \in Ends, r \in Reqs :
        \A i \in DOMAIN core[e][r].got : core[e][r].got[i] = i

\* Request r came to an end that finishes both halves of its stream: no cancelled
\* stream, and no put-stream or chat that the server refused.
EndsWhole(r) ==
    LET st == core["client"][r].st IN
    \/ kind[r] = "Function" /\ st \in {"ended", "failed", "gaveUp"}
    \/ kind[r] = "GetStream" /\ st \in {"ended", "failed"}
    \/ kind[r] \in {"PutStream", "Chat"} /\ st = "ended"

\* Neither side holds on to the stream that was opened for request r.
StreamFreed(r) ==
    \A e \in Ends, s \in Streams :
        stream[e][s].rid = r /\ stream[e][s].type = kind[r] =>
            stream[e][s].writeClosed /\ stream[e][s].remoteDone /\ entry[e][r] # s

\* "Streams freed when both halves finish": the stream of a request that ends in
\* one of the ways above is given back by both sides, in whatever order the FINs
\* and the last frames cross (finWrite, markRemoteDone).
Freed == \A r \in Reqs : EndsWhole(r) ~> StreamFreed(r) \/ lost

\* A sender waits for credit that was granted and swallowed, because the receiver
\* had finished its half of the QUIC stream: the server's of a put-stream, which it
\* finishes with StreamReady ("put-stream server sends nothing after StreamReady",
\* transport.go:324), and the client's of a chat, which it finishes with its own
\* StreamEnd although it goes on granting (serving_request.go:205-206).
Starved(r) ==
    \E e \in Ends :
        /\ Sends(e, r) /\ core[e][r].st = "open"
        /\ core[e][r].credit = 0 /\ core[e][r].sent + 1 < End(e, r)
        /\ \/ e = "client" /\ kind[r] = "PutStream"
           \/ e = "server" /\ kind[r] = "Chat" /\ core["client"][r].sent = End("client", r)

\* A request nobody gives up on gets its answer, or ends its stream, as long as
\* the connection stands: every get-stream, and every put-stream or chat but those
\* of more than a window of values that are starved for good.
Completes ==
    \A r \in Reqs :
        [](~lost /\ core["client"][r].st # "gaveUp") =>
            \/ <>(core["client"][r].st \in {"ended", "failed"}
                    /\ core["server"][r].st \in {"ended", "failed"})
            \/ <>[]Starved(r)

\* No Close waits for ever: no accept loop and no reader stays behind that wg would
\* wait for, whether it was reading or had a frame to hand over to a ReadMessage
\* that nobody calls any more.
CloseReturns == []<>(\A e \in Ends : closer[e] # "closing")

\* README.md:88-90: "on a drop, in-flight requests fail fast ... instead of
\* hanging until timeout".  An established client that waits for an answer when
\* its connection is lost gets to know of it.
DropNoticed ==
    (lost /\ \E r \in Reqs : core["client"][r].st \in {"asked", "open"})
        ~> closer["client"] # "open"
=============================================================================

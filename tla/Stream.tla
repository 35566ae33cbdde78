------------------------------- MODULE Stream -------------------------------
(***************************************************************************)
(* One stream from the client's GetStream, PutStream or Chat call to its   *)
(* retirement on both sides.                                               *)
(*                                                                         *)
(* The client side is the goroutine in GetStream/PutStream/Chat (opener),  *)
(* watchContext, streamOut, the response loop and the receive pump; the    *)
(* server side is the connection read loop, the handler goroutine,         *)
(* outgoingStreamer and the inbound pump.  They share the connection, one  *)
(* FIFO of frames per direction.  A direction is named for where its       *)
(* values go: "down" to the client (get, chat), "up" to the server (put,   *)
(* chat).  The k-th value of a direction is the number k; the StreamReady  *)
(* acknowledgement, which travels through the receive pump like a value,   *)
(* is number 0.  A Null value, which a receiver drops without counting it, *)
(* has no number.                                                          *)
(***************************************************************************)
EXTENDS FlowControl

CONSTANTS
    Kinds,      \* the kinds of stream that may be opened
    Window,     \* Window[d]: maxPending, the receiver's credit window
    ChanCap,    \* ChanCap[d]: capacity of the channel the application reads
    MaxValues,  \* MaxValues[k][d]: bound on the values the application produces
    MaxNulls,   \* MaxNulls[k][d]: bound on the Null values among them
    Cancels     \* Cancels[k]: how the application may give up, "ctx" or "explicit"

Dirs == {"down", "up"}

StreamKinds == {"get", "put", "chat"}

ASSUME KindsAssumption     == Kinds \subseteq StreamKinds
ASSUME WindowAssumption    == Window \in [Dirs -> Nat \ {0}]
ASSUME ChanCapAssumption   == ChanCap \in [Dirs -> Nat \ {0}]
ASSUME MaxValuesAssumption == MaxValues \in [StreamKinds -> [Dirs -> Nat]]
ASSUME MaxNullsAssumption  == MaxNulls \in [StreamKinds -> [Dirs -> Nat]]
ASSUME CancelsAssumption   == Cancels \in [StreamKinds -> SUBSET {"ctx", "explicit"}]

Opposite(d) == IF d = "down" THEN "up" ELSE "down"

VARIABLES
    wire,       \* wire[d]: the connection's frames towards "down"/"up"
    gate,       \* gate[d]: the sender's CreditGate
    pump,       \* pump[d]: the receiver's StreamPump
    chan,       \* chan[d]: resultCh / inC, what the application has not read
    delivered,  \* delivered[d]: recvDelivered / inboundDelivered
    got,        \* got[d]: number of the last value the application took
    sent,       \* sent[d]: number of the last StreamValue frame sent
    nulls,      \* nulls[d]: how many Null values were sent, a history
    sender,     \* sender[d]: program counter of outgoingStreamer / streamOut
    opener,     \* program counter of GetStream / PutStream / Chat
    watcher,    \* program counter of watchContext's goroutine
    cancelled,  \* the application called CancelRequest(id)
    rc,         \* the client's rpcRequestCtx
    ending,     \* the response loop is inside TryGetClose
    handler,    \* program counter of the server's handler goroutine
    sr          \* the server's servingRequest

flow   == <<gate, pump, chan, delivered, got>>
client == <<opener, watcher, cancelled, rc, ending>>
server == <<handler, sr>>
vars   == <<wire, flow, sent, nulls, sender, client, server>>

\* What kind of stream this is travels in the message type of the request.
kind    == rc.kind
HasDown == kind \in {"get", "chat"}
HasUp   == kind \in {"put", "chat"}

SenderStates == {"off", "ready", "loop", "take", "gate", "send", "finish",
                 "retire", "done"}

RequestContexts == [kind : Kinds, inMap : BOOLEAN, getClosed : BOOLEAN,
                    putClosed : BOOLEAN, done : BOOLEAN, closed : BOOLEAN,
                    truncated : BOOLEAN]

ServingRequests == [registered : BOOLEAN, closed : BOOLEAN, inClosed : BOOLEAN]

TypeOK ==
    /\ wire \in [Dirs -> Seq(Frames)]
    /\ gate \in [Dirs -> Gate]
    /\ pump \in [Dirs -> Pump]
    /\ chan \in [Dirs -> Seq(Int)]
    /\ delivered \in [Dirs -> Int]
    /\ got \in [Dirs -> Int]
    /\ sent \in [Dirs -> Nat]
    /\ nulls \in [Dirs -> Nat]
    /\ sender \in [Dirs -> SenderStates]
    /\ opener \in {"idle", "establishing", "abandoning", "open", "failed"}
    /\ watcher \in {"off", "on", "cancelling"}
    /\ cancelled \in BOOLEAN
    /\ rc \in RequestContexts
    /\ ending \in BOOLEAN
    /\ handler \in {"none", "spawned", "stored", "running", "returned"}
    /\ sr \in ServingRequests

\* The StreamReady delivery must not count towards a grant: recvDelivered
\* starts at -1, inboundDelivered at 0.
Init ==
    /\ wire = [d \in Dirs |-> << >>]
    /\ gate = [d \in Dirs |-> NewCreditGate]
    /\ pump = [d \in Dirs |-> NewStreamPump]
    /\ chan = [d \in Dirs |-> << >>]
    /\ delivered = [d \in Dirs |-> IF d = "down" THEN -1 ELSE 0]
    /\ got = [d \in Dirs |-> IF d = "down" THEN -1 ELSE 0]
    /\ sent = [d \in Dirs |-> 0]
    /\ nulls = [d \in Dirs |-> 0]
    /\ sender = [d \in Dirs |-> "off"]
    /\ opener = "idle"
    /\ watcher = "off"
    /\ cancelled = FALSE
    /\ rc \in [kind : Kinds, inMap : {FALSE}, getClosed : {FALSE},
               putClosed : {FALSE}, done : {FALSE}, closed : {FALSE},
               truncated : {FALSE}]
    /\ ending = FALSE
    /\ handler = "none"
    /\ sr = [registered |-> FALSE, closed |-> FALSE, inClosed |-> FALSE]

-----------------------------------------------------------------------------
(* Shared steps *)

\* d's connection with one more frame.
Enqueue(d, f) == [wire EXCEPT ![d] = Append(@, f)]

\* The connection after the reader of d took its first frame.
Dequeue(d) == [wire EXCEPT ![d] = Tail(@)]

\* The same, the reader answering with f in the other direction.
DequeueReply(d, f) ==
    [wire EXCEPT ![d] = Tail(@), ![Opposite(d)] = Append(@, f)]

Arrives(d, t) == wire[d] # << >> /\ Head(wire[d]).type = t

Goto(d, pc) == sender' = [sender EXCEPT ![d] = pc]

\* The application has another value for d, a Null one included.
MoreValues(d) == sent[d] < MaxValues[kind][d] \/ nulls[d] < MaxNulls[kind][d]

-----------------------------------------------------------------------------
(* The client's request context *)

\* rpcRequestCtx.closeResult: done, the send gate, then the pump's input end.
\* A put-stream has no pump; its resultCh is closed with done.
CloseResult ==
    /\ gate' = [gate EXCEPT !["up"] = CloseGate(@)]
    /\ pump' = [pump EXCEPT !["down"] = ClosePump(@)]

\* rpcRequestCtx.Close, keeping or deleting the entry of requestCtxMap.
ClientClose(inMap) ==
    /\ rc' = [rc EXCEPT !.inMap = inMap, !.getClosed = TRUE, !.putClosed = TRUE,
                        !.done = TRUE, !.closed = TRUE]
    /\ gate' = [gate EXCEPT !["up"] = CloseGate(@)]
    /\ pump' = [pump EXCEPT !["down"] = ClosePump(StopPump(@))]

ResultClosed == IF HasDown THEN pump["down"].exited ELSE rc.done

-----------------------------------------------------------------------------
(* The client: opening a stream *)

\* Wrong: streamOut starts with the request instead of with its acknowledgement.
OpenStreamStartsOut ==
    /\ opener = "idle"
    /\ opener' = "establishing"
    /\ rc' = [rc EXCEPT !.inMap = TRUE]
    /\ wire' = Enqueue("up", Frame("Open", 0))
    /\ Goto("up", "loop")
    /\ UNCHANGED <<flow, sent, nulls, watcher, cancelled, ending, server>>

\* sendRequest: the context is in the map before the request is on the wire.
OpenStream ==
    /\ opener = "idle"
    /\ opener' = "establishing"
    /\ rc' = [rc EXCEPT !.inMap = TRUE]
    /\ wire' = Enqueue("up", Frame("Open", 0))
    /\ UNCHANGED <<flow, sent, nulls, sender, watcher, cancelled, ending, server>>

\* SingleResp got the StreamReady: the initial window is granted (get, chat),
\* the context is watched, streamOut starts (put, chat).
Establish ==
    /\ opener = "establishing"
    /\ chan["down"] # << >>
    /\ chan' = [chan EXCEPT !["down"] = Tail(@)]
    /\ got' = [got EXCEPT !["down"] = Head(chan["down"])]
    /\ opener' = "open"
    /\ watcher' = "on"
    /\ wire' = IF HasDown
               THEN Enqueue("up", Frame("StreamCredit", Window["down"]))
               ELSE wire
    /\ sender' = IF HasUp THEN [sender EXCEPT !["up"] = "loop"] ELSE sender
    /\ UNCHANGED <<gate, pump, delivered, sent, nulls, cancelled, rc, ending,
                   server>>

\* SingleResp found resultCh closed: the request failed.
EstablishFailed ==
    /\ opener = "establishing"
    /\ chan["down"] = << >> /\ ResultClosed
    /\ opener' = "failed"
    /\ ClientClose(rc.inMap)
    /\ UNCHANGED <<wire, chan, delivered, got, sent, nulls, sender, watcher,
                   cancelled, ending, server>>

\* SingleResp ran out of time, or its context ended: it cancels the request,
EstablishTimeout ==
    /\ opener = "establishing"
    /\ opener' = "abandoning"
    /\ wire' = Enqueue("up", Frame("Cancel", 0))
    /\ UNCHANGED <<flow, sent, nulls, sender, watcher, cancelled, rc, ending,
                   server>>

\* and the caller closes the context (the map entry stays).
Abandon ==
    /\ opener = "abandoning"
    /\ opener' = "failed"
    /\ ClientClose(rc.inMap)
    /\ UNCHANGED <<wire, chan, delivered, got, sent, nulls, sender, watcher,
                   cancelled, ending, server>>

-----------------------------------------------------------------------------
(* The client: giving up *)

\* watchContext: the context ended; cancel first, close next.
WatchCancel ==
    /\ "ctx" \in Cancels[kind]
    /\ watcher = "on"
    /\ watcher' = "cancelling"
    /\ wire' = Enqueue("up", Frame("Cancel", 0))
    /\ UNCHANGED <<flow, sent, nulls, sender, opener, cancelled, rc, ending,
                   server>>

WatchClose ==
    /\ watcher = "cancelling"
    /\ watcher' = "off"
    /\ ClientClose(rc.inMap)
    /\ UNCHANGED <<wire, chan, delivered, got, sent, nulls, sender, opener,
                   cancelled, ending, server>>

WatchExit ==
    /\ watcher = "on" /\ rc.done
    /\ watcher' = "off"
    /\ UNCHANGED <<wire, flow, sent, nulls, sender, opener, cancelled, rc, ending,
                   server>>

\* The application calls CancelRequest(id); at most once in this model, and not
\* for a put-stream, whose id PutStream does not return.
AppCancel ==
    /\ "explicit" \in Cancels[kind]
    /\ opener = "open" /\ HasDown /\ ~cancelled
    /\ cancelled' = TRUE
    /\ wire' = Enqueue("up", Frame("Cancel", 0))
    /\ UNCHANGED <<flow, sent, nulls, sender, opener, watcher, rc, ending,
                   server>>

\* The application reads the channel GetStream or Chat returned.
AppReceive ==
    /\ opener = "open" /\ chan["down"] # << >>
    /\ chan' = [chan EXCEPT !["down"] = Tail(@)]
    /\ got' = [got EXCEPT !["down"] = Head(chan["down"])]
    /\ UNCHANGED <<wire, gate, pump, delivered, sent, nulls, sender, client,
                   server>>

-----------------------------------------------------------------------------
(* The client: streamOut *)

OutLoop ==
    /\ sender["up"] = "loop"
    /\ Goto("up", IF rc.putClosed THEN "finish" ELSE "take")
    /\ UNCHANGED <<wire, flow, sent, nulls, client, server>>

OutTake ==
    /\ sender["up"] = "take"
    /\ MoreValues("up")
    /\ Goto("up", "gate")
    /\ UNCHANGED <<wire, flow, sent, nulls, client, server>>

\* The application closed putCh.
OutEnd ==
    /\ sender["up"] = "take"
    /\ wire' = Enqueue("up", Frame("StreamEnd", 0))
    /\ Goto("up", "finish")
    /\ UNCHANGED <<flow, sent, nulls, client, server>>

OutRefused ==
    /\ sender["up"] = "gate" /\ AcquireRefused(gate["up"])
    /\ Goto("up", "finish")
    /\ UNCHANGED <<wire, flow, sent, nulls, client, server>>

OutAcquire ==
    /\ sender["up"] = "gate" /\ AcquireGranted(gate["up"])
    /\ gate' = [gate EXCEPT !["up"] = Acquire(@)]
    /\ Goto("up", "send")
    /\ UNCHANGED <<wire, pump, chan, delivered, got, sent, nulls, client, server>>

OutSend ==
    /\ sender["up"] = "send" /\ sent["up"] < MaxValues[kind]["up"]
    /\ sent' = [sent EXCEPT !["up"] = @ + 1]
    /\ wire' = Enqueue("up", Frame("StreamValue", sent["up"] + 1))
    /\ Goto("up", "loop")
    /\ UNCHANGED <<flow, nulls, client, server>>

\* The application's value was Null: it is sent, and paid for, like any other.
OutSendNull ==
    /\ sender["up"] = "send" /\ nulls["up"] < MaxNulls[kind]["up"]
    /\ nulls' = [nulls EXCEPT !["up"] = @ + 1]
    /\ wire' = Enqueue("up", Frame("NullValue", 0))
    /\ Goto("up", "loop")
    /\ UNCHANGED <<flow, sent, client, server>>

\* TryPutClose: set putClosed and, for a put-stream, close the result;
OutFinish ==
    /\ sender["up"] = "finish"
    /\ Goto("up", "retire")
    /\ IF kind = "put"
       THEN rc' = [rc EXCEPT !.putClosed = TRUE, !.done = TRUE] /\ CloseResult
       ELSE rc' = [rc EXCEPT !.putClosed = TRUE] /\ UNCHANGED <<gate, pump>>
    /\ UNCHANGED <<wire, chan, delivered, got, sent, nulls, opener, watcher,
                   cancelled, ending, server>>

\* then retire the entry unless a chat's other half is still open.
OutRetire ==
    /\ sender["up"] = "retire"
    /\ Goto("up", "done")
    /\ rc' = [rc EXCEPT !.inMap = @ /\ ~(kind = "put" \/ rc.getClosed)]
    /\ UNCHANGED <<wire, flow, sent, nulls, opener, watcher, cancelled, ending,
                   server>>

-----------------------------------------------------------------------------
(* The client: the response loop (getResponseHandler, processResponse) *)

ClientReads(t) == ~ending /\ Arrives("down", t)

\* A frame whose request is no longer in the map is reported and dropped.
RecvUnknown ==
    /\ ~ending /\ wire["down"] # << >> /\ ~rc.inMap
    /\ wire' = Dequeue("down")
    /\ UNCHANGED <<flow, sent, nulls, sender, client, server>>

\* A put-stream has no pump: the acknowledgement goes straight to resultCh.
RecvReady ==
    /\ ClientReads("StreamReady") /\ rc.inMap
    /\ wire' = Dequeue("down")
    /\ IF HasDown
       THEN /\ pump' = [pump EXCEPT !["down"] = Push(@, Window["down"], 0)]
            /\ UNCHANGED chan
       ELSE /\ chan' = IF rc.done THEN chan
                       ELSE [chan EXCEPT !["down"] = Append(@, 0)]
            /\ UNCHANGED pump
    /\ UNCHANGED <<gate, delivered, got, sent, nulls, sender, client, server>>

\* A refused value is reported as a truncation and cancels the request, once.
RecvValue ==
    /\ ClientReads("StreamValue") /\ rc.inMap
    /\ LET refused == ~PushAccepted(pump["down"], Window["down"])
       IN  /\ rc' = [rc EXCEPT !.truncated = @ \/ refused]
           /\ wire' = IF refused /\ ~rc.truncated
                      THEN DequeueReply("down", Frame("Cancel", 0))
                      ELSE Dequeue("down")
    /\ pump' = [pump EXCEPT !["down"] =
                    Push(@, Window["down"], Head(wire["down"]).n)]
    /\ UNCHANGED <<gate, chan, delivered, got, sent, nulls, sender, opener,
                   watcher, cancelled, ending, server>>

\* A Null value is no payload: it is not pushed, so no delivery of it is counted
\* and its credit never comes back.
RecvNull ==
    /\ ClientReads("NullValue") /\ rc.inMap
    /\ wire' = Dequeue("down")
    /\ UNCHANGED <<flow, sent, nulls, sender, client, server>>

\* TryGetClose: the final value, getClosed, closeResult;
RecvEnd ==
    /\ ClientReads("StreamEnd") /\ rc.inMap
    /\ LET n == Head(wire["down"]).n
       IN  pump' = [pump EXCEPT !["down"] =
                        ClosePump(IF n = 0 THEN @ ELSE Push(@, Window["down"], n))]
    /\ gate' = [gate EXCEPT !["up"] = CloseGate(@)]
    /\ rc' = [rc EXCEPT !.getClosed = TRUE, !.done = TRUE]
    /\ ending' = TRUE
    /\ wire' = Dequeue("down")
    /\ UNCHANGED <<chan, delivered, got, sent, nulls, sender, opener, watcher,
                   cancelled, server>>

\* then retire the entry unless a chat's streamOut is still running.
RecvEndRetire ==
    /\ ending
    /\ ending' = FALSE
    /\ rc' = [rc EXCEPT !.inMap = @ /\ ~(kind # "chat" \/ rc.putClosed)]
    /\ UNCHANGED <<wire, flow, sent, nulls, sender, opener, watcher, cancelled,
                   server>>

RecvError ==
    /\ ClientReads("Error") /\ rc.inMap
    /\ ClientClose(FALSE)
    /\ wire' = Dequeue("down")
    /\ UNCHANGED <<chan, delivered, got, sent, nulls, sender, opener, watcher,
                   cancelled, ending, server>>

\* Wrong: the grant is added twice.
RecvCreditTwice ==
    /\ ClientReads("StreamCredit") /\ rc.inMap
    /\ gate' = [gate EXCEPT !["up"] = Grant(Grant(@, Head(wire["down"]).n),
                                            Head(wire["down"]).n)]
    /\ wire' = Dequeue("down")
    /\ UNCHANGED <<pump, chan, delivered, got, sent, nulls, sender, client,
                   server>>

RecvCredit ==
    /\ ClientReads("StreamCredit") /\ rc.inMap
    /\ gate' = [gate EXCEPT !["up"] = Grant(@, Head(wire["down"]).n)]
    /\ wire' = Dequeue("down")
    /\ UNCHANGED <<pump, chan, delivered, got, sent, nulls, sender, client,
                   server>>

-----------------------------------------------------------------------------
(* The server: the read loop (processRequest, serveRunningRequest) *)

\* servingRequest.Close after deleteRequest, i.e. closeRequest.
ServerClose ==
    /\ sr' = [registered |-> FALSE, closed |-> TRUE, inClosed |-> TRUE]
    /\ gate' = [gate EXCEPT !["down"] = CloseGate(@)]
    /\ pump' = [pump EXCEPT !["up"] = StopPump(@)]

\* serveNewRequest hands the request to a goroutine of its own,
ServeOpen ==
    /\ Arrives("up", "Open")
    /\ handler' = "spawned"
    /\ wire' = Dequeue("up")
    /\ UNCHANGED <<flow, sent, nulls, sender, client, sr>>

\* or turns it down: too many requests are being served.
ServeBusy ==
    /\ Arrives("up", "Open")
    /\ handler' = "returned"
    /\ wire' = DequeueReply("up", Frame("Error", 0))
    /\ UNCHANGED <<flow, sent, nulls, sender, client, sr>>

\* A frame for a request that is not in the map: a cancel is ignored (streams
\* are not in requestCancels), anything else is an unknown new request.
ServeUnknown ==
    /\ wire["up"] # << >> /\ ~sr.registered
    /\ Head(wire["up"]).type # "Open"
    /\ wire' = Dequeue("up")
    /\ UNCHANGED <<flow, sent, nulls, sender, client, server>>

ServeCancel ==
    /\ Arrives("up", "Cancel") /\ sr.registered
    /\ ServerClose
    /\ wire' = Dequeue("up")
    /\ UNCHANGED <<chan, delivered, got, sent, nulls, sender, client, handler>>

\* Wrong: the grant is added twice.
ServeCreditTwice ==
    /\ Arrives("up", "StreamCredit") /\ sr.registered
    /\ gate' = [gate EXCEPT !["down"] = Grant(Grant(@, Head(wire["up"]).n),
                                              Head(wire["up"]).n)]
    /\ wire' = Dequeue("up")
    /\ UNCHANGED <<pump, chan, delivered, got, sent, nulls, sender, client,
                   server>>

\* An overrun of the inbound pump ends the stream with an error.
ServeValue ==
    /\ Arrives("up", "StreamValue") /\ sr.registered
    /\ LET p == Push(pump["up"], Window["up"], Head(wire["up"]).n)
       IN  IF p.overflow
           THEN /\ sr' = [registered |-> FALSE, closed |-> TRUE, inClosed |-> TRUE]
                /\ gate' = [gate EXCEPT !["down"] = CloseGate(@)]
                /\ pump' = [pump EXCEPT !["up"] = StopPump(p)]
                /\ wire' = DequeueReply("up", Frame("Error", 0))
           ELSE /\ pump' = [pump EXCEPT !["up"] = p]
                /\ wire' = Dequeue("up")
                /\ UNCHANGED <<sr, gate>>
    /\ UNCHANGED <<chan, delivered, got, sent, nulls, sender, client, handler>>

\* incomingStreamValue offers no Null value to the handler.
ServeNull ==
    /\ Arrives("up", "NullValue") /\ sr.registered
    /\ wire' = Dequeue("up")
    /\ UNCHANGED <<flow, sent, nulls, sender, client, server>>

\* End of the client's input: the handler's channel is drained and closed; a
\* chat lives on for its output, a put-stream is retired.
ServeEnd ==
    /\ Arrives("up", "StreamEnd") /\ sr.registered
    /\ pump' = IF sr.inClosed THEN pump ELSE [pump EXCEPT !["up"] = ClosePump(@)]
    /\ sr' = [sr EXCEPT !.inClosed = TRUE, !.registered = (kind = "chat")]
    /\ wire' = Dequeue("up")
    /\ UNCHANGED <<gate, chan, delivered, got, sent, nulls, sender, client,
                   handler>>

ServeCredit ==
    /\ Arrives("up", "StreamCredit") /\ sr.registered
    /\ gate' = [gate EXCEPT !["down"] = Grant(@, Head(wire["up"]).n)]
    /\ wire' = Dequeue("up")
    /\ UNCHANGED <<pump, chan, delivered, got, sent, nulls, sender, client,
                   server>>

-----------------------------------------------------------------------------
(* The server: the handler goroutine (doServeFunctionRequest) *)

\* No such function, wrong arguments, wrong kind, or too many open streams.
HandlerReject ==
    /\ handler = "spawned"
    /\ handler' = "returned"
    /\ wire' = Enqueue("down", Frame("Error", 0))
    /\ UNCHANGED <<flow, sent, nulls, sender, client, sr>>

\* newServingRequest publishes the request in the read loop's map,
HandlerStore ==
    /\ handler = "spawned"
    /\ handler' = "stored"
    /\ sr' = [sr EXCEPT !.registered = TRUE]
    /\ UNCHANGED <<wire, flow, sent, nulls, sender, client>>

\* and only then grants the client its inbound window.
HandlerGrant ==
    /\ handler = "stored"
    /\ handler' = "running"
    /\ wire' = IF HasUp
               THEN Enqueue("down", Frame("StreamCredit", Window["up"]))
               ELSE wire
    /\ UNCHANGED <<flow, sent, nulls, sender, client, sr>>

\* The user's handler returned: acknowledge a put-stream, which has nothing more
\* to send, or start the streamer.
HandlerOk ==
    /\ handler = "running"
    /\ handler' = "returned"
    /\ IF HasDown
       THEN Goto("down", "ready") /\ UNCHANGED wire
       ELSE Goto("down", "done") /\ wire' = Enqueue("down", Frame("StreamReady", 0))
    /\ UNCHANGED <<flow, sent, nulls, client, sr>>

HandlerError ==
    /\ handler = "running"
    /\ handler' = "returned"
    /\ ServerClose
    /\ wire' = Enqueue("down", Frame("Error", 0))
    /\ UNCHANGED <<chan, delivered, got, sent, nulls, sender, client>>

\* A panicking handler is recovered; nothing is sent and nothing retired.
HandlerPanic ==
    /\ handler = "running"
    /\ handler' = "returned"
    /\ UNCHANGED <<wire, flow, sent, nulls, sender, client, sr>>

\* The handler reads its inbound channel.
HandlerReceive ==
    /\ chan["up"] # << >>
    /\ chan' = [chan EXCEPT !["up"] = Tail(@)]
    /\ got' = [got EXCEPT !["up"] = Head(chan["up"])]
    /\ UNCHANGED <<wire, gate, pump, delivered, sent, nulls, sender, client,
                   server>>

-----------------------------------------------------------------------------
(* The server: outgoingStreamer *)

StreamerReady ==
    /\ sender["down"] = "ready"
    /\ wire' = Enqueue("down", Frame("StreamReady", 0))
    /\ Goto("down", "take")
    /\ UNCHANGED <<flow, sent, nulls, client, server>>

StreamerTake ==
    /\ sender["down"] = "take" /\ ~sr.closed
    /\ MoreValues("down")
    /\ Goto("down", "gate")
    /\ UNCHANGED <<wire, flow, sent, nulls, client, server>>

\* The handler closed its channel, or the request was closed; in that case the
\* StreamEnd may carry a value taken from the channel, without credit.
StreamerEnd ==
    /\ sender["down"] = "take"
    /\ \E n \in {0, sent["down"] + 1} :
          /\ n # 0 => sr.closed /\ sent["down"] < MaxValues[kind]["down"]
          /\ wire' = Enqueue("down", Frame("StreamEnd", n))
    /\ ServerClose
    /\ Goto("down", "done")
    /\ UNCHANGED <<chan, delivered, got, sent, nulls, client, handler>>

\* A closed gate ends the streamer; no StreamEnd is sent.
StreamerRefused ==
    /\ sender["down"] = "gate" /\ AcquireRefused(gate["down"])
    /\ ServerClose
    /\ Goto("down", "done")
    /\ UNCHANGED <<wire, chan, delivered, got, sent, nulls, client, handler>>

StreamerAcquire ==
    /\ sender["down"] = "gate" /\ AcquireGranted(gate["down"])
    /\ gate' = [gate EXCEPT !["down"] = Acquire(@)]
    /\ Goto("down", "send")
    /\ UNCHANGED <<wire, pump, chan, delivered, got, sent, nulls, client, server>>

StreamerSend ==
    /\ sender["down"] = "send" /\ sent["down"] < MaxValues[kind]["down"]
    /\ sent' = [sent EXCEPT !["down"] = @ + 1]
    /\ wire' = Enqueue("down", Frame("StreamValue", sent["down"] + 1))
    /\ Goto("down", "take")
    /\ UNCHANGED <<flow, nulls, client, server>>

\* The handler's value was Null.
StreamerSendNull ==
    /\ sender["down"] = "send" /\ nulls["down"] < MaxNulls[kind]["down"]
    /\ nulls' = [nulls EXCEPT !["down"] = @ + 1]
    /\ wire' = Enqueue("down", Frame("NullValue", 0))
    /\ Goto("down", "take")
    /\ UNCHANGED <<flow, sent, client, server>>

-----------------------------------------------------------------------------
(* The pumps' goroutines *)

PumpTake(d) ==
    /\ PumpMayPop(pump[d])
    /\ pump' = [pump EXCEPT ![d] = PumpPop(@)]
    /\ UNCHANGED <<wire, gate, chan, delivered, got, sent, nulls, sender, client,
                   server>>

PumpDeliver(d) ==
    /\ pump[d].hand # << >> /\ Len(chan[d]) < ChanCap[d]
    /\ chan' = [chan EXCEPT ![d] = Append(@, Head(pump[d].hand))]
    /\ pump' = [pump EXCEPT ![d] = PumpSent(@)]
    /\ UNCHANGED <<wire, gate, delivered, got, sent, nulls, sender, client,
                   server>>

\* onDeliver (grantRecv, grantInbound): count the delivery; grant once half a
\* window has been delivered.
PumpAck(d) ==
    /\ pump[d].acking
    /\ pump' = [pump EXCEPT ![d] = PumpAcked(@)]
    /\ IF GrantDue(delivered[d], Window[d])
       THEN /\ delivered' = [delivered EXCEPT ![d] = 0]
            /\ wire' = Enqueue(Opposite(d), Frame("StreamCredit", delivered[d] + 1))
       ELSE /\ delivered' = [delivered EXCEPT ![d] = @ + 1]
            /\ UNCHANGED wire
    /\ UNCHANGED <<gate, chan, got, sent, nulls, sender, client, server>>

PumpClose(d) ==
    /\ PumpMayExit(pump[d])
    /\ pump' = [pump EXCEPT ![d] = PumpExit(@)]
    /\ UNCHANGED <<wire, gate, chan, delivered, got, sent, nulls, sender, client,
                   server>>

-----------------------------------------------------------------------------
Opener     == OpenStream \/ Establish \/ EstablishFailed \/ EstablishTimeout \/ Abandon
Watcher    == WatchCancel \/ WatchClose \/ WatchExit
StreamOut  == \/ OutLoop \/ OutTake \/ OutEnd \/ OutRefused \/ OutAcquire
              \/ OutSend \/ OutSendNull \/ OutFinish \/ OutRetire
ClientLoop == \/ RecvUnknown \/ RecvReady \/ RecvValue \/ RecvNull \/ RecvEnd
              \/ RecvEndRetire \/ RecvError \/ RecvCredit
ServerLoop == \/ ServeOpen \/ ServeBusy \/ ServeUnknown \/ ServeCancel
              \/ ServeValue \/ ServeNull \/ ServeEnd \/ ServeCredit
Handler    == \/ HandlerReject \/ HandlerStore \/ HandlerGrant \/ HandlerOk
              \/ HandlerError \/ HandlerPanic
Streamer   == \/ StreamerReady \/ StreamerTake \/ StreamerEnd
              \/ StreamerRefused \/ StreamerAcquire \/ StreamerSend \/ StreamerSendNull
PumpStep(d) == PumpTake(d) \/ PumpDeliver(d) \/ PumpAck(d) \/ PumpClose(d)

Next ==
    \/ Opener \/ Watcher \/ AppCancel \/ AppReceive \/ StreamOut \/ ClientLoop
    \/ ServerLoop \/ Handler \/ HandlerReceive \/ Streamer
    \/ \E d \in Dirs : PumpStep(d)

Spec == Init /\ [][Next]_vars

-----------------------------------------------------------------------------
(* Safety *)

\* The reader of d finds the request in its map.
InMap(d) == IF d = "down" THEN rc.inMap ELSE sr.registered

\* Flow control (valuerpc/credit.go: "the sender can never outrun the
\* receiver"): a StreamValue frame that reaches a request still accepting
\* input finds room in the pump's queue, so a cooperating peer never overflows
\* it and no value is dropped for lack of room.
CreditedValueFits ==
    \A d \in Dirs :
        /\ Arrives(d, "StreamValue") /\ InMap(d)
        /\ ~pump[d].inputEnd /\ ~pump[d].stopped
        => Len(pump[d].queue) < Window[d]

\* What the receiver holds for the application and has not handed over.
Backlog(d) ==
    chan[d] \o (IF pump[d].exited THEN << >> ELSE pump[d].hand \o pump[d].queue)

\* Values reach the application in the order they were sent, none missing and
\* none twice: what waits for it continues, without a gap, the number it took
\* last (StreamReady first, then the stream values).
NoGap ==
    \A d \in Dirs : \A i \in 1..Len(Backlog(d)) : Backlog(d)[i] = got[d] + i

\* A stream nobody gave up on is complete when its channel closes: the
\* application that drained the channel has every value that was sent.
CompleteAtClose ==
    /\ HasDown /\ pump["down"].exited /\ ~pump["down"].stopped
              /\ chan["down"] = << >> /\ ~cancelled /\ watcher # "cancelling"
            => got["down"] = sent["down"] /\ sender["down"] = "done"
    /\ HasUp /\ pump["up"].exited /\ ~pump["up"].stopped /\ chan["up"] = << >>
            => got["up"] = sent["up"] /\ sender["up"] \in {"finish", "retire", "done"}

\* valueserver/serving_client.go:554-556: the window is granted only once the
\* request is in the read loop's map, so no frame of a running stream can be
\* mis-dispatched as a new request while the handler goroutine registers it.
NoEarlyFrame ==
    handler \in {"none", "spawned"} =>
        \A i \in 1..Len(wire["up"]) : wire["up"][i].type \in {"Open", "Cancel"}

\* d is running: its window was granted and nothing is torn down yet.
Running(d) ==
    /\ rc.inMap /\ sr.registered /\ ~pump[d].stopped /\ ~pump[d].inputEnd
    /\ IF d = "down" THEN HasDown /\ opener = "open"
                     ELSE HasUp /\ handler \in {"running", "returned"}

\* Credit is not invented, and the only credit that is lost is that of the Null
\* values, one each and for good (client.go:436 and serving_request.go:187 drop
\* them before the delivery is counted): while a stream runs, the credit at the
\* gate, the grants and values under way, the values held by the receiver, the
\* deliveries not granted back yet and the Null values add up to the window.
CreditConserved ==
    \A d \in Dirs : Running(d) =>
        gate[d].credit + CreditOn(wire[Opposite(d)])
          + (IF sender[d] = "send" THEN 1 ELSE 0) + Count(wire[d], "StreamValue")
          + Len(pump[d].queue) + Len(pump[d].hand)
          + (IF pump[d].acking THEN 1 ELSE 0) + delivered[d] + nulls[d]
        = Window[d]
=============================================================================

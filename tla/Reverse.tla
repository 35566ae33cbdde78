------------------------------ MODULE Reverse -------------------------------
(***************************************************************************)
(* One reverse call or reverse stream: the server, through its             *)
(* servingClient, calls or opens a stream to a function the client         *)
(* registered (CallFunction, GetStream, PutStream, Chat of                 *)
(* valueserver/serving_stream.go, served by valueclient/serving.go).       *)
(*                                                                         *)
(* It is the mirror image of Stream, by other code that differs where it   *)
(* matters: the responder registers the stream on its read loop, giving up *)
(* deletes the initiator's entry, a unary call has neither timeout nor     *)
(* cancel, and nothing fails the request when the connection is replaced.  *)
(* A direction is named for where its values go: "up" to the server (get,  *)
(* chat, the result of a call), "down" to the client (put, chat).  Values  *)
(* are numbered from 1; StreamReady is number 0.  A Null value, which a    *)
(* receiver drops without counting it, has no number.                      *)
(***************************************************************************)
EXTENDS FlowControl

CONSTANTS
    Kinds,      \* the kinds of request that may be made
    Window,     \* Window[d]: maxPending, the receiver's credit window
    ChanCap,    \* ChanCap[d]: capacity of the channel the application reads
    MaxValues,  \* MaxValues[k][d]: bound on the values the application produces
    MaxNulls,   \* MaxNulls[k][d]: bound on the Null values among them
    Ends,       \* what may go wrong: subset of {"ctx", "server", "client"}
    MaxDrops    \* bound on the connections that are replaced

Dirs == {"down", "up"}

RequestKinds == {"call", "get", "put", "chat"}

ASSUME KindsAssumption     == Kinds \subseteq RequestKinds
ASSUME WindowAssumption    == Window \in [Dirs -> Nat \ {0}]
ASSUME ChanCapAssumption   == ChanCap \in [Dirs -> Nat \ {0}]
ASSUME MaxValuesAssumption == MaxValues \in [RequestKinds -> [Dirs -> Nat]]
ASSUME MaxNullsAssumption  == MaxNulls \in [RequestKinds -> [Dirs -> Nat]]
ASSUME EndsAssumption      == Ends \subseteq {"ctx", "server", "client"}
ASSUME MaxDropsAssumption  == MaxDrops \in Nat

Opposite(d) == IF d = "down" THEN "up" ELSE "down"

VARIABLES
    wire,       \* wire[d]: the session's frames towards "down"/"up"
    gate,       \* gate[d]: the sender's CreditGate
    pump,       \* pump[d]: the receiver's StreamPump
    chan,       \* chan[d]: resultCh / inC, what the application has not read
    delivered,  \* delivered[d]: recvDelivered / inboundDelivered
    got,        \* got[d]: number of the last value the application took
    sent,       \* sent[d]: number of the last StreamValue frame sent
    nulls,      \* nulls[d]: how many Null values were sent, a history
    sender,     \* sender[d]: program counter of outgoingStreamer / streamOut
    opener,     \* program counter of openStream / CallFunction
    watcher,    \* program counter of watchStream's goroutine
    cs,         \* the server's clientStream; for a call, its pendingCalls entry
    ending,     \* the server's read loop is inside tryGetClose
    shut,       \* servingClient.Close: "no", "sweeping" or "yes"
    handler,    \* program counter of the client's handler goroutine
    sr,         \* the client's clientServingRequest
    quit,       \* rpcClient.Close: "no", "swept" or "yes"
    drops       \* connections replaced so far

flow   == <<gate, pump, chan, delivered, got>>
server == <<opener, watcher, cs, ending, shut>>
client == <<handler, sr, quit>>
vars   == <<wire, flow, sent, nulls, sender, server, client, drops>>

kind    == cs.kind
HasUp   == kind \in {"get", "chat"}
HasDown == kind \in {"put", "chat"}

TypeOK ==
    /\ wire \in [Dirs -> Seq(Frames)]
    /\ gate \in [Dirs -> Gate]
    /\ pump \in [Dirs -> Pump]
    /\ chan \in [Dirs -> Seq(Nat)]
    /\ \A d \in Dirs : Len(chan[d]) <= ChanCap[d]
    /\ delivered \in [Dirs -> Int]
    /\ got \in [Dirs -> Nat \cup {-1}]
    /\ sent \in [Dirs -> Nat]
    /\ nulls \in [Dirs -> Nat]
    /\ sender \in [Dirs -> {"off", "ready", "loop", "take", "gate", "send",
                            "finish", "retire", "done"}]
    /\ opener \in {"idle", "sending", "establishing", "abandoning", "open",
                   "returned", "failed"}
    /\ watcher \in {"off", "on", "cancelling"}
    /\ cs \in [kind : Kinds, pending : BOOLEAN, getClosed : BOOLEAN,
               putClosed : BOOLEAN, done : BOOLEAN, closed : BOOLEAN]
    /\ ending \in BOOLEAN
    /\ shut \in {"no", "sweeping", "yes"}
    /\ handler \in {"none", "running", "returned"}
    /\ sr \in [registered : BOOLEAN, closed : BOOLEAN, inClosed : BOOLEAN,
               ctxDone : BOOLEAN]
    /\ quit \in {"no", "swept", "yes"}
    /\ drops \in 0..MaxDrops

\* recvDelivered starts at -1, so that the StreamReady delivery does not count.
Init ==
    /\ wire = [d \in Dirs |-> << >>]
    /\ gate = [d \in Dirs |-> NewCreditGate]
    /\ pump = [d \in Dirs |-> NewStreamPump]
    /\ chan = [d \in Dirs |-> << >>]
    /\ delivered = [d \in Dirs |-> IF d = "up" THEN -1 ELSE 0]
    /\ got = [d \in Dirs |-> IF d = "up" THEN -1 ELSE 0]
    /\ sent = [d \in Dirs |-> 0]
    /\ nulls = [d \in Dirs |-> 0]
    /\ sender = [d \in Dirs |-> "off"]
    /\ opener = "idle" /\ watcher = "off" /\ ending = FALSE /\ shut = "no"
    /\ cs \in [kind : Kinds, pending : {FALSE}, getClosed : {FALSE},
               putClosed : {FALSE}, done : {FALSE}, closed : {FALSE}]
    /\ handler = "none" /\ quit = "no" /\ drops = 0
    /\ sr = [registered |-> FALSE, closed |-> FALSE, inClosed |-> FALSE,
             ctxDone |-> FALSE]

-----------------------------------------------------------------------------
(* Shared steps *)

Online == shut = "no" /\ quit # "yes"

\* servingClient.send and rpcClient.reply: without a connection, or with the
\* session closed, the frame goes nowhere and no sender looks at the error.
Put(w, d, f) == IF Online THEN [w EXCEPT ![d] = Append(@, f)] ELSE w
Enqueue(d, f) == Put(wire, d, f)
Dequeue(d) == [wire EXCEPT ![d] = Tail(@)]
DequeueReply(d, f) == Put(Dequeue(d), Opposite(d), f)

Arrives(d, t) == wire[d] # << >> /\ Head(wire[d]).type = t

\* The application has another value for d, a Null one included.
MoreValues(d) == sent[d] < MaxValues[kind][d] \/ nulls[d] < MaxNulls[kind][d]

Goto(d, pc) == sender' = [sender EXCEPT ![d] = pc]

-----------------------------------------------------------------------------
(* The server's clientStream *)

\* closeResult: done, the send gate, then the end of the pump's input.
CloseResult ==
    /\ gate' = [gate EXCEPT !["down"] = CloseGate(@)]
    /\ pump' = [pump EXCEPT !["up"] = ClosePump(@)]

\* clientStream.Close, keeping or deleting the entry of pendingStreams.
StreamClose(pending) ==
    /\ cs' = [cs EXCEPT !.pending = pending, !.getClosed = TRUE,
                        !.putClosed = TRUE, !.done = TRUE, !.closed = TRUE]
    /\ gate' = [gate EXCEPT !["down"] = CloseGate(@)]
    /\ pump' = [pump EXCEPT !["up"] = ClosePump(StopPump(@))]

ResultClosed == IF HasUp THEN pump["up"].exited ELSE cs.done

-----------------------------------------------------------------------------
(* The server: making a request *)

\* openStream, CallFunction: the entry is stored before the request is sent.
OpenStream ==
    /\ opener = "idle"
    /\ opener' = "sending"
    /\ cs' = [cs EXCEPT !.pending = TRUE]
    /\ UNCHANGED <<wire, flow, sent, nulls, sender, watcher, ending, shut, client,
                   drops>>

\* A send to a closing session may still win its select and enqueue the frame.
SendOpen ==
    /\ opener = "sending"
    /\ opener' = "establishing"
    /\ wire' = Enqueue("down", Frame("Open", 0))
    /\ UNCHANGED <<flow, sent, nulls, sender, watcher, cs, ending, shut, client,
                   drops>>

SendFailed ==
    /\ opener = "sending" /\ shut # "no"
    /\ opener' = "failed"
    /\ StreamClose(FALSE)
    /\ UNCHANGED <<wire, chan, delivered, got, sent, nulls, sender, watcher,
                   ending, shut, client, drops>>

\* awaitReady got the StreamReady: the window is granted (get, chat), the
\* context watched, streamOut started (put, chat).
Establish ==
    /\ opener = "establishing" /\ kind # "call"
    /\ chan["up"] # << >>
    /\ chan' = [chan EXCEPT !["up"] = Tail(@)]
    /\ got' = [got EXCEPT !["up"] = Head(chan["up"])]
    /\ opener' = "open"
    /\ watcher' = "on"
    /\ wire' = IF HasUp THEN Enqueue("down", Frame("StreamCredit", Window["up"]))
                        ELSE wire
    /\ sender' = IF HasDown THEN [sender EXCEPT !["down"] = "loop"] ELSE sender
    /\ UNCHANGED <<gate, pump, delivered, sent, nulls, cs, ending, shut, client,
                   drops>>

\* awaitReady found resultCh closed.
EstablishFailed ==
    /\ opener = "establishing" /\ kind # "call"
    /\ chan["up"] = << >> /\ ResultClosed
    /\ opener' = "failed"
    /\ UNCHANGED <<wire, flow, sent, nulls, sender, watcher, cs, ending, shut,
                   client, drops>>

\* Wrong: a stream that is given up on is only forgotten.
EstablishTimeoutSilent ==
    /\ opener = "establishing" /\ kind # "call"
    /\ opener' = "abandoning"
    /\ UNCHANGED <<wire, flow, sent, nulls, sender, watcher, cs, ending, shut,
                   client, drops>>

\* The timer, the context or the session's end: cancelClientStream tells the
\* client,
EstablishTimeout ==
    /\ opener = "establishing" /\ kind # "call"
    /\ opener' = "abandoning"
    /\ wire' = Enqueue("down", Frame("Cancel", 0))
    /\ UNCHANGED <<flow, sent, nulls, sender, watcher, cs, ending, shut, client,
                   drops>>

\* then deletes the entry and closes the stream.
Abandon ==
    /\ opener = "abandoning"
    /\ opener' = "failed"
    /\ StreamClose(FALSE)
    /\ UNCHANGED <<wire, chan, delivered, got, sent, nulls, sender, watcher,
                   ending, shut, client, drops>>

\* CallFunction: the reply, or the end of the context or the session; the
\* deferred Delete removes the entry.
CallReply ==
    /\ opener = "establishing" /\ kind = "call" /\ chan["up"] # << >>
    /\ chan' = [chan EXCEPT !["up"] = Tail(@)]
    /\ opener' = "returned"
    /\ cs' = [cs EXCEPT !.pending = FALSE]
    /\ UNCHANGED <<wire, gate, pump, delivered, got, sent, nulls, sender, watcher,
                   ending, shut, client, drops>>

CallGiveUp ==
    /\ opener = "establishing" /\ kind = "call"
    /\ "ctx" \in Ends \/ shut # "no"
    /\ opener' = "failed"
    /\ cs' = [cs EXCEPT !.pending = FALSE]
    /\ UNCHANGED <<wire, flow, sent, nulls, sender, watcher, ending, shut, client,
                   drops>>

\* watchStream: the context ended; the same two steps of cancelClientStream.
WatchCancel ==
    /\ "ctx" \in Ends /\ watcher = "on"
    /\ watcher' = "cancelling"
    /\ wire' = Enqueue("down", Frame("Cancel", 0))
    /\ UNCHANGED <<flow, sent, nulls, sender, opener, cs, ending, shut, client,
                   drops>>

WatchClose ==
    /\ watcher = "cancelling"
    /\ watcher' = "off"
    /\ StreamClose(FALSE)
    /\ UNCHANGED <<wire, chan, delivered, got, sent, nulls, sender, opener,
                   ending, shut, client, drops>>

WatchExit ==
    /\ watcher = "on" /\ (cs.done \/ shut # "no")
    /\ watcher' = "off"
    /\ UNCHANGED <<wire, flow, sent, nulls, sender, opener, cs, ending, shut,
                   client, drops>>

\* The caller reads the channel GetStream or Chat returned.
AppReceive ==
    /\ opener = "open" /\ chan["up"] # << >>
    /\ chan' = [chan EXCEPT !["up"] = Tail(@)]
    /\ got' = [got EXCEPT !["up"] = Head(chan["up"])]
    /\ UNCHANGED <<wire, gate, pump, delivered, sent, nulls, sender, server,
                   client, drops>>
-----------------------------------------------------------------------------
(* The server: streamOut *)

OutLoop ==
    /\ sender["down"] = "loop"
    /\ Goto("down", IF cs.putClosed THEN "finish" ELSE "take")
    /\ UNCHANGED <<wire, flow, sent, nulls, server, client, drops>>

OutTake ==
    /\ sender["down"] = "take" /\ MoreValues("down")
    /\ Goto("down", "gate")
    /\ UNCHANGED <<wire, flow, sent, nulls, server, client, drops>>

\* The caller closed putCh.
OutEnd ==
    /\ sender["down"] = "take"
    /\ wire' = Enqueue("down", Frame("StreamEnd", 0))
    /\ Goto("down", "finish")
    /\ UNCHANGED <<flow, sent, nulls, server, client, drops>>

OutRefused ==
    /\ sender["down"] = "gate" /\ AcquireRefused(gate["down"])
    /\ Goto("down", "finish")
    /\ UNCHANGED <<wire, flow, sent, nulls, server, client, drops>>

OutAcquire ==
    /\ sender["down"] = "gate" /\ AcquireGranted(gate["down"])
    /\ gate' = [gate EXCEPT !["down"] = Acquire(@)]
    /\ Goto("down", "send")
    /\ UNCHANGED <<wire, pump, chan, delivered, got, sent, nulls, server, client,
                   drops>>

OutSend ==
    /\ sender["down"] = "send" /\ sent["down"] < MaxValues[kind]["down"]
    /\ sent' = [sent EXCEPT !["down"] = @ + 1]
    /\ wire' = Enqueue("down", Frame("StreamValue", sent["down"] + 1))
    /\ Goto("down", "loop")
    /\ UNCHANGED <<flow, nulls, server, client, drops>>

\* The caller's value was Null: it is sent, and paid for, like any other.
OutSendNull ==
    /\ sender["down"] = "send" /\ nulls["down"] < MaxNulls[kind]["down"]
    /\ nulls' = [nulls EXCEPT !["down"] = @ + 1]
    /\ wire' = Enqueue("down", Frame("NullValue", 0))
    /\ Goto("down", "loop")
    /\ UNCHANGED <<flow, sent, server, client, drops>>

\* tryPutClose: set putClosed and, for a put-stream, close the result;
OutFinish ==
    /\ sender["down"] = "finish"
    /\ Goto("down", "retire")
    /\ IF kind = "put"
       THEN cs' = [cs EXCEPT !.putClosed = TRUE, !.done = TRUE] /\ CloseResult
       ELSE cs' = [cs EXCEPT !.putClosed = TRUE] /\ UNCHANGED <<gate, pump>>
    /\ UNCHANGED <<wire, chan, delivered, got, sent, nulls, opener, watcher,
                   ending, shut, client, drops>>

\* then retire the entry unless a chat's other half is still open.
OutRetire ==
    /\ sender["down"] = "retire"
    /\ Goto("down", "done")
    /\ cs' = [cs EXCEPT !.pending = @ /\ ~(kind = "put" \/ cs.getClosed)]
    /\ UNCHANGED <<wire, flow, sent, nulls, opener, watcher, ending, shut, client,
                   drops>>

-----------------------------------------------------------------------------
(* The server: the read loop (processRequest, handleInbound) *)

ServerReads(t) == ~ending /\ Arrives("up", t) /\ cs.pending

\* A frame of a request that is in neither map is logged and dropped; a late
\* reply to a call is ignored.
RecvUnknown ==
    /\ ~ending /\ wire["up"] # << >> /\ ~cs.pending
    /\ wire' = Dequeue("up")
    /\ UNCHANGED <<flow, sent, nulls, sender, server, client, drops>>

\* A put-stream has no pump: the acknowledgement goes straight to resultCh.
RecvReady ==
    /\ ServerReads("StreamReady")
    /\ wire' = Dequeue("up")
    /\ IF HasUp
       THEN /\ pump' = [pump EXCEPT !["up"] = Push(@, Window["up"], 0)]
            /\ UNCHANGED chan
       ELSE /\ chan' = IF cs.done THEN chan
                       ELSE [chan EXCEPT !["up"] = Append(@, 0)]
            /\ UNCHANGED pump
    /\ UNCHANGED <<gate, delivered, got, sent, nulls, sender, server, client,
                   drops>>

\* An overrun of the pump ends the stream, with an error to the client.
RecvValue ==
    /\ ServerReads("StreamValue")
    /\ LET p == Push(pump["up"], Window["up"], Head(wire["up"]).n)
       IN  IF p.overflow
           THEN /\ StreamClose(FALSE)
                /\ wire' = DequeueReply("up", Frame("Error", 0))
           ELSE /\ pump' = [pump EXCEPT !["up"] = p]
                /\ wire' = Dequeue("up")
                /\ UNCHANGED <<cs, gate>>
    /\ UNCHANGED <<chan, delivered, got, sent, nulls, sender, opener, watcher,
                   ending, shut, client, drops>>

\* A Null value is no payload: it is not pushed, so no delivery of it is counted
\* and its credit is not granted back.
RecvNull ==
    /\ ServerReads("NullValue")
    /\ wire' = Dequeue("up")
    /\ UNCHANGED <<flow, sent, nulls, sender, server, client, drops>>

\* tryGetClose: the final value, getClosed, closeResult;
RecvEnd ==
    /\ ServerReads("StreamEnd")
    /\ LET n == Head(wire["up"]).n
       IN  pump' = [pump EXCEPT !["up"] =
                        ClosePump(IF n = 0 THEN @ ELSE Push(@, Window["up"], n))]
    /\ gate' = [gate EXCEPT !["down"] = CloseGate(@)]
    /\ cs' = [cs EXCEPT !.getClosed = TRUE, !.done = TRUE]
    /\ ending' = TRUE
    /\ wire' = Dequeue("up")
    /\ UNCHANGED <<chan, delivered, got, sent, nulls, sender, opener, watcher,
                   shut, client, drops>>

\* then retire the entry unless a chat's streamOut is still running.
RecvEndRetire ==
    /\ ending
    /\ ending' = FALSE
    /\ cs' = [cs EXCEPT !.pending = @ /\ ~(kind # "chat" \/ cs.putClosed)]
    /\ UNCHANGED <<wire, flow, sent, nulls, sender, opener, watcher, shut, client,
                   drops>>

RecvCredit ==
    /\ ServerReads("StreamCredit")
    /\ gate' = [gate EXCEPT !["down"] = Grant(@, Head(wire["up"]).n)]
    /\ wire' = Dequeue("up")
    /\ UNCHANGED <<pump, chan, delivered, got, sent, nulls, sender, server,
                   client, drops>>

RecvError ==
    /\ ServerReads("Error") /\ kind # "call"
    /\ StreamClose(FALSE)
    /\ wire' = Dequeue("up")
    /\ UNCHANGED <<chan, delivered, got, sent, nulls, sender, opener, watcher,
                   ending, shut, client, drops>>

\* completePendingCall: a result or an error, to the call that waits for it.
RecvReply ==
    /\ kind = "call" /\ (ServerReads("Result") \/ ServerReads("Error"))
    /\ cs' = [cs EXCEPT !.pending = FALSE]
    /\ chan' = [chan EXCEPT !["up"] = Append(@, Head(wire["up"]).n)]
    /\ wire' = Dequeue("up")
    /\ UNCHANGED <<gate, pump, delivered, got, sent, nulls, sender, opener,
                   watcher, ending, shut, client, drops>>

-----------------------------------------------------------------------------
(* The server: servingClient.Close *)

\* done is closed and the connection with it,
ServerClose ==
    /\ "server" \in Ends /\ shut = "no"
    /\ shut' = "sweeping"
    /\ wire' = [d \in Dirs |-> << >>]
    /\ UNCHANGED <<flow, sent, nulls, sender, opener, watcher, cs, ending, client,
                   drops>>

\* Wrong: Close leaves the reverse streams alone.
ServerSweepNothing ==
    /\ shut = "sweeping"
    /\ shut' = "yes"
    /\ UNCHANGED <<wire, flow, sent, nulls, sender, opener, watcher, cs, ending,
                   client, drops>>

\* then the streams in pendingStreams; a call watches done itself.
ServerSweep ==
    /\ shut = "sweeping"
    /\ shut' = "yes"
    /\ IF cs.pending /\ kind # "call" THEN StreamClose(TRUE)
                                      ELSE UNCHANGED <<cs, gate, pump>>
    /\ UNCHANGED <<wire, chan, delivered, got, sent, nulls, sender, opener,
                   watcher, ending, client, drops>>

-----------------------------------------------------------------------------
(* The client: the response loop (getResponseHandler, serveInboundCall,      *)
(* serveInboundStream, serveRunning)                                         *)

\* clientServingRequest.Close; closeRequest when the entry is deleted too.
ServingClose(registered) ==
    /\ sr' = [registered |-> registered, closed |-> TRUE, inClosed |-> TRUE,
              ctxDone |-> TRUE]
    /\ gate' = [gate EXCEPT !["up"] = CloseGate(@)]
    /\ pump' = [pump EXCEPT !["down"] = StopPump(@)]

\* serveInboundCall hands a call to a goroutine of its own.
ServeCall ==
    /\ kind = "call" /\ Arrives("down", "Open")
    /\ handler' = "running"
    /\ wire' = Dequeue("down")
    /\ sr' = [sr EXCEPT !.ctxDone = (quit # "no")]
    /\ UNCHANGED <<flow, sent, nulls, sender, server, quit, drops>>

\* grantInitialInbound, for the streams that have input.
OpenedReply ==
    IF HasDown THEN DequeueReply("down", Frame("StreamCredit", Window["down"]))
               ELSE Dequeue("down")

\* Wrong: registering is left to the handler goroutine.
ServeOpenUnregistered ==
    /\ kind # "call" /\ Arrives("down", "Open")
    /\ handler' = "running"
    /\ wire' = OpenedReply
    /\ UNCHANGED <<flow, sent, nulls, sender, server, sr, quit, drops>>

\* serveInboundStream registers a stream and grants its window before the next
\* frame is read.
ServeOpen ==
    /\ kind # "call" /\ Arrives("down", "Open")
    /\ handler' = "running"
    /\ sr' = [sr EXCEPT !.registered = TRUE, !.ctxDone = (quit # "no")]
    /\ wire' = OpenedReply
    /\ UNCHANGED <<flow, sent, nulls, sender, server, quit, drops>>

\* No such function, wrong kind or wrong arguments.
ServeReject ==
    /\ Arrives("down", "Open")
    /\ handler' = "returned"
    /\ wire' = DequeueReply("down", Frame("Error", 0))
    /\ UNCHANGED <<flow, sent, nulls, sender, server, sr, quit, drops>>

\* A frame of an unregistered request is reported and dropped; serveRunning has
\* no case for an error.
ServeUnknown ==
    /\ wire["down"] # << >>
    /\ Head(wire["down"]).type # "Open"
    /\ ~sr.registered \/ Head(wire["down"]).type = "Error"
    /\ wire' = Dequeue("down")
    /\ UNCHANGED <<flow, sent, nulls, sender, server, client, drops>>

ServeCancel ==
    /\ Arrives("down", "Cancel") /\ sr.registered
    /\ ServingClose(FALSE)
    /\ wire' = Dequeue("down")
    /\ UNCHANGED <<chan, delivered, got, sent, nulls, sender, server, handler,
                   quit, drops>>

\* An overrun of the inbound pump ends the stream with an error.
ServeValue ==
    /\ Arrives("down", "StreamValue") /\ sr.registered
    /\ LET p == Push(pump["down"], Window["down"], Head(wire["down"]).n)
       IN  IF p.overflow
           THEN /\ ServingClose(FALSE)
                /\ wire' = DequeueReply("down", Frame("Error", 0))
           ELSE /\ pump' = [pump EXCEPT !["down"] = p]
                /\ wire' = Dequeue("down")
                /\ UNCHANGED <<sr, gate>>
    /\ UNCHANGED <<chan, delivered, got, sent, nulls, sender, server, handler,
                   quit, drops>>

\* serveRunning offers no Null value to the handler.
ServeNull ==
    /\ Arrives("down", "NullValue") /\ sr.registered
    /\ wire' = Dequeue("down")
    /\ UNCHANGED <<flow, sent, nulls, sender, server, client, drops>>

\* Wrong: the end of the input discards what the handler has not read.
ServeEndStops ==
    /\ Arrives("down", "StreamEnd") /\ sr.registered
    /\ pump' = [pump EXCEPT !["down"] = ClosePump([@ EXCEPT !.queue = << >>])]
    /\ sr' = [sr EXCEPT !.inClosed = TRUE, !.registered = (kind = "chat"),
                        !.ctxDone = @ \/ kind # "chat"]
    /\ wire' = Dequeue("down")
    /\ UNCHANGED <<gate, chan, delivered, got, sent, nulls, sender, server,
                   handler, quit, drops>>

\* End of the input: the handler's channel is drained and closed.  A chat lives
\* on for its output; a put-stream is retired and its context ended.
ServeEnd ==
    /\ Arrives("down", "StreamEnd") /\ sr.registered
    /\ pump' = IF sr.inClosed THEN pump ELSE [pump EXCEPT !["down"] = ClosePump(@)]
    /\ sr' = [sr EXCEPT !.inClosed = TRUE, !.registered = (kind = "chat"),
                        !.ctxDone = @ \/ kind # "chat"]
    /\ wire' = Dequeue("down")
    /\ UNCHANGED <<gate, chan, delivered, got, sent, nulls, sender, server,
                   handler, quit, drops>>

ServeCredit ==
    /\ Arrives("down", "StreamCredit") /\ sr.registered
    /\ gate' = [gate EXCEPT !["up"] = Grant(@, Head(wire["down"]).n)]
    /\ wire' = Dequeue("down")
    /\ UNCHANGED <<pump, chan, delivered, got, sent, nulls, sender, server,
                   client, drops>>
-----------------------------------------------------------------------------
(* The client: the handler goroutine *)

\* A call is answered with its result, or with an error when the handler failed
\* or its result does not have the declared type.
CallAnswer ==
    /\ kind = "call" /\ handler = "running"
    /\ handler' = "returned"
    /\ \E f \in {Frame("Result", 1), Frame("Error", 0)} : wire' = Enqueue("up", f)
    /\ sr' = [sr EXCEPT !.ctxDone = TRUE]
    /\ UNCHANGED <<flow, sent, nulls, sender, server, quit, drops>>

\* A put-stream, which has nothing more to send, is acknowledged; otherwise the
\* streamer starts.
HandlerOk ==
    /\ kind # "call" /\ handler = "running"
    /\ handler' = "returned"
    /\ IF HasUp
       THEN Goto("up", "ready") /\ UNCHANGED wire
       ELSE wire' = Enqueue("up", Frame("StreamReady", 0)) /\ UNCHANGED sender
    /\ UNCHANGED <<flow, sent, nulls, server, sr, quit, drops>>

\* A failed handler closes its stream first and reports next.
HandlerError ==
    /\ kind # "call" /\ handler = "running"
    /\ handler' = "returned"
    /\ ServingClose(FALSE)
    /\ wire' = Enqueue("up", Frame("Error", 0))
    /\ UNCHANGED <<chan, delivered, got, sent, nulls, sender, server, quit,
                   drops>>

\* The handler reads its inbound channel.
HandlerReceive ==
    /\ chan["down"] # << >>
    /\ chan' = [chan EXCEPT !["down"] = Tail(@)]
    /\ got' = [got EXCEPT !["down"] = Head(chan["down"])]
    /\ UNCHANGED <<wire, gate, pump, delivered, sent, nulls, sender, server,
                   client, drops>>

-----------------------------------------------------------------------------
(* The client: outgoingStreamer *)

StreamerReady ==
    /\ sender["up"] = "ready"
    /\ wire' = Enqueue("up", Frame("StreamReady", 0))
    /\ Goto("up", "take")
    /\ UNCHANGED <<flow, sent, nulls, server, client, drops>>

StreamerTake ==
    /\ sender["up"] = "take" /\ ~sr.closed /\ MoreValues("up")
    /\ Goto("up", "gate")
    /\ UNCHANGED <<wire, flow, sent, nulls, server, client, drops>>

\* The handler closed its channel, or the request was closed; in that case the
\* StreamEnd may carry a value taken from the channel, without credit.
StreamerEnd ==
    /\ sender["up"] = "take"
    /\ \E n \in {0, sent["up"] + 1} :
          /\ n # 0 => sr.closed /\ sent["up"] < MaxValues[kind]["up"]
          /\ wire' = Enqueue("up", Frame("StreamEnd", n))
    /\ ServingClose(FALSE)
    /\ Goto("up", "done")
    /\ UNCHANGED <<chan, delivered, got, sent, nulls, server, handler, quit,
                   drops>>

StreamerRefused ==
    /\ sender["up"] = "gate" /\ AcquireRefused(gate["up"])
    /\ ServingClose(FALSE)
    /\ Goto("up", "done")
    /\ UNCHANGED <<wire, chan, delivered, got, sent, nulls, server, handler, quit,
                   drops>>

StreamerAcquire ==
    /\ sender["up"] = "gate" /\ AcquireGranted(gate["up"])
    /\ gate' = [gate EXCEPT !["up"] = Acquire(@)]
    /\ Goto("up", "send")
    /\ UNCHANGED <<wire, pump, chan, delivered, got, sent, nulls, server, client,
                   drops>>

StreamerSend ==
    /\ sender["up"] = "send" /\ sent["up"] < MaxValues[kind]["up"]
    /\ sent' = [sent EXCEPT !["up"] = @ + 1]
    /\ wire' = Enqueue("up", Frame("StreamValue", sent["up"] + 1))
    /\ Goto("up", "take")
    /\ UNCHANGED <<flow, nulls, server, client, drops>>

\* The handler's value was Null.
StreamerSendNull ==
    /\ sender["up"] = "send" /\ nulls["up"] < MaxNulls[kind]["up"]
    /\ nulls' = [nulls EXCEPT !["up"] = @ + 1]
    /\ wire' = Enqueue("up", Frame("NullValue", 0))
    /\ Goto("up", "take")
    /\ UNCHANGED <<flow, sent, server, client, drops>>

-----------------------------------------------------------------------------
(* The client: rpcClient.Close *)

\* baseCancel ends every handler's context and the registered streams are closed,
ClientClose ==
    /\ "client" \in Ends /\ quit = "no"
    /\ quit' = "swept"
    /\ IF sr.registered THEN ServingClose(TRUE)
                        ELSE /\ sr' = [sr EXCEPT !.ctxDone = TRUE]
                             /\ UNCHANGED <<gate, pump>>
    /\ UNCHANGED <<wire, chan, delivered, got, sent, nulls, sender, server,
                   handler, drops>>

\* then the connection is reset.
ClientReset ==
    /\ quit = "swept"
    /\ quit' = "yes"
    /\ wire' = [d \in Dirs |-> << >>]
    /\ UNCHANGED <<flow, sent, nulls, sender, server, handler, sr, drops>>

-----------------------------------------------------------------------------
(* The connection breaks and the client resumes the session on another one.  *)
(* What was on it, or in the client's queue for it, is lost; the frames the   *)
(* session's sender has not taken from outgoingQueue go to the new one.       *)
Replace ==
    /\ drops < MaxDrops /\ Online
    /\ drops' = drops + 1
    /\ \E k \in 0..Len(wire["down"]) :
          wire' = [down |-> SubSeq(wire["down"], k + 1, Len(wire["down"])),
                   up   |-> << >>]
    /\ UNCHANGED <<flow, sent, nulls, sender, server, client>>

-----------------------------------------------------------------------------
(* The pumps' goroutines *)

PumpTake(d) ==
    /\ PumpMayPop(pump[d])
    /\ pump' = [pump EXCEPT ![d] = PumpPop(@)]
    /\ UNCHANGED <<wire, gate, chan, delivered, got, sent, nulls, sender, server,
                   client, drops>>

PumpDeliver(d) ==
    /\ pump[d].hand # << >> /\ Len(chan[d]) < ChanCap[d]
    /\ chan' = [chan EXCEPT ![d] = Append(@, Head(pump[d].hand))]
    /\ pump' = [pump EXCEPT ![d] = PumpSent(@)]
    /\ UNCHANGED <<wire, gate, delivered, got, sent, nulls, sender, server,
                   client, drops>>

\* grantRecv, grantInbound: count the delivery; grant once half a window has
\* been delivered.
PumpAck(d) ==
    /\ pump[d].acking
    /\ pump' = [pump EXCEPT ![d] = PumpAcked(@)]
    /\ IF GrantDue(delivered[d], Window[d])
       THEN /\ delivered' = [delivered EXCEPT ![d] = 0]
            /\ wire' = Enqueue(Opposite(d), Frame("StreamCredit", delivered[d] + 1))
       ELSE /\ delivered' = [delivered EXCEPT ![d] = @ + 1]
            /\ UNCHANGED wire
    /\ UNCHANGED <<gate, chan, got, sent, nulls, sender, server, client, drops>>

PumpClose(d) ==
    /\ PumpMayExit(pump[d])
    /\ pump' = [pump EXCEPT ![d] = PumpExit(@)]
    /\ UNCHANGED <<wire, gate, chan, delivered, got, sent, nulls, sender, server,
                   client, drops>>

-----------------------------------------------------------------------------
Awaiting   == \/ SendOpen \/ SendFailed \/ Establish \/ EstablishFailed
              \/ EstablishTimeout \/ Abandon \/ CallReply
Watcher    == WatchClose \/ WatchExit
StreamOut  == \/ OutLoop \/ OutTake \/ OutEnd \/ OutRefused \/ OutAcquire
              \/ OutSend \/ OutSendNull \/ OutFinish \/ OutRetire
ServerLoop == \/ RecvUnknown \/ RecvReady \/ RecvValue \/ RecvNull \/ RecvEnd
              \/ RecvEndRetire \/ RecvCredit \/ RecvError \/ RecvReply
ClientLoop == \/ ServeCall \/ ServeOpen \/ ServeReject \/ ServeUnknown \/ ServeCancel
              \/ ServeValue \/ ServeNull \/ ServeEnd \/ ServeCredit
Handler    == CallAnswer \/ HandlerOk \/ HandlerError
Streamer   == \/ StreamerReady \/ StreamerTake \/ StreamerEnd
              \/ StreamerRefused \/ StreamerAcquire \/ StreamerSend \/ StreamerSendNull
PumpStep(d) == PumpTake(d) \/ PumpDeliver(d) \/ PumpAck(d) \/ PumpClose(d)

Next ==
    \/ OpenStream \/ Awaiting \/ CallGiveUp \/ WatchCancel \/ Watcher \/ AppReceive
    \/ StreamOut \/ ServerLoop \/ ServerClose \/ ServerSweep
    \/ ClientLoop \/ Handler \/ HandlerReceive \/ Streamer
    \/ ClientClose \/ ClientReset
    \/ \E d \in Dirs : PumpStep(d)

Spec == Init /\ [][Next]_vars

\* The same on connections that may be replaced.
ReplacedSpec == Init /\ [][Next \/ Replace]_vars

\* What happens of itself: goroutines run, awaitReady's timer fires, the two
\* applications read their channels and close the ones they write.  A call's
\* context need not end, but its session's end is noticed.
Progress ==
    \/ Awaiting \/ (shut # "no" /\ CallGiveUp) \/ Watcher \/ AppReceive
    \/ StreamOut \/ ServerLoop \/ ServerSweep
    \/ ClientLoop \/ Handler \/ HandlerReceive \/ Streamer \/ ClientReset
    \/ \E d \in Dirs : PumpStep(d)

\* As long as anybody can go on, somebody does.
Fairness == WF_vars(Progress)

FairSpec == Spec /\ Fairness

-----------------------------------------------------------------------------
(* Safety *)

\* The reader of d finds the request in its map.
InMap(d) == IF d = "up" THEN cs.pending ELSE sr.registered

\* Credit bounds what is under way on the reverse path too
\* (valueserver/serving_stream.go:200: an overrun means "the client overran our
\* buffer"): a value that reaches a request still accepting input finds room.
CreditedValueFits ==
    \A d \in Dirs :
        /\ Arrives(d, "StreamValue") /\ InMap(d)
        /\ ~pump[d].inputEnd /\ ~pump[d].stopped
        => Len(pump[d].queue) < Window[d]

\* What the receiver holds for the application and has not handed over.
Backlog(d) ==
    chan[d] \o (IF pump[d].exited THEN << >> ELSE pump[d].hand \o pump[d].queue)

\* Values reach the caller and the handler in order, none missing, none twice:
\* what waits continues the number taken last.
NoGap ==
    kind # "call" =>
        \A d \in Dirs : \A i \in 1..Len(Backlog(d)) : Backlog(d)[i] = got[d] + i

\* A stream nobody gave up on is complete when its channel closes: whoever
\* drained the channel has every value that was sent.
CompleteAtClose ==
    /\ HasUp /\ pump["up"].exited /\ ~pump["up"].stopped /\ chan["up"] = << >>
             /\ watcher # "cancelling" /\ quit = "no"
            => got["up"] = sent["up"] /\ sender["up"] = "done"
    /\ HasDown /\ pump["down"].exited /\ ~pump["down"].stopped
               /\ chan["down"] = << >>
            => got["down"] = sent["down"]

\* valueclient/serving.go:93-94, "so a frame the server sends in response to the
\* initial credit grant always finds the serving request": a frame of a running
\* stream is never dropped for want of an entry, unless the stream was closed.
FramesFindRequest ==
    wire["down"] # << >>
        /\ Head(wire["down"]).type \in {"StreamValue", "NullValue", "StreamEnd",
                                       "StreamCredit"}
    => sr.registered \/ sr.closed

-----------------------------------------------------------------------------
(* Liveness *)

StreamerStopped == sender["up"] \in {"off", "done"}
OutStopped      == sender["down"] \in {"off", "done"}

Finished ==
    /\ ResultClosed /\ chan["up"] = << >> /\ ~cs.pending
    /\ ~sr.registered /\ sr.ctxDone /\ StreamerStopped /\ OutStopped
    /\ HasDown => pump["down"].exited

\* So many Null values were sent that the credit left in circulation no longer
\* makes up a grant: the sender may wait at its gate for ever.
Starved(d) ==
    nulls[d] > 0 /\ Window[d] - nulls[d] < CreditBatch(Window[d])

\* An established stream that nobody gives up on runs to its end: the credit of
\* the two sides never deadlocks, every goroutine stops, both entries are
\* removed and the handler's context is released.  The exception is a real stall
\* of the code: the credit a Null value costs is lost (serving_stream.go:195,
\* valueclient/serving.go:231), as on the forward path.
Completes ==
    opener = "open" ~> \/ Finished \/ cs.closed \/ ~(shut = "no" /\ quit = "no")
                       \/ \E d \in Dirs : Starved(d)

\* Giving up, while waiting for StreamReady or later, retires the stream on both
\* sides: the client has it registered before it can read the cancel, so, unlike
\* on the forward path, no cancel is lost to a handler that is just starting.
GiveUpRetires ==
    (opener = "abandoning" \/ watcher = "cancelling")
        ~> \/ /\ ~cs.pending /\ ResultClosed /\ ~sr.registered
              /\ StreamerStopped /\ handler = "returned"
           \/ ~(shut = "no" /\ quit = "no")

\* Closing the session ends a call that waits for its reply and unblocks the
\* streamers and consumers of its reverse streams, also of one that was being
\* opened (valueserver/serving_client.go:306-307 and 133-134).  Closing the client
\* unblocks those of every stream it finds registered, also when its handler has
\* yet to return (valueclient/client.go:189-190); one that the response loop
\* registers between this sweep and the reset of the connection is not closed.
CloseUnblocks ==
    /\ shut # "no" ~> /\ opener \notin {"sending", "establishing", "abandoning"}
                      /\ opener = "open" => ResultClosed
                      /\ OutStopped
    /\ (quit = "swept" /\ sr.registered /\ sr.closed)
          ~> handler = "returned" /\ StreamerStopped /\ (HasDown => pump["down"].exited)

-----------------------------------------------------------------------------
(* What the documentation says and the code does not do *)

\* README.md:65-67, "delivery is **lossless**": also for a stream that goes on
\* after its connection was replaced, no value is missing between two that are
\* delivered.
Lossless == NoGap
=============================================================================

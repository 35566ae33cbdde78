------------------------------ MODULE Dispatch ------------------------------
(***************************************************************************)
(* The server's half of one session: the read loop that dispatches the     *)
(* client's requests, the handler goroutines with their contexts and caps, *)
(* the streamers, and the end of the session.  The connection may drop and *)
(* come back; the servingClient stays.                                     *)
(*                                                                         *)
(* Kind[r] is "unary", "in" for a put-stream, "out" for a get-stream or a  *)
(* chat: what dispatching tells apart is whether a streamer retires the    *)
(* request.  Credit and values are the business of module Stream; here a   *)
(* streamer is running, waiting at its credit gate, or done.               *)
(***************************************************************************)
EXTENDS Integers, Sequences, FiniteSets

CONSTANTS
    Reqs,           \* request ids
    Kind,           \* Kind[r]
    MaxRequests,    \* maxConcurrentRequests
    MaxStreams,     \* maxConcurrentStreams
    NoReq           \* not a request

ASSUME ReqsAssumption == IsFiniteSet(Reqs) /\ NoReq \notin Reqs
ASSUME KindAssumption == Kind \in [Reqs -> {"unary", "in", "out"}]
ASSUME CapsAssumption == MaxRequests \in Nat \ {0} /\ MaxStreams \in Nat \ {0}

Streams == {r \in Reqs : Kind[r] # "unary"}

VARIABLES
    link,           \* the client is connected
    inbox,          \* frames on the connection, not read yet
    asked,          \* asked[r]: what the client has sent of r so far
    loop,           \* the request the read loop is turning down, or NoReq
    inFlight,       \* servingClient.inFlight
    liveStreams,    \* servingClient.liveStreams
    handler,        \* handler[r]: program counter of the handler goroutine
    ctx,            \* ctx[r]: the handler's context
    cancels,        \* keys of requestCancels
    requests,       \* keys of requestMap
    closed,         \* serving requests that were closed
    streamer,       \* streamer[r]: program counter of outgoingStreamer
    answered,       \* requests a response was sent for
    session         \* "open", "closing" (Close cancelled the context), "closed"

clientVars == <<link, asked>>
vars == <<clientVars, inbox, loop, inFlight, liveStreams, handler, ctx, cancels,
          requests, closed, streamer, answered, session>>

Frames == [type : {"Open", "Cancel", "End"}, req : Reqs]

TypeOK ==
    /\ link \in BOOLEAN
    /\ inbox \in Seq(Frames)
    /\ asked \in [Reqs -> {"nothing", "open", "ended"}]
    /\ loop \in Reqs \union {NoReq}
    /\ inFlight \in Nat
    /\ liveStreams \in Int
    /\ handler \in [Reqs -> {"none", "spawned", "prepared", "stored", "running",
                             "returned", "rejected", "panicked"}]
    /\ ctx \in [Reqs -> {"none", "live", "cancelled"}]
    /\ cancels \subseteq Reqs
    /\ requests \subseteq Reqs
    /\ closed \subseteq Reqs
    /\ streamer \in [Reqs -> {"off", "on", "gate", "done"}]
    /\ answered \subseteq Reqs
    /\ session \in {"open", "closing", "closed"}

Init ==
    /\ link = TRUE
    /\ inbox = << >>
    /\ asked = [r \in Reqs |-> "nothing"]
    /\ loop = NoReq
    /\ inFlight = 0
    /\ liveStreams = 0
    /\ handler = [r \in Reqs |-> "none"]
    /\ ctx = [r \in Reqs |-> "none"]
    /\ cancels = {}
    /\ requests = {}
    /\ closed = {}
    /\ streamer = [r \in Reqs |-> "off"]
    /\ answered = {}
    /\ session = "open"

-----------------------------------------------------------------------------
(* The client and the connection *)

ClientAsks(r) ==
    /\ link /\ asked[r] = "nothing"
    /\ asked' = [asked EXCEPT ![r] = "open"]
    /\ inbox' = Append(inbox, [type |-> "Open", req |-> r])
    /\ UNCHANGED <<link, loop, inFlight, liveStreams, handler, ctx, cancels,
                   requests, closed, streamer, answered, session>>

\* CancelRequest, or the end of the input of a put-stream.
ClientEnds(r) ==
    /\ link /\ asked[r] = "open"
    /\ asked' = [asked EXCEPT ![r] = "ended"]
    /\ \E t \in IF Kind[r] = "in" THEN {"Cancel", "End"} ELSE {"Cancel"} :
          inbox' = Append(inbox, [type |-> t, req |-> r])
    /\ UNCHANGED <<link, loop, inFlight, liveStreams, handler, ctx, cancels,
                   requests, closed, streamer, answered, session>>

\* The connection breaks: handleConnection's read fails and it returns.
Disconnect ==
    /\ link
    /\ link' = FALSE
    /\ inbox' = << >>
    /\ UNCHANGED <<asked, loop, inFlight, liveStreams, handler, ctx, cancels,
                   requests, closed, streamer, answered, session>>

\* The client resumes its session.
Resume ==
    /\ ~link /\ session = "open"
    /\ link' = TRUE
    /\ UNCHANGED <<inbox, asked, loop, inFlight, liveStreams, handler, ctx, cancels,
                   requests, closed, streamer, answered, session>>

-----------------------------------------------------------------------------
(* Serving requests *)

\* A context derived from the session's: born cancelled when that one is.
NewContext == IF session = "open" THEN "live" ELSE "cancelled"

Cancelled(r) == [ctx EXCEPT ![r] = IF @ = "none" THEN "none" ELSE "cancelled"]

\* send: a session that is closing sends nothing any more.
Answer(r) == answered' = IF session = "open" THEN answered \union {r} ELSE answered

\* Wrong: a request retired twice is counted twice.
DeleteRequestTwice(r) ==
    /\ requests' = requests \ {r}
    /\ liveStreams' = liveStreams - 1

\* deleteRequest: LoadAndDelete makes the counter follow the map.
DeleteRequest(r) ==
    /\ requests' = requests \ {r}
    /\ liveStreams' = IF r \in requests THEN liveStreams - 1 ELSE liveStreams

\* closeRequest: deleteRequest, then Close, which cancels the context.
CloseRequest(r) ==
    /\ DeleteRequest(r)
    /\ closed' = closed \union {r}
    /\ ctx' = Cancelled(r)

-----------------------------------------------------------------------------
(* The read loop: processRequest and serveNewRequest *)

Reads(t, r) == loop = NoReq /\ inbox # << >> /\ Head(inbox) = [type |-> t, req |-> r]

\* Wrong: the slot is checked before it is taken, and is off by one.
ReadOpenUnreserved(r) ==
    /\ Reads("Open", r)
    /\ inbox' = Tail(inbox)
    /\ inFlight' = inFlight + 1
    /\ IF inFlight > MaxRequests
       THEN loop' = r /\ UNCHANGED handler
       ELSE handler' = [handler EXCEPT ![r] = "spawned"] /\ UNCHANGED loop
    /\ UNCHANGED <<clientVars, liveStreams, ctx, cancels, requests, closed,
                   streamer, answered, session>>

\* Reserve a handler slot; over the limit the loop turns the request down.
ReadOpen(r) ==
    /\ Reads("Open", r)
    /\ inbox' = Tail(inbox)
    /\ inFlight' = inFlight + 1
    /\ IF inFlight' > MaxRequests
       THEN loop' = r /\ UNCHANGED handler
       ELSE handler' = [handler EXCEPT ![r] = "spawned"] /\ UNCHANGED loop
    /\ UNCHANGED <<clientVars, liveStreams, ctx, cancels, requests, closed,
                   streamer, answered, session>>

\* Wrong: a request that is turned down keeps its slot and gets no answer.
TurnDownSilently ==
    /\ loop # NoReq
    /\ handler' = [handler EXCEPT ![loop] = "rejected"]
    /\ loop' = NoReq
    /\ UNCHANGED <<clientVars, inbox, inFlight, liveStreams, ctx, cancels,
                   requests, closed, streamer, answered, session>>

TurnDown ==
    /\ loop # NoReq
    /\ inFlight' = inFlight - 1
    /\ Answer(loop)
    /\ handler' = [handler EXCEPT ![loop] = "rejected"]
    /\ loop' = NoReq
    /\ UNCHANGED <<clientVars, inbox, liveStreams, ctx, cancels, requests, closed,
                   streamer, session>>

\* A stream in the map is closed; an in-flight unary call has its context
\* cancelled; anything else is too early or too late and is ignored.
ReadCancel(r) ==
    /\ Reads("Cancel", r)
    /\ inbox' = Tail(inbox)
    /\ IF r \in requests
       THEN CloseRequest(r)
       ELSE /\ ctx' = IF r \in cancels THEN Cancelled(r) ELSE ctx
            /\ UNCHANGED <<requests, liveStreams, closed>>
    /\ UNCHANGED <<clientVars, loop, inFlight, handler, cancels, streamer,
                   answered, session>>

\* incomingStreamEnd of a put-stream retires it without closing it.
ReadEnd(r) ==
    /\ Reads("End", r)
    /\ inbox' = Tail(inbox)
    /\ IF r \in requests
       THEN DeleteRequest(r) /\ ctx' = Cancelled(r)
       ELSE UNCHANGED <<requests, liveStreams, ctx>>
    /\ UNCHANGED <<clientVars, loop, inFlight, handler, cancels, closed, streamer,
                   answered, session>>

-----------------------------------------------------------------------------
(* The handler goroutine: serveFunctionRequest *)

HandlerStep(r, from, to) ==
    handler[r] = from /\ handler' = [handler EXCEPT ![r] = to]

\* No such function, wrong arguments or wrong kind; too many open streams.
HandlerReject(r) ==
    /\ HandlerStep(r, "spawned", "rejected")
    /\ Answer(r)
    /\ inFlight' = inFlight - 1
    /\ UNCHANGED <<clientVars, inbox, loop, liveStreams, ctx, cancels, requests,
                   closed, streamer, session>>

\* The checks passed, the cap on streams included: the context is made.
Prepare(r) ==
    /\ HandlerStep(r, "spawned", "prepared")
    /\ r \in Streams => liveStreams < MaxStreams
    /\ ctx' = [ctx EXCEPT ![r] = NewContext]
    /\ UNCHANGED <<clientVars, inbox, loop, inFlight, liveStreams, cancels, requests,
                   closed, streamer, answered, session>>

\* A unary call registers its cancel function; the user's handler runs.
RegisterCancel(r) ==
    /\ r \notin Streams
    /\ HandlerStep(r, "prepared", "running")
    /\ cancels' = cancels \union {r}
    /\ UNCHANGED <<clientVars, inbox, loop, inFlight, liveStreams, ctx, requests,
                   closed, streamer, answered, session>>

\* newServingRequest: the stream is published,
Store(r) ==
    /\ r \in Streams
    /\ HandlerStep(r, "prepared", "stored")
    /\ requests' = requests \union {r}
    /\ UNCHANGED <<clientVars, inbox, loop, inFlight, liveStreams, ctx, cancels,
                   closed, streamer, answered, session>>

\* and counted; the user's handler runs.
Count(r) ==
    /\ HandlerStep(r, "stored", "running")
    /\ liveStreams' = liveStreams + 1
    /\ UNCHANGED <<clientVars, inbox, loop, inFlight, ctx, cancels, requests, closed,
                   streamer, answered, session>>

\* The SLA of a unary call runs out.
Deadline(r) ==
    /\ handler[r] = "running" /\ r \notin Streams /\ ctx[r] = "live"
    /\ ctx' = Cancelled(r)
    /\ UNCHANGED <<clientVars, inbox, loop, inFlight, liveStreams, handler, cancels,
                   requests, closed, streamer, answered, session>>

\* A unary handler returned, with a result or an error, or it panicked; the
\* deferred functions run either way, only the answer is lost.
UnaryReturn(r) ==
    /\ r \notin Streams
    /\ \/ HandlerStep(r, "running", "returned") /\ Answer(r)
       \/ HandlerStep(r, "running", "panicked") /\ UNCHANGED answered
    /\ ctx' = Cancelled(r)
    /\ cancels' = cancels \ {r}
    /\ inFlight' = inFlight - 1
    /\ UNCHANGED <<clientVars, inbox, loop, liveStreams, requests, closed, streamer,
                   session>>

\* A stream handler returned: a put-stream is acknowledged, any other stream has
\* its streamer started, which acknowledges it.
StreamReturn(r) ==
    /\ r \in Streams
    /\ HandlerStep(r, "running", "returned")
    /\ streamer' = IF Kind[r] = "out" THEN [streamer EXCEPT ![r] = "on"] ELSE streamer
    /\ Answer(r)
    /\ inFlight' = inFlight - 1
    /\ UNCHANGED <<clientVars, inbox, loop, liveStreams, ctx, cancels, requests,
                   closed, session>>

StreamError(r) ==
    /\ r \in Streams
    /\ HandlerStep(r, "running", "returned")
    /\ CloseRequest(r)
    /\ Answer(r)
    /\ inFlight' = inFlight - 1
    /\ UNCHANGED <<clientVars, inbox, loop, cancels, streamer, session>>

\* A panicking stream handler is recovered; the stream stays registered.
StreamPanic(r) ==
    /\ r \in Streams
    /\ HandlerStep(r, "running", "panicked")
    /\ inFlight' = inFlight - 1
    /\ UNCHANGED <<clientVars, inbox, loop, liveStreams, ctx, cancels, requests,
                   closed, streamer, answered, session>>

-----------------------------------------------------------------------------
(* outgoingStreamer *)

\* It took a value and waits for credit,
StreamerTake(r) ==
    /\ streamer[r] = "on" /\ r \notin closed
    /\ streamer' = [streamer EXCEPT ![r] = "gate"]
    /\ UNCHANGED <<clientVars, inbox, loop, inFlight, liveStreams, handler, ctx,
                   cancels, requests, closed, answered, session>>

\* which a connected client grants while the request is in the map.
StreamerSend(r) ==
    /\ streamer[r] = "gate" /\ r \notin closed /\ link /\ r \in requests
    /\ streamer' = [streamer EXCEPT ![r] = "on"]
    /\ UNCHANGED <<clientVars, inbox, loop, inFlight, liveStreams, handler, ctx,
                   cancels, requests, closed, answered, session>>

\* The handler closed its channel, or the request was closed.
StreamerEnd(r) ==
    /\ streamer[r] = "on" \/ (streamer[r] = "gate" /\ r \in closed)
    /\ streamer' = [streamer EXCEPT ![r] = "done"]
    /\ CloseRequest(r)
    /\ UNCHANGED <<clientVars, inbox, loop, inFlight, handler, cancels, answered,
                   session>>

-----------------------------------------------------------------------------
(* servingClient.Close, by the server's Close *)

\* The session's context, parent of every handler's, is cancelled; the
\* connection is closed;
CloseSession ==
    /\ session = "open"
    /\ session' = "closing"
    /\ ctx' = [r \in Reqs |-> IF ctx[r] = "none" THEN "none" ELSE "cancelled"]
    /\ link' = FALSE
    /\ inbox' = << >>
    /\ UNCHANGED <<asked, loop, inFlight, liveStreams, handler, cancels, requests,
                   closed, streamer, answered>>

\* the streams in the map are closed, and left there.
CloseStreams ==
    /\ session = "closing"
    /\ session' = "closed"
    /\ closed' = closed \union requests
    /\ UNCHANGED <<clientVars, inbox, loop, inFlight, liveStreams, handler, ctx,
                   cancels, requests, streamer, answered>>

-----------------------------------------------------------------------------
ReadLoop == TurnDown \/ \E r \in Reqs : ReadOpen(r) \/ ReadCancel(r) \/ ReadEnd(r)

Handler(r) == \/ HandlerReject(r) \/ Prepare(r) \/ RegisterCancel(r) \/ Store(r)
              \/ Count(r) \/ UnaryReturn(r) \/ StreamReturn(r) \/ StreamError(r)
              \/ StreamPanic(r)

Streamer(r) == StreamerTake(r) \/ StreamerSend(r) \/ StreamerEnd(r)

Next ==
    \/ \E r \in Reqs : \/ ClientAsks(r) \/ ClientEnds(r) \/ Deadline(r)
                       \/ Handler(r) \/ Streamer(r)
    \/ Disconnect \/ Resume \/ ReadLoop \/ CloseSession \/ CloseStreams

Spec == Init /\ [][Next]_vars

\* The goroutines run; user handlers return and close their channels.
Fairness ==
    /\ WF_vars(ReadLoop) /\ WF_vars(CloseStreams)
    /\ \A r \in Reqs : WF_vars(Handler(r)) /\ WF_vars(Streamer(r))

FairSpec == Spec /\ Fairness

-----------------------------------------------------------------------------
\* Requests whose handler goroutine exists.
Active == {r \in Reqs : handler[r] \in {"spawned", "prepared", "stored", "running"}}

\* README.md:321, "Max concurrent request handlers per connection": whatever is
\* turned down, rejected, panics or returns, handlers stay within the cap, and
\* the counter that enforces it neither leaks nor frees a slot twice.
HandlersBounded ==
    /\ Cardinality(Active) <= MaxRequests
    /\ inFlight = Cardinality(Active) + (IF loop = NoReq THEN 0 ELSE 1)

\* valueserver/serving_client.go:575-578: cancel, end of input, streamer and
\* handler may all retire the same stream, in any order.  The counter of open
\* streams always is the number of published streams that have been counted, and
\* one whose streamer is gone is not among them: no slot is held for ever.
StreamsCounted ==
    /\ liveStreams = Cardinality(requests)
                       - Cardinality({r \in Reqs : handler[r] = "stored"})
    /\ \A r \in Streams : streamer[r] = "done" => r \notin requests /\ ctx[r] = "cancelled"

\* valueserver/serving_client.go:647-649: a request over the limit is rejected
\* with an error response, never dropped: every request that reaches the read
\* loop of a session that stays open is answered, unless its handler panics.
EveryRequestAnswered ==
    \A r \in Reqs : (handler[r] = "spawned" \/ loop = r) ~>
                        (r \in answered \/ handler[r] = "panicked" \/ session # "open")
=============================================================================

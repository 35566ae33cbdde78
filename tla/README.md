# value-rpc in TLA+

A verification development for value-rpc: TLA+ modules that model its
protocol and its concurrency, TLC configurations that check them on small
instances, and TLAPS proofs for every value of the constants. Definitions are
translated from the Go source and keep its names; `PROJECT.json` maps each one
to the lines it models.

## The system

value-rpc is a bidirectional RPC over one message connection per client.

| Part | Source | Role |
|------|--------|------|
| flow control | `valuerpc/credit.go`, `pump.go` | a credit gate at the sender, a bounded pump at the receiver of every stream |
| client | `valueclient/client.go`, `request.go`, `connection.go`, `sync_conn.go` | request contexts by id, one connection with a read and a write loop, reconnect policy |
| server | `valueserver/server.go`, `serving_client.go`, `serving_request.go` | accept, handshake, one session (`servingClient`) per client, a goroutine per request |
| session resumption | `valuerpc/hashchain.go` | a one-time link of a reverse hash chain per reconnect |
| reverse RPC | `valueclient/serving.go`, `valueserver/serving_stream.go`, `valuerpc/peer.go` | the server calls functions and opens streams on the client |
| policies | `resilience/` | retry, circuit breaker, rate limit, bulkhead, timeout, fallback as client interceptors |
| transports | `valuerpc/rpc.go`, `transport*.go`, `quic/` | TCP, TLS, Unix, WebSocket, in-memory, caller-supplied, QUIC |
| messages | `valuerpc/protocol.go`, `verify.go`, `types.go`, `metadata.go`, `error.go` | dialect, argument checks, error codes |
| the rest | `options.go`, `typed.go`, `function.go`, `metrics.go`, `interceptor.go`, `principal.go`, `peercred*.go`, `examples/` | configuration, wrappers, observers, credentials |

A request has an id. A unary call is one frame each way. A stream is opened by
a request, acknowledged by `StreamReady`, and then carries values, credit and
ends in one or both directions until both sides retire it. A session outlives
its connections: a client that reconnects presents the next link of its chain
and is attached to the same `servingClient`.

## The modules

**FlowControl** holds `CreditGate` and `StreamPump` as values and operators,
one operator per critical section, or per step of the pump's goroutine, the
batching of grants, and the frames that carry values and grants.

**Stream** is one stream between a client and a server on a connection that
stays up: the goroutine inside `GetStream`/`PutStream`/`Chat` (`opener`),
`watchContext` (`watcher`), `streamOut` (`sender["up"]`), the response loop, the
server's read loop, the handler goroutine (`handler`), `outgoingStreamer`
(`sender["down"]`) and the two pumps. Each goroutine's program counter is a
variable; an action is a stretch of code between two points where another
goroutine can interfere. The connection is a FIFO per direction (`wire`): the
order of frames is what `reqCh`, `outgoingQueue` and the transport keep. The
k-th value of a direction is the number k, so order and loss are visible as
numbers. A Null value is a value too: it is sent and paid for, and dropped by
the receiver before its delivery is counted; `nulls` counts them. `rc` is the
client's `rpcRequestCtx`, `sr` the server's `servingRequest`.

**BoundedStream** is the abstract specification of one direction: values arrive
in order, once, and the sender is never more than `Capacity` ahead. **StreamService**
is what `Stream` is to its two applications: it instantiates `BoundedStream` twice
(`Down`, `Up`), with the window and the channel as capacity (`Implements` is the
conjunction), and has the fairness and the liveness properties.

**Reverse** is one request in the other direction: the server calls, or opens a
stream to, a function of the client. `opener` is `openStream` with `awaitReady`,
or `CallFunction`; `watcher` is `watchStream`; `sender["down"]` is the server's
`streamOut`, `sender["up"]` the client's `outgoingStreamer`; `cs` is the
`clientStream` (for a call, its entry of `pendingCalls`) and `sr` the
`clientServingRequest`. The code is a second implementation of the stream
protocol and is modelled as such; only `FlowControl` is shared. It adds the
closing of the session (`shut`) and of the client (`quit`), each in its two
steps: `servingClient.Close` ends the connection and then sweeps the streams,
`rpcClient.Close` sweeps first and resets the connection afterwards. `Replace`,
which only `ReplacedSpec` has, is the loss of a connection followed by the
resumption of the session: what was on the connection is lost, what the sender
has not taken from `outgoingQueue` is not.

**Session** is one client's session. `Callers` are goroutines inside
`ConnectContext`; a connection is a number in the order of dialling; the server
runs one goroutine per connection, which may still be inside
`createOrUpdateServingClient` when the client has given the connection up. A
link is its index in the chain, so hashing is adding one: SHA-256 enters only
as a function without collisions. In `replaceConn` the load and the close of
the old connection are one step, which loses nothing because closing is
idempotent.

**Dispatch** is the server's half of one session: read loop, handler
goroutines, the two caps, contexts, streamers and the session's end. Streams
appear only as far as dispatching is concerned (running, waiting for credit,
done). The model has one read loop at a time; after a drop the loop of the old
connection may still be busy, but it has stopped reading.

**Connection** is the client's connection management: callers issuing requests,
the loops of every connection, `BadConnection`, `Reconnect` with its
single-flight flag, `syncConn.reset` in its three steps, `retryReconnect`,
timeouts and `Close`. A dial with its handshake is one step because it runs
under the mutex of `syncConn` and shows only when the connection is stored. The
requests `ReplayUnary` accepts are an arbitrary choice at every reconnect.

**Resilience** is the documented interceptor chain, with a bulkhead around each
attempt, for concurrent calls to one method. Time is abstract: a cooldown
elapses, a token is refilled, a context expires, at any moment.

**Server** is the server's lifecycle: listener, `Run` with its backoff, the limit
and the registration under `acceptMu`, the goroutine of every connection from
the handshake to its end, the sessions with their bounded `outgoingQueue` and
its `sender`, and `Close` in its five steps (`closer`): shutdown flag, listener,
sweep of `connMap`, sweep of `clientMap`, `wg.Wait`. The transport is a variable
that never changes; "stream" (TCP, TLS, Unix), "ws" and "mem" differ in how a
connection reaches `Accept`, in whether a peer can vanish unnoticed and in
whether a write has a deadline. `connMap` also stands for `liveConns` and the
wait group, which change with it. What `Session` has (hash chain, overlapping
handshakes) and what `Dispatch` has (handlers) is reduced to an outcome here.

**Quic** is one connection of the QUIC transport: a QUIC stream per request,
opened with the first frame of a request id, half-closed by the type of the
frames, freed when both halves are done; the accept loop, a reader per stream,
`WriteMessage`, `Close` with its wait group, and the loss of the connection. A
reader takes a frame off its stream (`Read`), holds it until `ReadMessage` takes it
from `incoming` or the connection is closed (`Funnel`), and ends at a FIN or a
failed read (`ReadFails`). The layer above is reduced to `queue` and `core`: what a
side has queued, and how far each request has got; both are dropped once the
side is done with the connection (`Abandon`). QUIC itself is a reliable FIFO per
stream and direction until the connection is lost; frames that were received and
not yet read count as lost with it. In `Write`, opening a stream and adding its
reader to the wait group are one step; in the code another goroutine's `Close` can
come between the two (see below).

**Verify** has `Verify` and the definitions of types as operators, and `Wire`,
what becomes of a value between caller and callee (nil is Null afterwards). A
member of a list or map is represented by its kind, all that `Verify` looks at.
Only the callee calls `Verify`, on what it received. `Fits` is the reference, stated
over what the caller passed; `CalleeAccepts` says that the callee accepts exactly
what fits.

`MCStream`, `MCReverse`, `MCSession`, `MCDispatch`, `MCConnection`,
`MCResilience`, `MCServer` and `MCQuic` instantiate these for TLC; `MCDispatch`
also evaluates `CalleeAccepts` as an assumption. `TypeOK` documents the
state of every detailed module; a run checks the one of `Stream`, whose proof
everything about `Stream` rests on. Definitions whose comment starts with
"Wrong:" are plausible slips in the code; no specification uses them. Put in the
place of the definition they follow, each makes the property it is paired with
in `PROJECT.json` fail.

## What the runs check

Runs that pass:

| Run | Shows | Instance |
|-----|-------|----------|
| `stream_requests` | `CreditedValueFits`: a credited value always fits the pump; `CreditConserved`: credit, values under way and deliveries always add up to the window, less one for each Null value; `NoGap`, `CompleteAtClose`: nothing lost, nothing reordered, everything delivered at a normal end; `NoEarlyFrame`; `Implements`: both directions implement `BoundedStream`; `Completes`; `ContextCancelTearsDown` | all kinds, windows 2 and 1, channels of 1, four values and a Null one down a get-stream, three and a Null one up a put-stream, one each way in a chat; contexts are cancelled, and a get-stream also by `CancelRequest` (together with a cancelled context on a chat, it takes TLC beyond a few minutes) |
| `reverse_requests` | `CreditedValueFits`, `NoGap`, `CompleteAtClose` for the reverse path; `FramesFindRequest`: no frame of a running stream arrives before its registration; `Completes`; `GiveUpRetires`: a timeout or a cancelled context retires the stream on both sides; `CloseUnblocks`: closing the session or the client leaves nobody waiting | calls and all kinds of stream, windows 2 and 1, channels of 1, three values one way, one of them Null, or one in a chat; contexts end, either side closes |
| `session_resume` | `LinkPresentedOnce`, `LastIsNewest`, `NewestAttaches`, `RefusedIsStale` | two concurrent callers, a chain of three links, a resync window of two, four connections |
| `dispatch_serve` | `HandlersBounded`, `StreamsCounted`, `EveryRequestAnswered`; the assumption `CalleeAcceptsHere` | a unary call, a put-stream and a get-stream; two handlers and one stream at a time; two kinds, two names, lists of up to two |
| `connection_reconnect` | `SingleFlight`, `DropDisposed`, `FlagReleased` | one call, two connections, one retry, a manual reconnect, Close |
| `resilience_chain` | `HalfOpenCovered`: a half-open breaker has a call to wait for; `SlotsExact`: the bulkhead holds a slot for each attempt under way and for no other; `HalfOpenResolves`, `CallReturns` | two callers, two calls and two attempts each, one token, two probes, one slot |
| `quic_requests` | `InOrder`: the frames of a request stay in order although each stream has its own reader; `Freed`: both sides give the stream of a request back; `Completes`, but for the stalls named below; `CloseReturns`: no reader keeps `Close` waiting, whether it reads or holds a frame nobody takes | one request of any kind, window 1, two values one way, Close and loss at any moment |
| `server_lifecycle` | `LimitHolds`: no more connections than the limit; `CloseComplete`: after the sweep every connection still served is closed, and nothing is served when Close has returned; `CloseDrains`: Close and Run return; `ReadLoopResumes`, `ConnReclaimed`, `ClosedSessionStops`: no read loop, slot, sender or handler is held for ever | three transports, two connections of one client, limits 1 and 2, one handler, a queue of one, two requests per connection |

Runs that find a disagreement between code and documentation; each is described
with its lines under "findings":

| Run | What happens |
|-----|--------------|
| `session_sends` | two overlapping handshakes leave the session sending on a dead connection |
| `reverse_replaced` | a reverse stream goes on after its connection was replaced, with values missing |
| `connection_fail_fast` | a new connection that breaks before its `Reconnect` returns is reported to nobody |
| `quic_drop` | a lost QUIC connection ends every reader, but `ReadMessage` waits on and requests hang |

### Seen while modelling, without a run

The models reach these, or the code shows them; no property states the opposite.

- A Null value costs its sender a credit that never comes back, forward and
  reverse (`valueclient/client.go:436`, `valueserver/serving_request.go:187`,
  `valueserver/serving_stream.go:195`, `valueclient/serving.go:231`): the receiver
  drops it before counting its delivery. Once the credit left is less than half a
  window, a longer stream stalls; `Starved` in `Completes` is this case.
- Session: a resync window of n bridges n - 1 lost handshakes, because the link
  presented is itself the last of the n steps; `valuerpc/hashchain.go:56-57` and
  127-128 say n. `RefusedIsStale` states what the code does.
- Forward streams: a cancel the server reads before the handler goroutine has
  registered the stream is dropped (`valueclient/request.go:260`).
- Handler contexts survive a disconnect (README.md:69-70 says they are
  cancelled): only `servingClient.Close` cancels them, and only the server's
  `Close` calls it.
- Handlers that pass the comparison with the stream cap together exceed it
  (`valueserver/serving_client.go:435`).
- A reverse stream that the client's response loop registers after
  `rpcClient.Close` has swept its map is not closed (`valueclient/client.go:191`).
- Retry runs calls again that the server has run: one whose answer was lost fails
  with `ErrConnectionLost`, and one whose handler answered with `Unavailable` or
  `ResourceExhausted` carries that code; the default predicate takes both for
  transient, and `resilience/retry.go:51-53` says the server did not process them.
- `syncConn.reset` loads the connection and stores nil in two steps without the
  mutex: a connection stored in between is dropped without being closed
  (`valueclient/sync_conn.go:77`).
- QUIC: the server finishes its half of a put-stream with `StreamReady`, so its
  later credit is swallowed and a put-stream longer than a window stalls
  (`quic/transport.go:316-344`); the client finishes its half of a chat with its
  own `StreamEnd`, so the credit it grants afterwards is swallowed and the
  server's output stalls (`valueserver/serving_request.go:205-206` counts on the
  half-close); `Starved` in `Completes` is these two cases; the stream of a
  refused put-stream or chat, of a cancelled get-stream or chat, and one opened
  by a late credit or cancel is not given back; a reader started beside `Close`
  adds to the wait group while it is waited on; reverse requests find no stream;
  an over-size frame ends its reader silently.
- Server: a session stored after the sweep of `Close` keeps its sender; sessions
  are never removed from `clientMap`; the read loop that turns a request down
  waits for room in the queue (`valueserver/serving_client.go:26-27` says it never
  blocks), which ends with a write deadline except in memory, where two sides
  that both wait for the other to read stay so; a write that times out leaves a
  torn frame before the next one (`valuerpc/rpc.go:158`).
- Verify: an optional argument left nil arrives as Null, which `VerifyArg` refuses
  (`valuerpc/verify.go:86`; README.md:275-276 calls it optional). An optional
  parameter may be missing, nil or Null.

### Bounds

Windows of 2 and 1 are the smallest at which half a window rounds differently;
four values need a second and a third grant, so a credit lost or doubled at a
batch boundary shows. One Null value is what a stream with a window of two
survives and one with a window of one does not. A resync window of two bridges one
lost handshake and not two. Two callers are enough for two tokens to be drawn in one
order and presented in another, and the chain is short enough to run out. Two
connections are enough for a drop, the connection that replaces it, and a drop
of that one; a third adds only repetition. One call suffices for `DropDisposed`
because requests share nothing but the map and the counter, and the last
request issued is the one at the boundary of the cutoff. In `Server` two
connections of one client are a session and its resumption, or one connection
at the limit and one over it; with one handler and a queue of one, the second
request is turned down into a full queue. In `Quic` one request already has two
streams, the handshake's and its own, and a third when a late frame opens one;
requests share nothing but the writer and `incoming`; two values are one more than
the window, and need a credit that is not swallowed. Every unbounded counter
has its bound among the constants (`MaxValues`, `MaxNulls`, `MaxConns`, `MaxRounds`,
`MaxRequests`, `MaxDrops`).

### Deadlock and fairness

Deadlock is not checked where the modelled system may rest: a finished stream,
a closed session, all calls returned.

Fairness is weak fairness, because Go schedules a runnable goroutine. Nothing
obliges an application to cancel, close or reconnect, a transport to break, or a
dial to succeed. In `Stream`, `Reverse`, `Dispatch` and `Quic` handlers return and
applications read their channels and close the ones they write; the timers in
`SingleResp` and `awaitReady` fire.

In `Dispatch` and `Server` every goroutine is weakly fair by itself. `Stream`,
`Reverse`, `Quic` and `Resilience` assume less: as long as anybody can go on,
somebody does. That is enough where streams have finitely many values and callers
make finitely many calls, as they do under the bounds, and nothing repeats for
ever; for callers without end, `CallReturns` would rest on the runtime queueing the
senders of a channel first in, first out. `connection_reconnect` assumes only the
part that `FlagReleased` needs (`ReconnectSpec`): the goroutine inside `Reconnect`
keeps running.

In `Server` handlers return, the deadlines of handshake and write pass (there is
none for a write in memory, and the properties about a blocked read loop exclude
it) and keepalive notices a dead peer; whether a peer reads, asks or closes is up
to it.

## What is proved

Every theorem holds for every value of the constants that satisfies the named
assumptions of the modules.

### Streams

Three modules, each extending the one before it: `StreamProofs` (gate, pump and
runs of consecutive numbers, then types, control and order), `StreamDelivery`
(what the steps keep of the credit ledger and of completeness, given the four laws
`CreditLaws` of the credit on a connection) and `StreamCorrect` (the laws, by
counting; the theorems from the ledger on; the refinement). Windows and capacities
are positive; kind of stream, number of values and ways to give up are arbitrary.

- `TypeCorrect`: `Spec => []TypeOK`. The point of it is arithmetic: a gate's
  credit is a natural number after every action, because only `AcquireGranted`
  precedes `Acquire`.
- `ControlCorrect`: `Spec => [](ControlInv /\ NoEarlyFrame)`. `NoEarlyFrame` is
  not inductive. `ControlInv` adds what keeps it true: the request is the first
  frame the client sends and is sent once; until the handler goroutine
  registers the stream the server has sent nothing and the client has nothing
  to send but its cancel; the streamer runs only after the handler returned;
  a put-stream never has anything in the receive pump.
- `NoGapCorrect`: `Spec => []NoGap`. `OrderInv(d)` follows a direction from end
  to end: the channel, the pump's hand and its queue continue the number the
  application took last (`Ordered`), and as long as the receiver still takes
  frames in, the frames under way continue what was pushed last up to what was
  sent last (`Carries`). `Carries` is needed because a value pushed out of order
  would break `NoGap` only steps later. That the receiver takes frames in is
  part of it because afterwards frames are dropped and numbers are missing,
  harmlessly. It rests on `ControlInv` for the frames that arrive before the
  request is registered and for the put-stream's acknowledgement, which goes
  around the pump.
- `FlowControlCorrect`: `Spec => []CreditedValueFits`, and `ConservedCorrect`:
  `Spec => []CreditConserved`. `CreditInv(d)` is a ledger. `Obtained(d)`, the
  credit at the gate or already spent, and the grants under way together never
  exceed `Granted(d)`: the window, once it was granted, and the deliveries the
  pump's hook has counted and granted back. While both ends know the request
  they are equal but for the Null values sent, one credit each, which is
  conservation. A value at the head of the connection has a number of at most
  `Obtained`; by `OrderInv` that number is one more than everything the receiver
  holds or has handed over; the difference to `Granted` leaves a free place in
  the queue. `DeliveredInv` deals with `recvDelivered` starting at -1 so that
  the acknowledgement earns no credit, `EstablishedInv` with the window that is
  granted only after the acknowledgement was read.
- `CompleteCorrect`: `Spec => []CompleteAtClose`. `DrainedInv` says that a pump whose
  input ended without a stop was given everything that was sent, or somebody
  gave the stream up. The rest of `CompleteInv` says where the end of a stream
  comes from: who sends a cancel (`CancelInv`), who closes the serving request
  (`ClosedInv`), when a `StreamEnd` carries a last value (`FinalInv`), and that the
  server's pump never overflows (`RoomInv`, from the ledger), so that the
  truncation of an overrun is not among the ends.
- `ImplementsCorrect`: `Spec => Implements`. Every step of `Stream` is, for each
  direction, an action of `BoundedStream` or leaves its four variables alone.
  `PushedInv` carries what the mapping needs beyond the invariants above: that
  what the application took, or the receiver holds, was sent.

Each invariant preservation proof has one step per action or group of actions
that affect the same variables. `Carries` speaks of each position of a FIFO and
the credit under way is the cardinality of a set, so that sending and receiving
are one-step arguments and no induction over sequences is needed.

### Sessions

`SessionProofs`, for any number of callers and connections, any chain and any
resync window. `LinkPresentedOnceCorrect` (`Spec => []LinkPresentedOnce`) is not
inductive alone: `TokenInv` adds that a link drawn and not yet presented lies above
the next one to draw, in the hands of one caller, and on no connection.
`LastIsNewestCorrect`, `RefusedIsStaleCorrect` (`Spec => []...`) and
`NewestAttachesCorrect` (`Spec => NewestAttaches`) need in addition that connections
are dialled in order and that only an existing session is resumed. The anchor
is the exception throughout: a client that has not been established presents it
again.

### Dispatch and Verify

`DispatchProofs`, for any set of requests of any kinds and both caps.
`HandlersCorrect` (`Spec => []HandlersBounded`) and `StreamsCorrect`
(`Spec => []StreamsCounted`) equate two counters with cardinalities. `MailInv` is
the reason a handler is started once per request: an unread request is fresh, and
is in the inbox once. `PhaseInv` ties the program counter of a handler to what it
holds, and `CountInv` says that `liveStreams` is the size of the map but for the
streams stored and not counted yet, so that whichever of cancel, end of input,
handler error and streamer comes first counts a stream down and the others do not.

`AcceptsWhatFits` (`CalleeAccepts`): for any kinds, names and lengths, every value
and every definition, `Verify` accepts after the wire exactly what `Fits` allows the
caller to pass.

### Connection

`ConnectionProofs`, for any set of calls, any number of connections and every
policy. `SingleFlightCorrect` (`Spec => []SingleFlight`) is nearly inductive.
`DropDisposedCorrect` (`Spec => []DropDisposed`) is not: between the reset of a
connection and the sweep of the map by the cutoff, requests do wait on a dead
connection. `DropInv` says who is still going to deal with each of them: a
`Reconnect` that has yet to read the cutoff, one about to range over the map with
a cutoff at or above the request, or one that has taken the request for replay.
`ResetInv` supports it: until `Close`, the connection in place is open, and a
reset closes the connection it replaced and no other.

### Resilience

`ResilienceProofs`, for any number of callers and every setting of the options.
`HalfOpenCorrect` (`Spec => []HalfOpenCovered`) needs that a closed breaker is
below its threshold (`ConsecInv`). `SlotsCorrect` (`Spec => [](SlotsExact /\ sem
<= MaxConcurrent)`) equates the bulkhead's semaphore with the attempts under
way, whatever ends an attempt. `TypeCorrect` bounds attempts and runs
(`AttemptInv`).

### Server

`ServerProofs`, for any number of connections and clients and any limit.
`LimitCorrect` (`Spec => []LimitHolds`): `Run` compares with `maxConnections` before it
takes the mutex, and the limit still holds, because `Run` alone adds to `connMap`;
`RoomInv` carries the comparison to the registration. `CloseCompleteCorrect`
(`Spec => []CloseComplete`): after the sweep every connection still served is
closed, and when `Close` has returned no goroutine of a connection runs. It
needs that `connMap` is exactly the set of running goroutines (`ServedInv`) and
that a connection in it, or in the hands of `Run`, exists (`HeldInv`), so that
closing it closes it.

### Only model-checked

Liveness under fairness, which the prover does not do: `Completes` and the other
leads-to properties of every module. The invariants of `Reverse` and `Quic`.

## Not modelled

- The bytes of a frame: codecs, framing, size limits. Frames are atomic, so a
  write that stops half way is out of reach.
- Address parsing, proxies, TLS configuration, the registry of in-memory names
  and the rendezvous of a single message in memory: I/O or plain lookups.
- Authenticators, authorizers and peer credentials: predicates on a connection,
  whose refusal is an outcome of the handshake in `Session` and `Server`.
- The binding of a session to a principal and of a chain to its codec.
- `Fallback`, backoff delays and fractional tokens in `resilience/`.
- Registering a client function, relaying through a `Peer`, and a panicking
  client handler, which ends the process.
- Typed wrappers, options, metrics, debugging output and the examples:
  configuration and adapters without protocol state.
- Compositions: `Stream` keeps its connection, and what becomes of its requests
  on a drop is in `Connection`; `Dispatch` has one read loop at a time.

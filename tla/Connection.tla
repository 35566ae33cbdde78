----------------------------- MODULE Connection -----------------------------
(***************************************************************************)
(* The client's connection management: the one connection of syncConn, the *)
(* read and write loops of every rpcConn, Reconnect with its single-flight *)
(* flag and its policy for requests in flight, the retries after a failed  *)
(* dial, Close, and the callers that issue requests meanwhile.             *)
(*                                                                         *)
(* Connections are numbered in the order they are dialled.  A dial and its *)
(* handshake run under the mutex of syncConn and take effect when the      *)
(* connection is stored, so they are one step.                             *)
(***************************************************************************)
EXTENDS Integers, FiniteSets

CONSTANTS
    Reqs,           \* the calls the application makes
    MaxAttempts,    \* ReconnectPolicy.MaxAttempts; negative: retry for ever
    MaxConns        \* bound: connections dialled

ASSUME ReqsAssumption == IsFiniteSet(Reqs)
ASSUME BoundAssumption == MaxAttempts \in Int /\ MaxConns \in Nat \ {0}

Conns == 1..MaxConns
Reader(i) == <<i, "rd">>
Writer(i) == <<i, "wr">>
Loops == Conns \X {"rd", "wr"}
User == <<0, "user">>       \* calls Reconnect
Closer == <<0, "close">>    \* calls Close
Goroutines == Loops \union {User, Closer}

VARIABLES
    conns,          \* number of connections dialled
    up,             \* connections whose transport works
    done,           \* connections closed by this client
    cur,            \* syncConn.conn, 0 for nil
    queue,          \* queue[i]: requests in reqCh of connection i
    pc,             \* pc[g]: where goroutine g is
    old,            \* old[g]: the connection reset has loaded, 0 for none
    attempt,        \* attempt[g]: dials retryReconnect has made
    reconnecting,   \* the single-flight flag
    cutoff,         \* the last request id issued when Reconnect looked
    replay,         \* requests Reconnect will send again
    shuttingDown,   \* Close was called
    lastRequest,    \* the id counter
    id,             \* id[r]: the request id of r, 0 for none yet
    req,            \* req[r]: where the caller of r is
    via,            \* via[r]: the connection r was last sent on, 0 for none
    ctxMap,         \* requestCtxMap
    outcome,        \* outcome[r]: what closed the request
    served          \* requests the peer has received and not answered

connVars == <<conns, up, done, cur>>
flightVars == <<reconnecting, cutoff, replay>>
callVars == <<lastRequest, id, req, via, ctxMap, outcome>>
vars == <<connVars, queue, pc, old, attempt, flightVars, shuttingDown, callVars, served>>

TypeOK ==
    /\ conns \in 0..MaxConns
    /\ up \subseteq 1..conns /\ done \subseteq 1..conns /\ up \intersect done = {}
    /\ cur \in 0..conns
    /\ queue \in [Conns -> SUBSET Reqs]
    /\ pc \in [Goroutines -> {"off", "run", "failed", "load", "store", "close", "cutoff",
                              "range", "connect", "replay", "retry", "exit"}]
    /\ old \in [Goroutines -> 0..MaxConns]
    /\ attempt \in [Goroutines -> Nat]
    /\ reconnecting \in BOOLEAN
    /\ cutoff \in Nat
    /\ replay \subseteq Reqs
    /\ shuttingDown \in BOOLEAN
    /\ lastRequest \in Nat
    /\ id \in [Reqs -> Nat]
    /\ req \in [Reqs -> {"idle", "ensured", "numbered", "stored", "got", "wait",
                         "cancel", "cancelling", "returned"}]
    /\ via \in [Reqs -> 0..conns]
    /\ ctxMap \subseteq Reqs
    /\ outcome \in [Reqs -> {"none", "ok", "lost", "timeout", "noconn"}]
    /\ served \subseteq Reqs

Init ==
    /\ conns = 0 /\ up = {} /\ done = {} /\ cur = 0
    /\ queue = [i \in Conns |-> {}]
    /\ pc = [g \in Goroutines |-> IF g \in Loops THEN "off" ELSE "run"]
    /\ old = [g \in Goroutines |-> 0]
    /\ attempt = [g \in Goroutines |-> 0]
    /\ reconnecting = FALSE /\ cutoff = 0 /\ replay = {}
    /\ shuttingDown = FALSE
    /\ lastRequest = 0
    /\ id = [r \in Reqs |-> 0]
    /\ req = [r \in Reqs |-> "idle"]
    /\ via = [r \in Reqs |-> 0]
    /\ ctxMap = {}
    /\ outcome = [r \in Reqs |-> "none"]
    /\ served = {}

-----------------------------------------------------------------------------
(* Connect.  The goroutine counters after the caller's own move are p. *)

\* There is a connection already, or a dial and its handshake succeed.
Connects(p) ==
    \/ cur # 0 /\ pc' = p /\ UNCHANGED connVars
    \/ /\ cur = 0 /\ conns < MaxConns
       /\ conns' = conns + 1
       /\ cur' = conns + 1
       /\ up' = up \union {conns + 1}
       /\ pc' = [p EXCEPT ![Reader(conns + 1)] = "run", ![Writer(conns + 1)] = "run"]
       /\ UNCHANGED done

\* The dial fails; or the handshake does, and the write loop, which is running
\* already, may be about to report it.
ConnectFails(p) ==
    /\ cur = 0
    /\ \/ pc' = p /\ UNCHANGED connVars
       \/ /\ conns < MaxConns
          /\ conns' = conns + 1
          /\ done' = done \union {conns + 1}
          /\ pc' = [p EXCEPT ![Writer(conns + 1)] = "failed"]
          /\ UNCHANGED <<up, cur>>

-----------------------------------------------------------------------------
(* Callers: sendRequest, SingleResp *)

At(r, s) == req' = [req EXCEPT ![r] = s]

\* ensureConnection
Ensure(r) ==
    /\ req[r] = "idle"
    /\ \/ Connects(pc) /\ At(r, "ensured") /\ UNCHANGED outcome
       \/ /\ ConnectFails(pc) /\ At(r, "returned")
          /\ outcome' = [outcome EXCEPT ![r] = "noconn"]
    /\ UNCHANGED <<queue, old, attempt, flightVars, shuttingDown, lastRequest, id, via,
                   ctxMap, served>>

Number(r) ==
    /\ req[r] = "ensured"
    /\ lastRequest' = lastRequest + 1
    /\ id' = [id EXCEPT ![r] = lastRequest + 1]
    /\ At(r, "numbered")
    /\ UNCHANGED <<connVars, queue, pc, old, attempt, flightVars, shuttingDown, via,
                   ctxMap, outcome, served>>

\* newRequestCtx
Register(r) ==
    /\ req[r] = "numbered"
    /\ ctxMap' = ctxMap \union {r}
    /\ At(r, "stored")
    /\ UNCHANGED <<connVars, queue, pc, old, attempt, flightVars, shuttingDown,
                   lastRequest, id, via, outcome, served>>

\* getConn waits until there is a connection.
GetConn(r) ==
    /\ req[r] = "stored" /\ cur # 0
    /\ via' = [via EXCEPT ![r] = cur]
    /\ At(r, "got")
    /\ UNCHANGED <<connVars, queue, pc, old, attempt, flightVars, shuttingDown,
                   lastRequest, id, ctxMap, outcome, served>>

\* SendRequest queues the request.  Nothing leaves the queue of a connection that
\* was closed, whether the request still got into it or not.
SendRequest(r) ==
    /\ req[r] = "got"
    /\ \/ via[r] \notin done /\ queue' = [queue EXCEPT ![via[r]] = @ \union {r}]
       \/ via[r] \in done /\ UNCHANGED queue
    /\ At(r, "wait")
    /\ UNCHANGED <<connVars, pc, old, attempt, flightVars, shuttingDown, lastRequest,
                   id, via, ctxMap, outcome, served>>

\* SingleResp: the request was answered or failed.
Return(r) ==
    /\ req[r] = "wait" /\ outcome[r] # "none"
    /\ At(r, "returned")
    /\ UNCHANGED <<connVars, queue, pc, old, attempt, flightVars, shuttingDown,
                   lastRequest, id, via, ctxMap, outcome, served>>

\* SingleResp: the timer or the context fires first.
Timeout(r) ==
    /\ req[r] = "wait" /\ outcome[r] = "none"
    /\ At(r, "cancel")
    /\ UNCHANGED <<connVars, queue, pc, old, attempt, flightVars, shuttingDown,
                   lastRequest, id, via, ctxMap, outcome, served>>

\* The error is recorded and the request closed; its map entry stays.
TimedOut(r) ==
    /\ At(r, "returned")
    /\ outcome' = [outcome EXCEPT ![r] = IF @ = "none" THEN "timeout" ELSE @]

\* onTimeout: sendSystemRequest makes sure of a connection first.
CancelEnsure(r) ==
    /\ req[r] = "cancel"
    /\ \/ Connects(pc) /\ At(r, "cancelling") /\ UNCHANGED outcome
       \/ ConnectFails(pc) /\ TimedOut(r)
    /\ UNCHANGED <<queue, old, attempt, flightVars, shuttingDown, lastRequest, id, via,
                   ctxMap, served>>

CancelSend(r) ==
    /\ req[r] = "cancelling" /\ cur # 0
    /\ TimedOut(r)
    /\ UNCHANGED <<connVars, queue, pc, old, attempt, flightVars, shuttingDown,
                   lastRequest, id, via, ctxMap, served>>

-----------------------------------------------------------------------------
(* The network, the peer and the loops of a connection *)

Break(i) ==
    /\ i \in up
    /\ up' = up \ {i}
    /\ UNCHANGED <<conns, done, cur, queue, pc, old, attempt, flightVars, shuttingDown,
                   callVars, served>>

\* requestLoop writes a request.  On a broken transport the write may fail or
\* may go nowhere; a failure is reported unless the client closed the connection,
\* in which case the loop just ends.
Write(i, r) ==
    /\ pc[Writer(i)] = "run" /\ i \notin done /\ r \in queue[i]
    /\ queue' = [queue EXCEPT ![i] = @ \ {r}]
    /\ \/ i \in up /\ served' = served \union {r} /\ UNCHANGED pc
       \/ i \notin up /\ UNCHANGED <<served, pc>>
       \/ /\ i \notin up /\ UNCHANGED served
          /\ pc' = [pc EXCEPT ![Writer(i)] = "failed"]
    /\ UNCHANGED <<connVars, old, attempt, flightVars, shuttingDown, callVars>>

\* responseLoop reads the answer to a request and processResponse closes it.
\* An answer to a request that is no longer in the map changes nothing.
Answer(i, r) ==
    /\ pc[Reader(i)] = "run" /\ i \in up
    /\ r \in served \intersect ctxMap
    /\ ctxMap' = ctxMap \ {r}
    /\ outcome' = [outcome EXCEPT ![r] = IF @ = "none" THEN "ok" ELSE @]
    /\ served' = served \ {r}
    /\ UNCHANGED <<connVars, queue, pc, old, attempt, flightVars, shuttingDown,
                   lastRequest, id, req, via>>

\* responseLoop: a read fails.
ReadFails(i) ==
    /\ pc[Reader(i)] = "run" /\ i \notin up
    /\ pc' = [pc EXCEPT ![Reader(i)] = IF i \in done THEN "exit" ELSE "failed"]
    /\ UNCHANGED <<connVars, queue, old, attempt, flightVars, shuttingDown, callVars, served>>

-----------------------------------------------------------------------------
(* Reconnect *)

\* What a goroutine does after BadConnection or Reconnect: the read loop ends, the
\* write loop goes on.
Resumed(g) == IF g[2] = "wr" THEN "run" ELSE "exit"

Moved(g, s) == [pc EXCEPT ![g] = s]

\* Wrong: the flag is set without looking at it.
ReconnectUnguarded(g) ==
    /\ \/ g \in Loops /\ pc[g] = "failed"
       \/ g = User /\ pc[g] = "run"
    /\ \/ /\ g \in Loops /\ shuttingDown
          /\ pc' = Moved(g, Resumed(g)) /\ UNCHANGED reconnecting
       \/ /\ ~(g \in Loops /\ shuttingDown)
          /\ reconnecting' = TRUE /\ pc' = Moved(g, "load")
    /\ UNCHANGED <<connVars, queue, old, attempt, cutoff, replay, shuttingDown,
                   callVars, served>>

\* BadConnection, or the application's Reconnect, up to the single-flight flag.
Reconnect(g) ==
    /\ \/ g \in Loops /\ pc[g] = "failed"
       \/ g = User /\ pc[g] = "run"
    /\ \/ /\ g \in Loops /\ shuttingDown
          /\ pc' = Moved(g, Resumed(g)) /\ UNCHANGED reconnecting
       \/ /\ ~(g \in Loops /\ shuttingDown) /\ reconnecting
          /\ pc' = Moved(g, Resumed(g)) /\ UNCHANGED reconnecting
       \/ /\ ~(g \in Loops /\ shuttingDown) /\ ~reconnecting
          /\ reconnecting' = TRUE /\ pc' = Moved(g, "load")
    /\ UNCHANGED <<connVars, queue, old, attempt, cutoff, replay, shuttingDown,
                   callVars, served>>

\* syncConn.reset takes no lock: load, store nil, close what was loaded.
ResetLoad(g) ==
    /\ pc[g] = "load"
    /\ old' = [old EXCEPT ![g] = cur]
    /\ pc' = Moved(g, "store")
    /\ UNCHANGED <<connVars, queue, attempt, flightVars, shuttingDown, callVars, served>>

ResetStore(g) ==
    /\ pc[g] = "store"
    /\ cur' = 0
    /\ pc' = Moved(g, "close")
    /\ UNCHANGED <<conns, up, done, queue, old, attempt, flightVars, shuttingDown,
                   callVars, served>>

ResetClose(g) ==
    /\ pc[g] = "close"
    /\ up' = up \ {old[g]}
    /\ done' = done \union ({old[g]} \ {0})
    /\ old' = [old EXCEPT ![g] = 0]
    /\ queue' = [i \in Conns |-> IF i = old[g] THEN {} ELSE queue[i]]
    /\ pc' = Moved(g, IF g = Closer THEN "exit" ELSE "cutoff")
    /\ UNCHANGED <<conns, cur, attempt, flightVars, shuttingDown, callVars, served>>

Cutoff(g) ==
    /\ pc[g] = "cutoff"
    /\ cutoff' = lastRequest
    /\ pc' = Moved(g, "range")
    /\ UNCHANGED <<connVars, queue, old, attempt, reconnecting, replay, shuttingDown,
                   callVars, served>>

\* failRequest
FailAll(rs) ==
    /\ ctxMap' = ctxMap \ rs
    /\ outcome' = [r \in Reqs |-> IF r \in rs /\ outcome[r] = "none" THEN "lost"
                                  ELSE outcome[r]]

\* Wrong: the newest request is taken to belong to the next connection.
RangeBelow(g) ==
    /\ pc[g] = "range"
    /\ LET dropped == {r \in ctxMap : id[r] < cutoff}
       IN  \E kept \in SUBSET dropped :
              /\ replay' = kept
              /\ FailAll(dropped \ kept)
    /\ cutoff' = 0
    /\ pc' = Moved(g, "connect")
    /\ UNCHANGED <<connVars, queue, old, attempt, reconnecting, shuttingDown,
                   lastRequest, id, req, via, served>>

\* The requests in flight fail, except the ones the application's ReplayUnary
\* asks to keep, whichever these are.
Range(g) ==
    /\ pc[g] = "range"
    /\ LET dropped == {r \in ctxMap : id[r] <= cutoff}
       IN  \E kept \in SUBSET dropped :
              /\ replay' = kept
              /\ FailAll(dropped \ kept)
    /\ cutoff' = 0
    /\ pc' = Moved(g, "connect")
    /\ UNCHANGED <<connVars, queue, old, attempt, reconnecting, shuttingDown,
                   lastRequest, id, req, via, served>>

ConnectAgain(g) ==
    /\ pc[g] = "connect"
    /\ Connects(Moved(g, "replay"))
    /\ UNCHANGED <<queue, old, attempt, flightVars, shuttingDown, callVars, served>>

\* Wrong: an early return that forgets the single-flight flag.
ConnectGivesUpHeld(g) ==
    /\ pc[g] = "connect"
    /\ ConnectFails(Moved(g, IF g \in Loops /\ MaxAttempts # 0 THEN "retry" ELSE Resumed(g)))
    /\ FailAll(replay)
    /\ replay' = {}
    /\ UNCHANGED <<queue, old, attempt, reconnecting, cutoff, shuttingDown, lastRequest,
                   id, req, via, served>>

\* The requests to replay fail too; BadConnection goes on to retryReconnect.
ConnectGivesUp(g) ==
    /\ pc[g] = "connect"
    /\ ConnectFails(Moved(g, IF g \in Loops /\ MaxAttempts # 0 THEN "retry" ELSE Resumed(g)))
    /\ FailAll(replay)
    /\ replay' = {}
    /\ reconnecting' = FALSE
    /\ UNCHANGED <<queue, old, attempt, cutoff, shuttingDown, lastRequest, id, req, via, served>>

\* Requests are sent again one by one, on the connection getConn finds each time.
Replay(g, r) ==
    /\ pc[g] = "replay" /\ cur # 0 /\ r \in replay
    /\ queue' = [queue EXCEPT ![cur] = @ \union {r}]
    /\ via' = [via EXCEPT ![r] = cur]
    /\ replay' = replay \ {r}
    /\ UNCHANGED <<connVars, pc, old, attempt, reconnecting, cutoff, shuttingDown,
                   lastRequest, id, req, ctxMap, outcome, served>>

Reconnected(g) ==
    /\ pc[g] = "replay" /\ replay = {}
    /\ reconnecting' = FALSE
    /\ pc' = Moved(g, Resumed(g))
    /\ UNCHANGED <<connVars, queue, old, attempt, cutoff, replay, shuttingDown,
                   callVars, served>>

\* retryReconnect: one round after its backoff.
Retry(g) ==
    /\ pc[g] = "retry"
    /\ \/ /\ shuttingDown
          /\ pc' = Moved(g, Resumed(g)) /\ UNCHANGED connVars
          /\ attempt' = [attempt EXCEPT ![g] = 0]
       \/ /\ ~shuttingDown
          /\ Connects(Moved(g, Resumed(g)))
          /\ attempt' = [attempt EXCEPT ![g] = 0]
       \/ /\ ~shuttingDown /\ attempt[g] + 1 = MaxAttempts
          /\ ConnectFails(Moved(g, Resumed(g)))
          /\ attempt' = [attempt EXCEPT ![g] = 0]
       \/ /\ ~shuttingDown /\ attempt[g] + 1 # MaxAttempts
          /\ ConnectFails(pc)
          /\ attempt' = [attempt EXCEPT ![g] = IF MaxAttempts < 0 THEN 0 ELSE @ + 1]
    /\ UNCHANGED <<queue, old, flightVars, shuttingDown, callVars, served>>

\* Close; the reset of the connection follows.
Close ==
    /\ pc[Closer] = "run"
    /\ shuttingDown' = TRUE
    /\ pc' = Moved(Closer, "load")
    /\ UNCHANGED <<connVars, queue, old, attempt, flightVars, callVars, served>>

-----------------------------------------------------------------------------
GoroutineStep(g) ==
    \/ Reconnect(g) \/ ResetLoad(g) \/ ResetStore(g) \/ ResetClose(g)
    \/ Cutoff(g) \/ Range(g) \/ ConnectAgain(g) \/ ConnectGivesUp(g)
    \/ \E r \in Reqs : Replay(g, r)
    \/ Reconnected(g) \/ Retry(g)

CallStep(r) ==
    \/ Ensure(r) \/ Number(r) \/ Register(r) \/ GetConn(r) \/ SendRequest(r)
    \/ Return(r) \/ CancelEnsure(r) \/ CancelSend(r)

Next ==
    \/ \E r \in Reqs : CallStep(r) \/ Timeout(r)
    \/ \E i \in Conns : Break(i) \/ ReadFails(i)
    \/ \E i \in Conns, r \in Reqs : Write(i, r) \/ Answer(i, r)
    \/ \E g \in Goroutines : GoroutineStep(g)
    \/ Close

Spec == Init /\ [][Next]_vars

\* Goroutines keep running.  Nothing makes a call be issued, a timer fire first, a
\* transport break, the application reconnect or close.
Fairness ==
    /\ \A r \in Reqs : WF_vars(Number(r) \/ Register(r) \/ GetConn(r) \/ SendRequest(r)
                               \/ Return(r) \/ CancelEnsure(r) \/ CancelSend(r))
    /\ \A i \in Conns : WF_vars(ReadFails(i) \/ \E r \in Reqs : Answer(i, r))
    /\ \A i \in Conns : WF_vars(\E r \in Reqs : Write(i, r))
    /\ \A g \in Loops \union {Closer} : WF_vars(GoroutineStep(g))
    /\ WF_vars(pc[User] # "run" /\ GoroutineStep(User))

FairSpec == Spec /\ Fairness

\* Goroutine g is inside Reconnect.
Reconnecting(g) ==
    \/ pc[g] \in {"cutoff", "range", "connect", "replay"}
    \/ g # Closer /\ pc[g] \in {"load", "store", "close"}

\* The part of it that Reconnect needs to end: whoever is inside keeps running.
ReconnectSpec ==
    Spec /\ WF_vars(\E g \in Goroutines : Reconnecting(g) /\ GoroutineStep(g))

-----------------------------------------------------------------------------
(***************************************************************************)
(* When no Reconnect is at work, no registered request is waiting on a     *)
(* connection that was replaced: Reconnect failed it or sent it again.  A  *)
(* request registered while the flag was up is on the new connection.      *)
(***************************************************************************)
DropDisposed ==
    ~reconnecting /\ ~shuttingDown =>
       \A r \in ctxMap : req[r] = "wait" /\ outcome[r] = "none" => via[r] \notin done

(***************************************************************************)
(* At most one goroutine is inside Reconnect, and the flag is up exactly   *)
(* while one is, through failing dials and dials of others in between.     *)
(***************************************************************************)
SingleFlight ==
    /\ reconnecting = \E g \in Goroutines : Reconnecting(g)
    /\ \A g, h \in Goroutines : Reconnecting(g) /\ Reconnecting(h) => g = h

(***************************************************************************)
(* Reconnect ends, so that the single-flight flag does not lock later      *)
(* drops out.  After Close a replay may wait in getConn for ever.          *)
(***************************************************************************)
FlagReleased == reconnecting ~> (~reconnecting \/ shuttingDown)

(***************************************************************************)
(* README.md:88-90: on a drop, requests in flight fail fast instead of     *)
(* hanging until timeout.                                                  *)
(***************************************************************************)
DropFailsFast ==
    \A r \in Reqs :
       (req[r] = "wait" /\ via[r] \notin up)
          ~> (req[r] # "wait" \/ via[r] \in up \/ shuttingDown)

=============================================================================

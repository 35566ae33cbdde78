-------------------------- MODULE ConnectionProofs --------------------------
(***************************************************************************)
(* The client's connection management for every set of calls, any number   *)
(* of connections and every reconnect policy: Reconnect is single-flight,  *)
(* and no request is left waiting on a connection that was replaced.       *)
(***************************************************************************)
EXTENDS Connection, TLAPS

USE BoundAssumption

-----------------------------------------------------------------------------
(* The inductive invariant *)

Counters == {"off", "run", "failed", "load", "store", "close", "cutoff", "range",
             "connect", "replay", "retry", "exit"}

\* The loops of a connection that was not dialled yet do not run.
OffInv == \A i \in Conns : i > conns => pc[Reader(i)] = "off" /\ pc[Writer(i)] = "off"

\* Close only resets the connection, and has announced itself before.
CloserInv == /\ pc[Closer] \in {"run", "load", "store", "close", "exit"}
             /\ pc[Closer] # "run" => shuttingDown

\* What a reset has loaded was dialled, and ids are drawn from the counter.
BoundInv == /\ \A g \in Goroutines : old[g] <= conns
            /\ \A r \in Reqs : id[r] <= lastRequest

\* Until Close, the connection in place is open, and a reset closes the one it
\* replaced and no other.
ResetInv ==
    ~shuttingDown =>
        /\ cur # 0 => cur \notin done
        /\ \A g \in Goroutines : /\ pc[g] = "store" => old[g] \in {0, cur}
                                 /\ pc[g] = "close" => old[g] = 0 \/ old[g] # cur

\* Until Close, a request in flight on a closed connection is still ahead of a
\* Reconnect that is going to fail it or to send it again.
Ahead(r) ==
    \/ \E g \in Goroutines : pc[g] = "cutoff"
    \/ id[r] <= cutoff /\ \E g \in Goroutines : pc[g] = "range"
    \/ r \in replay /\ \E g \in Goroutines : pc[g] \in {"connect", "replay"}

InFlight(r) == r \in ctxMap /\ req[r] \in {"got", "wait"} /\ outcome[r] = "none"

DropInv == ~shuttingDown => \A r \in Reqs : InFlight(r) /\ via[r] \in done => Ahead(r)

Inv == /\ TypeOK /\ OffInv /\ CloserInv /\ SingleFlight /\ BoundInv /\ ResetInv /\ DropInv

-----------------------------------------------------------------------------
(* Names of goroutines *)

\* The goroutines are told apart by their names.
LEMMA Names ==
    /\ \A i \in Conns : Reader(i) \in Loops /\ Writer(i) \in Loops
    /\ \A i, j \in Conns : /\ Reader(i) # Writer(j)
                           /\ Reader(i) = Reader(j) => i = j
                           /\ Writer(i) = Writer(j) => i = j
    /\ Loops \subseteq Goroutines /\ Conns \subseteq Nat \ {0}
    /\ User \in Goroutines \ Loops /\ Closer \in Goroutines \ Loops /\ User # Closer
    /\ Goroutines = Loops \union {User, Closer}
    /\ \A g \in Goroutines : Resumed(g) \in {"run", "exit"}
BY DEF Reader, Writer, Loops, Conns, User, Closer, Goroutines, Resumed

\* A dial, whoever makes it: the loops of the new connection start, and nothing
\* else changes but the connection in place.
LEMMA Dial ==
    ASSUME TypeOK, NEW p \in [Goroutines -> Counters],
           \A i \in Conns : i > conns => p[Reader(i)] = "off" /\ p[Writer(i)] = "off",
           Connects(p) \/ ConnectFails(p)
    PROVE  /\ conns' \in 0..MaxConns /\ conns' >= conns
           /\ up' \subseteq 1..conns' /\ done' \subseteq 1..conns' /\ up' \intersect done' = {}
           /\ cur' \in 0..conns' /\ pc' \in [Goroutines -> Counters]
           /\ OffInv'
           /\ \A g \in Goroutines :
                 pc'[g] = p[g] \/ (g \in Loops /\ p[g] = "off" /\ pc'[g] \in {"run", "failed"})
           /\ done \subseteq done' /\ \A i \in done' : i \in done \/ i = conns + 1
           /\ cur' = cur \/ (cur = 0 /\ cur' = conns + 1 /\ done' = done)
<1>0. /\ conns \in 0..MaxConns /\ up \subseteq 1..conns /\ done \subseteq 1..conns
      /\ up \intersect done = {} /\ cur \in 0..conns /\ conns \in Nat
  BY DEF TypeOK
<1>1. CASE pc' = p /\ UNCHANGED connVars
  <2>1. UNCHANGED <<conns, up, done, cur>> BY Zenon, <1>1 DEF connVars
  <2> QED BY <1>0, <1>1, <2>1 DEF OffInv
<1>2. CASE /\ cur = 0 /\ conns < MaxConns /\ conns' = conns + 1 /\ cur' = conns + 1
           /\ up' = up \union {conns + 1} /\ UNCHANGED done
           /\ pc' = [p EXCEPT ![Reader(conns + 1)] = "run", ![Writer(conns + 1)] = "run"]
  <2>0. conns + 1 \in Conns BY <1>0, <1>2 DEF Conns
  <2>1. /\ Reader(conns + 1) \in Goroutines /\ Writer(conns + 1) \in Goroutines
        /\ Reader(conns + 1) \in Loops /\ Writer(conns + 1) \in Loops
        /\ p[Reader(conns + 1)] = "off" /\ p[Writer(conns + 1)] = "off"
    BY <1>0, <2>0, Names
  <2>2. pc' \in [Goroutines -> Counters] BY Zenon, <1>2, <2>1 DEF Counters
  <2>3. \A g \in Goroutines :
           pc'[g] = p[g] \/ (g \in Loops /\ p[g] = "off" /\ pc'[g] \in {"run", "failed"})
    BY Zenon, <1>2, <2>1
  <2>4. OffInv'
    <3> SUFFICES ASSUME NEW i \in Conns, i > conns'
                 PROVE  pc'[Reader(i)] = "off" /\ pc'[Writer(i)] = "off"
      BY Zenon DEF OffInv
    <3>1. i > conns /\ i # conns + 1 BY <1>0, <1>2 DEF Conns
    <3>2. /\ Reader(i) \in Goroutines /\ Writer(i) \in Goroutines
          /\ Reader(i) \notin {Reader(conns + 1), Writer(conns + 1)}
          /\ Writer(i) \notin {Reader(conns + 1), Writer(conns + 1)}
      BY Zenon, <2>0, <3>1, Names
    <3> QED BY Zenon, <1>2, <3>1, <3>2
  <2>5. conns' \in 0..MaxConns /\ conns' >= conns /\ cur' \in 0..conns' BY <1>0, <1>2
  <2>6. up' \subseteq 1..conns' /\ done' \subseteq 1..conns' /\ up' \intersect done' = {}
    BY <1>0, <1>2
  <2> QED BY Zenon, <1>0, <1>2, <2>2, <2>3, <2>4, <2>5, <2>6
<1>3. CASE /\ cur = 0 /\ conns < MaxConns /\ conns' = conns + 1
           /\ done' = done \union {conns + 1} /\ UNCHANGED <<up, cur>>
           /\ pc' = [p EXCEPT ![Writer(conns + 1)] = "failed"]
  <2>0. conns + 1 \in Conns BY <1>0, <1>3 DEF Conns
  <2>1. /\ Writer(conns + 1) \in Goroutines /\ Writer(conns + 1) \in Loops
        /\ p[Writer(conns + 1)] = "off"
    BY <1>0, <2>0, Names
  <2>2. pc' \in [Goroutines -> Counters] BY Zenon, <1>3, <2>1 DEF Counters
  <2>3. \A g \in Goroutines :
           pc'[g] = p[g] \/ (g \in Loops /\ p[g] = "off" /\ pc'[g] \in {"run", "failed"})
    BY Zenon, <1>3, <2>1
  <2>4. OffInv'
    <3> SUFFICES ASSUME NEW i \in Conns, i > conns'
                 PROVE  pc'[Reader(i)] = "off" /\ pc'[Writer(i)] = "off"
      BY Zenon DEF OffInv
    <3>1. i > conns /\ i # conns + 1 BY <1>0, <1>3 DEF Conns
    <3>2. /\ Reader(i) \in Goroutines /\ Writer(i) \in Goroutines
          /\ Reader(i) # Writer(conns + 1) /\ Writer(i) # Writer(conns + 1)
      BY Zenon, <2>0, <3>1, Names
    <3> QED BY Zenon, <1>3, <3>1, <3>2
  <2>5. conns' \in 0..MaxConns /\ conns' >= conns /\ cur' \in 0..conns' BY <1>0, <1>3
  <2>6. up' \subseteq 1..conns' /\ done' \subseteq 1..conns' /\ up' \intersect done' = {}
    BY <1>0, <1>3
  <2> QED BY Zenon, <1>0, <1>3, <2>2, <2>3, <2>4, <2>5, <2>6
<1> QED BY Zenon, <1>1, <1>2, <1>3 DEF Connects, ConnectFails

\* The flag goes up with the goroutine that enters Reconnect, down with the one
\* that leaves it, and stays with all others.
LEMMA Flight ==
    ASSUME SingleFlight, reconnecting \in BOOLEAN, NEW g \in Goroutines,
           \A h \in Goroutines \ {g} : Reconnecting(h)' <=> Reconnecting(h),
           \/ (Reconnecting(g)' <=> Reconnecting(g)) /\ reconnecting' = reconnecting
           \/ ~reconnecting /\ reconnecting' = TRUE /\ Reconnecting(g)'
           \/ Reconnecting(g) /\ ~Reconnecting(g)' /\ reconnecting' = FALSE
    PROVE  SingleFlight' /\ reconnecting' \in BOOLEAN
<1>1. /\ reconnecting <=> \E h \in Goroutines : Reconnecting(h)
      /\ \A h, k \in Goroutines : Reconnecting(h) /\ Reconnecting(k) => h = k
  BY Zenon DEF SingleFlight
<1>2. reconnecting' \in BOOLEAN BY Zenon
<1>3. /\ reconnecting' <=> \E h \in Goroutines : Reconnecting(h)'
      /\ \A h, k \in Goroutines : Reconnecting(h)' /\ Reconnecting(k)' => h = k
  <2>1. CASE (Reconnecting(g)' <=> Reconnecting(g)) /\ reconnecting' = reconnecting
    <3>1. \A h \in Goroutines : Reconnecting(h)' <=> Reconnecting(h) BY Zenon, <2>1
    <3> QED BY Zenon, <1>1, <2>1, <3>1
  <2>2. CASE ~reconnecting /\ reconnecting' = TRUE /\ Reconnecting(g)'
    <3>1. \A h \in Goroutines \ {g} : ~Reconnecting(h)' BY Zenon, <1>1, <2>2
    <3> QED BY Zenon, <2>2, <3>1
  <2>3. CASE Reconnecting(g) /\ ~Reconnecting(g)' /\ reconnecting' = FALSE
    <3>1. \A h \in Goroutines : ~Reconnecting(h)' BY Zenon, <1>1, <2>3
    <3> QED BY Zenon, <2>3, <3>1
  <2> QED BY Zenon, <2>1, <2>2, <2>3
<1> QED BY Zenon, <1>2, <1>3 DEF SingleFlight
-----------------------------------------------------------------------------
(* What the steps have in common *)

\* Where a goroutine is when it is inside Reconnect or a reset.
Inside == {"load", "store", "close", "cutoff", "range", "connect", "replay"}

\* At most dials happened: the connection in place stays, or a new one takes the
\* place of none.
Dialled ==
    /\ conns' \in 0..MaxConns /\ conns' >= conns
    /\ up' \subseteq 1..conns' /\ done' \subseteq 1..conns' /\ up' \intersect done' = {}
    /\ cur' \in 0..conns'
    /\ done \subseteq done' /\ \A i \in done' : i \in done \/ i = conns + 1
    /\ cur' = cur \/ (cur = 0 /\ cur' = conns + 1 /\ done' = done)

\* No goroutine entered, left or moved inside Reconnect or a reset.
Quiet ==
    /\ \A g \in Goroutines : pc'[g] \in Inside \/ pc[g] \in Inside => pc'[g] = pc[g]
    /\ pc'[Closer] = pc[Closer]

LEMMA NoDial ==
    ASSUME TypeOK, UNCHANGED connVars
    PROVE  Dialled
<1>1. UNCHANGED <<conns, up, done, cur>> BY Zenon DEF connVars
<1> QED BY <1>1 DEF Dialled, TypeOK

LEMMA QuietFlight ==
    ASSUME Inv, Quiet, UNCHANGED <<reconnecting, shuttingDown>>
    PROVE  SingleFlight' /\ CloserInv' /\ reconnecting' \in BOOLEAN
<1>1. \A g \in Goroutines : Reconnecting(g)' <=> Reconnecting(g)
  BY Zenon DEF Quiet, Inside, Reconnecting
<1>2. reconnecting \in BOOLEAN /\ SingleFlight BY Zenon DEF Inv, TypeOK
<1>3. SingleFlight' /\ reconnecting' \in BOOLEAN BY Zenon, <1>1, <1>2, Flight, Names
<1>4. CloserInv' BY Zenon DEF Quiet, Inv, CloserInv
<1> QED BY Zenon, <1>3, <1>4

\* A reset that did not move still has what it had.
LEMMA ResetKept ==
    ASSUME Inv, Dialled, UNCHANGED <<old, shuttingDown>>,
           \A g \in Goroutines : pc'[g] \in {"store", "close"} => pc'[g] = pc[g]
    PROVE  ResetInv' /\ \A g \in Goroutines : old'[g] <= conns'
<1>0. /\ conns \in Nat /\ conns' \in Nat /\ cur \in 0..conns /\ done \subseteq 1..conns
      /\ \A g \in Goroutines : old[g] \in Nat /\ old[g] <= conns
  BY DEF Inv, TypeOK, BoundInv, Dialled
<1>1. \A g \in Goroutines : old'[g] <= conns' BY <1>0 DEF Dialled
<1>2. ASSUME ~shuttingDown'
      PROVE  /\ cur' # 0 => cur' \notin done'
             /\ \A g \in Goroutines : /\ pc'[g] = "store" => old'[g] \in {0, cur'}
                                      /\ pc'[g] = "close" => old'[g] = 0 \/ old'[g] # cur'
  <2>2. /\ cur # 0 => cur \notin done
        /\ \A g \in Goroutines : /\ pc[g] = "store" => old[g] \in {0, cur}
                                 /\ pc[g] = "close" => old[g] = 0 \/ old[g] # cur
    BY Zenon, <1>2 DEF Inv, ResetInv
  <2>3. CASE cur' = cur
    <3>1. cur' # 0 => cur' \notin done' BY <1>0, <2>2, <2>3 DEF Dialled
    <3> QED BY Zenon, <2>2, <2>3, <3>1
  <2>4. CASE cur = 0 /\ cur' = conns + 1 /\ done' = done
    <3>1. cur' \notin done' BY <1>0, <2>4
    <3>2. \A g \in Goroutines : old[g] # cur' BY <1>0, <2>4
    <3> QED BY Zenon, <2>2, <2>4, <3>1, <3>2
  <2> QED BY Zenon, <2>3, <2>4 DEF Dialled
<1>3. ResetInv' BY Zenon, <1>2 DEF ResetInv
<1> QED BY Zenon, <1>1, <1>3

\* A request in flight stays ahead of its Reconnect, or goes to the connection in
\* place, which is open.
LEMMA DropKept ==
    ASSUME Inv, Dialled, UNCHANGED shuttingDown,
           \A r \in Reqs : InFlight(r)' =>
               \/ InFlight(r) /\ via'[r] = via[r] /\ (Ahead(r) => Ahead(r)')
               \/ via'[r] = cur /\ cur # 0
    PROVE  DropInv'
<1> SUFFICES ASSUME ~shuttingDown', NEW r \in Reqs, InFlight(r)', via'[r] \in done'
             PROVE  Ahead(r)'
  BY Zenon DEF DropInv
<1>0. /\ conns \in Nat /\ cur \in 0..conns /\ via[r] \in 0..conns
      /\ cur # 0 => cur \notin done
  BY DEF Inv, TypeOK, ResetInv
<1>1. InFlight(r) /\ via'[r] = via[r] /\ (Ahead(r) => Ahead(r)')
  BY <1>0 DEF Dialled
<1>2. via[r] \in done BY <1>0, <1>1 DEF Dialled
<1> QED BY Zenon, <1>1, <1>2 DEF Inv, DropInv

\* A step outside Reconnect keeps the invariant when its own bookkeeping is right.
LEMMA QuietStep ==
    ASSUME Inv, Quiet, Dialled, UNCHANGED <<old, reconnecting, shuttingDown, cutoff, replay>>,
           TypeOK', OffInv', \A r \in Reqs : id'[r] <= lastRequest',
           \A r \in Reqs : InFlight(r)' =>
               id'[r] = id[r] /\ \/ InFlight(r) /\ via'[r] = via[r]
                                 \/ via'[r] = cur /\ cur # 0
    PROVE  Inv'
<1>1. SingleFlight' /\ CloserInv' BY Zenon, QuietFlight
<1>2. ResetInv' /\ \A g \in Goroutines : old'[g] <= conns'
  <2>1. \A g \in Goroutines : pc'[g] \in {"store", "close"} => pc'[g] = pc[g]
    BY Zenon DEF Quiet, Inside
  <2> QED BY Zenon, <2>1, ResetKept
<1>3. DropInv'
  <2>1. \A g \in Goroutines : pc[g] \in Inside => pc'[g] = pc[g] BY Zenon DEF Quiet
  <2>2. \A r \in Reqs : id'[r] = id[r] /\ Ahead(r) => Ahead(r)'
    BY Zenon, <2>1 DEF Ahead, Inside
  <2> QED BY Zenon, <2>2, DropKept
<1>4. BoundInv' BY Zenon, <1>2 DEF BoundInv
<1> QED BY Zenon, <1>1, <1>2, <1>3, <1>4 DEF Inv

-----------------------------------------------------------------------------
(* The steps of the callers, the network and the loops *)

LEMMA InitInv == Init => Inv
<1> SUFFICES ASSUME Init PROVE Inv BY Zenon
<1>1. TypeOK
  <2>1. /\ conns \in 0..MaxConns /\ up \subseteq 1..conns /\ done \subseteq 1..conns
        /\ up \intersect done = {} /\ cur \in 0..conns /\ cutoff \in Nat /\ lastRequest \in Nat
        /\ replay \subseteq Reqs /\ ctxMap \subseteq Reqs /\ served \subseteq Reqs
    BY DEF Init
  <2>2. reconnecting \in BOOLEAN /\ shuttingDown \in BOOLEAN BY Zenon DEF Init
  <2>3. /\ queue \in [Conns -> SUBSET Reqs] /\ pc \in [Goroutines -> Counters]
        /\ req \in [Reqs -> {"idle", "ensured", "numbered", "stored", "got", "wait",
                             "cancel", "cancelling", "returned"}]
        /\ outcome \in [Reqs -> {"none", "ok", "lost", "timeout", "noconn"}]
    BY Zenon DEF Init, Counters
  <2>4. /\ old \in [Goroutines -> 0..MaxConns] /\ attempt \in [Goroutines -> Nat]
        /\ id \in [Reqs -> Nat] /\ via \in [Reqs -> 0..conns]
    BY DEF Init
  <2> QED BY Zenon, <2>1, <2>2, <2>3, <2>4 DEF TypeOK, Counters
<1>2. \A g \in Goroutines : pc[g] = IF g \in Loops THEN "off" ELSE "run" BY Zenon DEF Init
<1>3. OffInv BY Zenon, <1>2, Names DEF OffInv
<1>4. CloserInv BY Zenon, <1>2, Names DEF CloserInv
<1>5. SingleFlight
  <2>1. \A g \in Goroutines : ~Reconnecting(g) BY Zenon, <1>2 DEF Reconnecting
  <2>2. reconnecting = FALSE BY Zenon DEF Init
  <2> QED BY Zenon, <2>1, <2>2 DEF SingleFlight
<1>6. BoundInv BY DEF Init, BoundInv
<1>7. ResetInv BY Zenon, <1>2 DEF Init, ResetInv
<1>8. DropInv BY Zenon DEF Init, DropInv, InFlight
<1> QED BY Zenon, <1>1, <1>3, <1>4, <1>5, <1>6, <1>7, <1>8 DEF Inv

\* A call's own step, or its timer.
LEMMA CallerStep ==
    ASSUME Inv, NEW r \in Reqs, CallStep(r) \/ Timeout(r)
    PROVE  Inv'
<1>0. /\ UNCHANGED <<old, attempt, reconnecting, shuttingDown, cutoff, replay, served>>
      /\ \A q \in Reqs \ {r} : req'[q] = req[q]
  BY Zenon DEF CallStep, Timeout, Ensure, Number, Register, GetConn, SendRequest,
     Return, CancelEnsure, CancelSend, TimedOut, At, flightVars, Inv, TypeOK
<1>1. UNCHANGED <<pc, connVars>> \/ Connects(pc) \/ ConnectFails(pc)
  BY Zenon DEF CallStep, Timeout, Ensure, Number, Register, GetConn, SendRequest,
     Return, CancelEnsure, CancelSend
<1>2. Dialled /\ Quiet /\ OffInv' /\ pc' \in [Goroutines -> Counters]
  <2>0. pc \in [Goroutines -> Counters] /\ OffInv BY Zenon DEF Inv, TypeOK, Counters
  <2>1. CASE UNCHANGED <<pc, connVars>>
    <3>1. Dialled BY Zenon, <2>1, NoDial DEF Inv
    <3>2. conns' = conns BY Zenon, <2>1 DEF connVars
    <3> QED BY Zenon, <2>0, <2>1, <3>1, <3>2 DEF Quiet, OffInv
  <2>2. CASE Connects(pc) \/ ConnectFails(pc)
    <3>1. Dialled /\ OffInv' /\ pc' \in [Goroutines -> Counters]
      BY Zenon, <2>0, <2>2, Dial DEF Inv, OffInv, Dialled
    <3>2. \A g \in Goroutines : pc'[g] = pc[g]
             \/ (g \in Loops /\ pc[g] = "off" /\ pc'[g] \in {"run", "failed"})
      BY Zenon, <2>0, <2>2, Dial DEF Inv, OffInv
    <3>3. Quiet BY Zenon, <3>2, Names DEF Quiet, Inside
    <3> QED BY Zenon, <3>1, <3>3
  <2> QED BY Zenon, <1>1, <2>1, <2>2
<1>3. /\ req' \in [Reqs -> {"idle", "ensured", "numbered", "stored", "got", "wait",
                           "cancel", "cancelling", "returned"}]
      /\ outcome' \in [Reqs -> {"none", "ok", "lost", "timeout", "noconn"}]
      /\ ctxMap' \subseteq Reqs
  BY Zenon DEF CallStep, Timeout, Ensure, Number, Register, GetConn, SendRequest,
     Return, CancelEnsure, CancelSend, TimedOut, At, Inv, TypeOK
<1>4. /\ lastRequest' \in Nat /\ id' \in [Reqs -> Nat] /\ \A q \in Reqs : id'[q] <= lastRequest'
      /\ id' = id \/ (id' = [id EXCEPT ![r] = id'[r]] /\ req'[r] = "numbered")
  <2>1. CASE Number(r)
    BY <2>1 DEF Number, At, Inv, TypeOK, BoundInv
  <2>2. CASE UNCHANGED <<lastRequest, id>>
    BY Zenon, <2>2 DEF Inv, TypeOK, BoundInv
  <2> QED BY Zenon, <2>1, <2>2 DEF CallStep, Timeout, Ensure, Register, GetConn,
             SendRequest, Return, CancelEnsure, CancelSend
<1>5. via' = via \/ (cur # 0 /\ via' = [via EXCEPT ![r] = cur])
  BY Zenon DEF CallStep, Timeout, Ensure, Number, Register, GetConn, SendRequest,
     Return, CancelEnsure, CancelSend
<1>6. via' \in [Reqs -> 0..conns']
  <2>1. via \in [Reqs -> 0..conns] /\ cur \in 0..conns /\ conns \in Nat BY DEF Inv, TypeOK
  <2>2. conns' \in Nat /\ conns' >= conns BY <1>2 DEF Dialled
  <2>3. via' \in [Reqs -> 0..conns] BY Zenon, <1>5, <2>1
  <2>4. 0..conns \subseteq 0..conns' BY <2>1, <2>2
  <2> QED BY Zenon, <2>3, <2>4
<1>7. queue' \in [Conns -> SUBSET Reqs]
  <2>1. queue' = queue \/ queue' = [queue EXCEPT ![via[r]] = @ \union {r}]
    BY Zenon DEF CallStep, Timeout, Ensure, Number, Register, GetConn, SendRequest,
       Return, CancelEnsure, CancelSend
  <2> QED BY <2>1 DEF Inv, TypeOK
<1>8. TypeOK'
  <2>1. Dialled /\ TypeOK BY Zenon, <1>2 DEF Inv
  <2> QED BY Zenon, <1>0, <1>2, <1>3, <1>4, <1>6, <1>7, <2>1 DEF TypeOK, Dialled,
             Counters
<1>9. \A q \in Reqs : InFlight(q)' =>
         id'[q] = id[q] /\ \/ InFlight(q) /\ via'[q] = via[q]
                           \/ via'[q] = cur /\ cur # 0
  <2>1. ASSUME InFlight(r)'
        PROVE  \/ InFlight(r) /\ via'[r] = via[r]
               \/ via'[r] = cur /\ cur # 0
    BY Zenon, <2>1 DEF CallStep, Timeout, Ensure, Number, Register, GetConn,
       SendRequest, Return, CancelEnsure, CancelSend, TimedOut, At, InFlight, Inv,
       TypeOK
  <2>2. ASSUME NEW q \in Reqs, q # r, InFlight(q)'
        PROVE  InFlight(q) /\ via'[q] = via[q] /\ id'[q] = id[q]
    <3>1. via'[q] = via[q] BY Zenon, <1>5, <2>2 DEF Inv, TypeOK
    <3>2. id'[q] = id[q] BY Zenon, <1>4, <2>2 DEF Inv, TypeOK
    <3>3. InFlight(q)
      BY <2>2 DEF CallStep, Timeout, Ensure, Number, Register, GetConn, SendRequest,
         Return, CancelEnsure, CancelSend, TimedOut, At, InFlight, Inv, TypeOK
    <3> QED BY Zenon, <3>1, <3>2, <3>3
  <2>3. InFlight(r)' => id'[r] = id[r] BY Zenon, <1>4 DEF InFlight
  <2> QED BY Zenon, <2>1, <2>2, <2>3
<1> QED BY Zenon, <1>0, <1>2, <1>4, <1>8, <1>9, QuietStep
\* The transport breaks, a loop reads or writes, or a read fails.
LEMMA LoopStep ==
    ASSUME Inv, NEW i \in Conns, NEW r,
           Break(i) \/ ReadFails(i) \/ (r \in Reqs /\ (Write(i, r) \/ Answer(i, r)))
    PROVE  Inv'
<1>0. /\ UNCHANGED <<conns, done, cur, old, attempt, reconnecting, cutoff, replay,
                     shuttingDown, lastRequest, id, req, via>>
      /\ up' \subseteq up
  BY Zenon DEF Break, ReadFails, Write, Answer, connVars, flightVars, callVars
<1>1. Dialled BY <1>0 DEF Inv, TypeOK, Dialled
<1>2. pc' = pc \/ \E g \in Loops : /\ pc[g] = "run"
                                   /\ \E c \in {"failed", "exit"} : pc' = [pc EXCEPT ![g] = c]
  BY Zenon, Names DEF Break, ReadFails, Write, Answer
<1>3. Quiet /\ OffInv' /\ pc' \in [Goroutines -> Counters]
  <2>1. pc \in [Goroutines -> Counters] /\ OffInv BY Zenon DEF Inv, TypeOK, Counters
  <2>2. CASE pc' = pc BY Zenon, <1>0, <2>1, <2>2 DEF Quiet, OffInv
  <2>3. ASSUME NEW g \in Loops, pc[g] = "run", NEW c \in {"failed", "exit"},
               pc' = [pc EXCEPT ![g] = c]
        PROVE  Quiet /\ OffInv' /\ pc' \in [Goroutines -> Counters]
    <3>1. g \in Goroutines /\ g # Closer BY Zenon, Names
    <3>2. pc' \in [Goroutines -> Counters] BY Zenon, <2>1, <2>3 DEF Counters
    <3>3. Quiet BY Zenon, <2>1, <2>3, <3>1, Names DEF Quiet, Inside
    <3>4. OffInv' BY Zenon, <1>0, <2>1, <2>3, <3>1, Names DEF OffInv
    <3> QED BY Zenon, <3>2, <3>3, <3>4
  <2> QED BY Zenon, <1>2, <2>2, <2>3
<1>4. /\ queue' \in [Conns -> SUBSET Reqs] /\ served' \subseteq Reqs /\ ctxMap' \subseteq ctxMap
      /\ outcome' \in [Reqs -> {"none", "ok", "lost", "timeout", "noconn"}]
      /\ \A q \in Reqs : outcome'[q] = "none" => outcome[q] = "none"
  BY DEF Break, ReadFails, Write, Answer, connVars, flightVars, callVars, Inv, TypeOK
<1>5. TypeOK'
  <2>1. Dialled /\ TypeOK BY Zenon, <1>1 DEF Inv
  <2> QED BY Zenon, <1>0, <1>3, <1>4, <2>1 DEF TypeOK, Dialled, Counters
<1>6. \A q \in Reqs : InFlight(q)' =>
         id'[q] = id[q] /\ \/ InFlight(q) /\ via'[q] = via[q]
                           \/ via'[q] = cur /\ cur # 0
  BY Zenon, <1>0, <1>4 DEF InFlight
<1>7. \A q \in Reqs : id'[q] <= lastRequest' BY Zenon, <1>0 DEF Inv, BoundInv
<1> QED BY Zenon, <1>0, <1>1, <1>3, <1>5, <1>6, <1>7, QuietStep

\* Close announces itself.
LEMMA CloseStep ==
    ASSUME Inv, Close
    PROVE  Inv'
<1>0. /\ UNCHANGED <<conns, up, done, cur, queue, old, attempt, reconnecting, cutoff, replay,
                     lastRequest, id, req, via, ctxMap, outcome, served>>
      /\ pc[Closer] = "run" /\ pc' = [pc EXCEPT ![Closer] = "load"] /\ shuttingDown' = TRUE
      /\ Closer \in Goroutines
  BY Zenon, Names DEF Close, connVars, flightVars, callVars, Moved
<1>1. pc \in [Goroutines -> Counters] BY Zenon DEF Inv, TypeOK, Counters
<1>2. pc' \in [Goroutines -> Counters] BY Zenon, <1>0, <1>1 DEF Counters
<1>3. TypeOK' BY Zenon, <1>0, <1>2 DEF Inv, TypeOK, Counters
<1>4. OffInv' BY Zenon, <1>0, <1>1, Names DEF Inv, OffInv
<1>5. CloserInv' BY Zenon, <1>0, <1>1 DEF CloserInv
<1>6. SingleFlight'
  <2>1. \A g \in Goroutines : Reconnecting(g)' <=> Reconnecting(g)
    BY Zenon, <1>0, <1>1 DEF Reconnecting
  <2> QED BY Zenon, <1>0, <2>1, Flight DEF Inv, TypeOK
<1>7. BoundInv' BY Zenon, <1>0 DEF Inv, BoundInv
<1>8. ResetInv' /\ DropInv' BY Zenon, <1>0 DEF ResetInv, DropInv
<1> QED BY Zenon, <1>3, <1>4, <1>5, <1>6, <1>7, <1>8 DEF Inv

-----------------------------------------------------------------------------
(* The steps of Reconnect and of a reset *)

\* What a step of g changes of the counters, besides the loops a dial starts.
OnlyMoves(g) ==
    \A h \in Goroutines \ {g} :
        \/ pc'[h] = pc[h]
        \/ h \in Loops /\ pc[h] = "off" /\ pc'[h] \in {"run", "failed"}

\* g moves to s, without a dial.
LEMMA Moves ==
    ASSUME Inv, NEW g \in Goroutines, pc[g] # "off", NEW s \in Counters \ {"off"},
           pc' = Moved(g, s), conns' = conns
    PROVE  /\ pc' \in [Goroutines -> Counters] /\ pc'[g] = s /\ OnlyMoves(g) /\ OffInv'
           /\ \A h \in Goroutines \ {g} : pc'[h] = pc[h]
<1>1. pc \in [Goroutines -> Counters] BY Zenon DEF Inv, TypeOK, Counters
<1>2. /\ pc' \in [Goroutines -> Counters] /\ pc'[g] = s
      /\ \A h \in Goroutines \ {g} : pc'[h] = pc[h]
  BY Zenon, <1>1 DEF Moved
<1>3. OffInv' BY Zenon, <1>2, Names DEF Inv, OffInv
<1> QED BY Zenon, <1>2, <1>3 DEF OnlyMoves

\* g moves to s, with a dial.
LEMMA MovesDialling ==
    ASSUME Inv, NEW g \in Goroutines, pc[g] # "off", NEW s \in Counters \ {"off"},
           Connects(Moved(g, s)) \/ ConnectFails(Moved(g, s))
    PROVE  /\ pc' \in [Goroutines -> Counters] /\ pc'[g] = s /\ OnlyMoves(g) /\ OffInv'
           /\ Dialled
<1>1. pc \in [Goroutines -> Counters] BY Zenon DEF Inv, TypeOK, Counters
<1> DEFINE p == Moved(g, s)
<1>2. p \in [Goroutines -> Counters] /\ p[g] = s /\ \A h \in Goroutines \ {g} : p[h] = pc[h]
  BY Zenon, <1>1 DEF Moved
<1>3. \A i \in Conns : i > conns => p[Reader(i)] = "off" /\ p[Writer(i)] = "off"
  BY Zenon, <1>2, Names DEF Inv, OffInv
<1> HIDE DEF p
<1>4. /\ Dialled /\ pc' \in [Goroutines -> Counters] /\ OffInv'
      /\ \A h \in Goroutines :
            pc'[h] = p[h] \/ (h \in Loops /\ p[h] = "off" /\ pc'[h] \in {"run", "failed"})
  BY Zenon, <1>2, <1>3, Dial DEF p, Inv, Dialled
<1>5. pc'[g] = s /\ OnlyMoves(g) BY Zenon, <1>2, <1>4 DEF OnlyMoves
<1> QED BY Zenon, <1>4, <1>5

\* The goroutines beside g are where they were, as far as Reconnect is concerned.
LEMMA OthersStay ==
    ASSUME NEW g \in Goroutines, OnlyMoves(g)
    PROVE  \A h \in Goroutines \ {g} :
              /\ Reconnecting(h)' <=> Reconnecting(h)
              /\ pc[h] \in Inside \/ pc'[h] \in Inside => pc'[h] = pc[h]
              /\ h = Closer => pc'[h] = pc[h]
BY Zenon, Names DEF OnlyMoves, Inside, Reconnecting
\* The goroutine that is inside Reconnect is there alone.
LEMMA Alone ==
    ASSUME Inv, NEW g \in Goroutines, Reconnecting(g)
    PROVE  /\ \A h \in Goroutines \ {g} : /\ pc[h] \notin {"cutoff", "range", "connect", "replay"}
                                          /\ h # Closer => pc[h] \notin Inside
           /\ reconnecting = TRUE
           /\ ~shuttingDown => \A h \in Goroutines \ {g} : pc[h] \notin Inside
<1>1. \A h \in Goroutines \ {g} : ~Reconnecting(h) BY Zenon DEF Inv, SingleFlight
<1>2. reconnecting = TRUE BY Zenon DEF Inv, SingleFlight, TypeOK
<1>3. \A h \in Goroutines \ {g} : /\ pc[h] \notin {"cutoff", "range", "connect", "replay"}
                                  /\ h # Closer => pc[h] \notin Inside
  BY Zenon, <1>1 DEF Reconnecting, Inside
<1>4. ~shuttingDown => pc[Closer] \notin Inside BY Zenon DEF Inv, CloserInv, Inside
<1> QED BY Zenon, <1>2, <1>3, <1>4

\* BadConnection or Reconnect, up to the single-flight flag.
LEMMA ReconnectStep ==
    ASSUME Inv, NEW g \in Goroutines, Reconnect(g)
    PROVE  Inv'
<1>0. /\ UNCHANGED <<conns, up, done, cur, queue, old, attempt, cutoff, replay, shuttingDown,
                     lastRequest, id, req, via, ctxMap, outcome, served>>
      /\ pc[g] \in {"failed", "run"} /\ g # Closer
  BY Zenon, Names DEF Reconnect, connVars, callVars
<1>1. Dialled BY Zenon, <1>0, NoDial DEF Inv, connVars
<1>2. \A r \in Reqs : id'[r] <= lastRequest' BY Zenon, <1>0 DEF Inv, BoundInv
<1>3. CASE pc' = Moved(g, Resumed(g)) /\ UNCHANGED reconnecting
  <2>1. Resumed(g) \in {"run", "exit"} BY Zenon, Names
  <2>2. /\ pc' \in [Goroutines -> Counters] /\ pc'[g] = Resumed(g) /\ OnlyMoves(g) /\ OffInv'
    BY Zenon, <1>0, <1>3, <2>1, Moves DEF Counters
  <2>3. TypeOK' BY Zenon, <1>0, <1>3, <2>2 DEF Inv, TypeOK, Counters
  <2>4. Quiet BY Zenon, <1>0, <2>1, <2>2, OthersStay, Names DEF Quiet, Inside
  <2>5. \A r \in Reqs : InFlight(r)' =>
           id'[r] = id[r] /\ \/ InFlight(r) /\ via'[r] = via[r]
                             \/ via'[r] = cur /\ cur # 0
    BY Zenon, <1>0 DEF InFlight
  <2> QED BY Zenon, <1>0, <1>1, <1>2, <1>3, <2>2, <2>3, <2>4, <2>5, QuietStep
<1>4. CASE ~reconnecting /\ reconnecting' = TRUE /\ pc' = Moved(g, "load")
  <2>1. /\ pc' \in [Goroutines -> Counters] /\ pc'[g] = "load" /\ OnlyMoves(g) /\ OffInv'
    BY Zenon, <1>0, <1>4, Moves DEF Counters
  <2>2. TypeOK' BY Zenon, <1>0, <1>4, <2>1 DEF Inv, TypeOK, Counters
  <2>3. SingleFlight'
    <3>1. Reconnecting(g)' BY Zenon, <1>0, <2>1 DEF Reconnecting
    <3> QED BY Zenon, <1>4, <2>1, <3>1, OthersStay, Flight DEF Inv, TypeOK
  <2>4. CloserInv' BY Zenon, <1>0, <2>1, OthersStay, Names DEF Inv, CloserInv
  <2>5. ResetInv' BY Zenon, <1>0, <1>1, <2>1, OthersStay, ResetKept DEF Inside
  <2>6. DropInv'
    <3>1. \A r \in Reqs : Ahead(r) => Ahead(r)'
      BY Zenon, <1>0, <2>1, OthersStay DEF Ahead, Inside
    <3> QED BY Zenon, <1>0, <1>1, <3>1, DropKept DEF InFlight
  <2>7. BoundInv' BY Zenon, <1>0 DEF Inv, BoundInv
  <2> QED BY Zenon, <2>1, <2>2, <2>3, <2>4, <2>5, <2>6, <2>7 DEF Inv
<1> QED BY Zenon, <1>3, <1>4 DEF Reconnect
\* g goes on inside Reconnect, or inside Close's reset: the flag is not touched.
LEMMA GoesOn ==
    ASSUME Inv, NEW g \in Goroutines, OnlyMoves(g), UNCHANGED <<reconnecting, shuttingDown>>,
           pc[g] \in Inside,
           pc'[g] \in Inside \/ (g = Closer /\ pc'[g] = "exit"),
           g = Closer => pc'[g] \in {"load", "store", "close", "exit"}
    PROVE  SingleFlight' /\ CloserInv' /\ reconnecting' \in BOOLEAN
<1>1. Reconnecting(g)' <=> Reconnecting(g)
  <2>1. CASE g = Closer
    <3>1. pc[g] \in {"load", "store", "close"} BY Zenon, <2>1 DEF Inv, CloserInv, Inside
    <3> QED BY Zenon, <2>1, <3>1 DEF Reconnecting
  <2>2. CASE g # Closer BY Zenon, <2>2 DEF Reconnecting, Inside
  <2> QED BY Zenon, <2>1, <2>2
<1>2. SingleFlight' /\ reconnecting' \in BOOLEAN
  BY Zenon, <1>1, OthersStay, Flight DEF Inv, TypeOK
<1>3. CloserInv'
  <2>1. CASE g = Closer
    <3>1. shuttingDown BY Zenon, <2>1 DEF Inv, CloserInv, Inside
    <3> QED BY Zenon, <2>1, <3>1 DEF CloserInv
  <2>2. CASE g # Closer BY Zenon, <2>2, OthersStay, Names DEF Inv, CloserInv
  <2> QED BY Zenon, <2>1, <2>2
<1> QED BY Zenon, <1>2, <1>3

LEMMA ResetLoadStep ==
    ASSUME Inv, NEW g \in Goroutines, ResetLoad(g)
    PROVE  Inv'
<1>0. /\ UNCHANGED <<conns, up, done, cur, queue, attempt, reconnecting, cutoff, replay,
                     shuttingDown, lastRequest, id, req, via, ctxMap, outcome, served>>
      /\ pc[g] = "load" /\ pc' = Moved(g, "store") /\ old' = [old EXCEPT ![g] = cur]
  BY Zenon DEF ResetLoad, connVars, callVars, flightVars
<1>1. /\ pc' \in [Goroutines -> Counters] /\ pc'[g] = "store" /\ OnlyMoves(g) /\ OffInv'
      /\ \A h \in Goroutines \ {g} : pc'[h] = pc[h]
  BY Zenon, <1>0, Moves DEF Counters
<1>2. /\ old' \in [Goroutines -> 0..MaxConns] /\ old'[g] = cur
      /\ \A h \in Goroutines : old'[h] <= conns'
      /\ \A h \in Goroutines \ {g} : old'[h] = old[h]
  BY <1>0 DEF Inv, TypeOK, BoundInv
<1>3. TypeOK' BY Zenon, <1>0, <1>1, <1>2 DEF Inv, TypeOK, Counters
<1>4. SingleFlight' /\ CloserInv' BY Zenon, <1>0, <1>1, GoesOn DEF Inside
<1>5. BoundInv' BY Zenon, <1>0, <1>2 DEF Inv, BoundInv
<1>6. ResetInv' BY Zenon, <1>0, <1>1, <1>2 DEF Inv, ResetInv
<1>7. DropInv'
  <2>1. \A r \in Reqs : Ahead(r) => Ahead(r)' BY Zenon, <1>0, <1>1 DEF Ahead
  <2>2. Dialled BY Zenon, <1>0, NoDial DEF Inv, connVars
  <2> QED BY Zenon, <1>0, <2>1, <2>2, DropKept DEF InFlight
<1> QED BY Zenon, <1>1, <1>3, <1>4, <1>5, <1>6, <1>7 DEF Inv

LEMMA ResetStoreStep ==
    ASSUME Inv, NEW g \in Goroutines, ResetStore(g)
    PROVE  Inv'
<1>0. /\ UNCHANGED <<conns, up, done, queue, old, attempt, reconnecting, cutoff, replay,
                     shuttingDown, lastRequest, id, req, via, ctxMap, outcome, served>>
      /\ pc[g] = "store" /\ pc' = Moved(g, "close") /\ cur' = 0
  BY Zenon DEF ResetStore, callVars, flightVars
<1>1. /\ pc' \in [Goroutines -> Counters] /\ pc'[g] = "close" /\ OnlyMoves(g) /\ OffInv'
      /\ \A h \in Goroutines \ {g} : pc'[h] = pc[h]
  BY Zenon, <1>0, Moves DEF Counters
<1>2. TypeOK' BY <1>0, <1>1 DEF Inv, TypeOK, Counters
<1>3. SingleFlight' /\ CloserInv' BY Zenon, <1>0, <1>1, GoesOn DEF Inside
<1>4. BoundInv' BY Zenon, <1>0 DEF Inv, BoundInv
<1>5. ResetInv'
  <2> SUFFICES ASSUME ~shuttingDown PROVE ResetInv' BY Zenon, <1>0 DEF ResetInv
  <2>1. g # Closer BY Zenon, <1>0 DEF Inv, CloserInv
  <2>2. \A h \in Goroutines \ {g} : pc[h] \notin Inside
    BY Zenon, <1>0, <2>1, Alone DEF Reconnecting
  <2> QED BY Zenon, <1>0, <1>1, <2>2 DEF ResetInv, Inside
<1>6. DropInv'
  <2>1. \A r \in Reqs : Ahead(r) => Ahead(r)' BY Zenon, <1>0, <1>1 DEF Ahead
  <2> QED BY Zenon, <1>0, <2>1 DEF Inv, DropInv, InFlight
<1> QED BY Zenon, <1>1, <1>2, <1>3, <1>4, <1>5, <1>6 DEF Inv

\* The connection that was replaced is closed: whatever is on it is ahead of the
\* cutoff of the Reconnect that closes it.
LEMMA ResetCloseStep ==
    ASSUME Inv, NEW g \in Goroutines, ResetClose(g)
    PROVE  Inv'
<1> DEFINE s == IF g = Closer THEN "exit" ELSE "cutoff"
<1>0. /\ UNCHANGED <<conns, cur, attempt, reconnecting, cutoff, replay,
                     shuttingDown, lastRequest, id, req, via, ctxMap, outcome, served>>
      /\ pc[g] = "close" /\ pc' = Moved(g, s) /\ old' = [old EXCEPT ![g] = 0]
      /\ up' = up \ {old[g]} /\ done' = done \union ({old[g]} \ {0})
      /\ queue' = [i \in Conns |-> IF i = old[g] THEN {} ELSE queue[i]]
  BY Zenon DEF ResetClose, callVars, flightVars
<1>1. /\ pc' \in [Goroutines -> Counters] /\ pc'[g] = s /\ OnlyMoves(g) /\ OffInv'
      /\ \A h \in Goroutines \ {g} : pc'[h] = pc[h]
  BY Zenon, <1>0, Moves DEF Counters
<1>2. /\ old' \in [Goroutines -> 0..MaxConns] /\ \A h \in Goroutines : old'[h] <= conns'
      /\ old[g] \in 0..conns /\ \A h \in Goroutines \ {g} : old'[h] = old[h]
  BY <1>0 DEF Inv, TypeOK, BoundInv
<1>3. TypeOK'
  <2>1. up' \subseteq 1..conns' /\ done' \subseteq 1..conns' /\ up' \intersect done' = {}
    <3>1. /\ up \subseteq 1..conns /\ done \subseteq 1..conns /\ up \intersect done = {}
          /\ conns \in Nat
      BY DEF Inv, TypeOK
    <3>2. {old[g]} \ {0} \subseteq 1..conns BY <1>2, <3>1
    <3> HIDE DEF s
    <3> QED BY Zenon, <1>0, <3>1, <3>2
  <2>2. queue' \in [Conns -> SUBSET Reqs] BY Zenon, <1>0 DEF Inv, TypeOK
  <2> QED BY Zenon, <1>0, <1>1, <1>2, <2>1, <2>2 DEF Inv, TypeOK, Counters
<1>4. SingleFlight' /\ CloserInv' BY Zenon, <1>0, <1>1, GoesOn DEF Inside
<1>5. BoundInv' BY Zenon, <1>0, <1>2 DEF Inv, BoundInv
<1>6. ASSUME ~shuttingDown PROVE ResetInv' /\ DropInv'
  <2>1. g # Closer BY Zenon, <1>0, <1>6 DEF Inv, CloserInv
  <2>2. pc'[g] = "cutoff" BY Zenon, <1>1, <2>1
  <2>3. \A h \in Goroutines \ {g} : pc[h] \notin Inside
    BY Zenon, <1>0, <1>6, <2>1, Alone DEF Reconnecting
  <2>4. cur # 0 => cur \notin done' BY Zenon, <1>0, <1>6 DEF Inv, ResetInv
  <2>5. ResetInv' BY Zenon, <1>0, <1>1, <2>2, <2>3, <2>4 DEF ResetInv, Inside
  <2>6. DropInv' BY Zenon, <2>2 DEF DropInv, Ahead
  <2> QED BY Zenon, <2>5, <2>6
<1>7. ResetInv' /\ DropInv' BY Zenon, <1>0, <1>6 DEF ResetInv, DropInv
<1> QED BY Zenon, <1>1, <1>3, <1>4, <1>5, <1>7 DEF Inv

LEMMA CutoffStep ==
    ASSUME Inv, NEW g \in Goroutines, Cutoff(g)
    PROVE  Inv'
<1>0. /\ UNCHANGED <<conns, up, done, cur, queue, old, attempt, reconnecting, replay,
                     shuttingDown, lastRequest, id, req, via, ctxMap, outcome, served>>
      /\ pc[g] = "cutoff" /\ pc' = Moved(g, "range") /\ cutoff' = lastRequest
      /\ g # Closer
  BY Zenon DEF Cutoff, connVars, callVars, Inv, CloserInv
<1>1. /\ pc' \in [Goroutines -> Counters] /\ pc'[g] = "range" /\ OnlyMoves(g) /\ OffInv'
  BY Zenon, <1>0, Moves DEF Counters
<1>2. TypeOK' BY Zenon, <1>0, <1>1 DEF Inv, TypeOK, Counters
<1>3. SingleFlight' /\ CloserInv' BY Zenon, <1>0, <1>1, GoesOn DEF Inside
<1>4. BoundInv' BY Zenon, <1>0 DEF Inv, BoundInv
<1>5. Dialled BY Zenon, <1>0, NoDial DEF Inv, connVars
<1>6. ResetInv' BY Zenon, <1>0, <1>1, <1>5, OthersStay, ResetKept DEF Inside
<1>7. DropInv'
  <2>1. \A r \in Reqs : Ahead(r)' BY Zenon, <1>0, <1>1 DEF Ahead, Inv, BoundInv
  <2> QED BY Zenon, <2>1 DEF DropInv
<1> QED BY Zenon, <1>1, <1>2, <1>3, <1>4, <1>6, <1>7 DEF Inv

\* What is in flight below the cutoff fails or is put up for replay.
LEMMA RangeStep ==
    ASSUME Inv, NEW g \in Goroutines, Range(g)
    PROVE  Inv'
<1>0. /\ UNCHANGED <<conns, up, done, cur, queue, old, attempt, reconnecting,
                     shuttingDown, lastRequest, id, req, via, served>>
      /\ pc[g] = "range" /\ pc' = Moved(g, "connect") /\ cutoff' = 0
      /\ g # Closer
  BY Zenon DEF Range, connVars, callVars, Inv, CloserInv
<1> DEFINE dropped == {r \in ctxMap : id[r] <= cutoff}
<1>1. PICK kept \in SUBSET dropped :
         /\ replay' = kept /\ ctxMap' = ctxMap \ (dropped \ kept)
         /\ outcome' = [r \in Reqs |-> IF r \in dropped \ kept /\ outcome[r] = "none"
                                       THEN "lost" ELSE outcome[r]]
  BY Zenon DEF Range, FailAll
<1>2. /\ pc' \in [Goroutines -> Counters] /\ pc'[g] = "connect" /\ OnlyMoves(g) /\ OffInv'
  BY Zenon, <1>0, Moves DEF Counters
<1>3. TypeOK'
  <2>1. /\ outcome' \in [Reqs -> {"none", "ok", "lost", "timeout", "noconn"}]
        /\ ctxMap' \subseteq Reqs /\ replay' \subseteq Reqs
    BY Zenon, <1>1 DEF Inv, TypeOK
  <2> QED BY Zenon, <1>0, <1>2, <2>1 DEF Inv, TypeOK, Counters
<1>4. SingleFlight' /\ CloserInv' BY Zenon, <1>0, <1>2, GoesOn DEF Inside
<1>5. BoundInv' BY Zenon, <1>0 DEF Inv, BoundInv
<1>6. Dialled BY Zenon, <1>0, NoDial DEF Inv, connVars
<1>7. ResetInv' BY Zenon, <1>0, <1>2, <1>6, OthersStay, ResetKept DEF Inside
<1>8. DropInv'
  <2>0. \A h \in Goroutines \ {g} : pc[h] \notin {"cutoff", "range", "connect", "replay"}
    BY Zenon, <1>0, Alone DEF Reconnecting
  <2>1. ASSUME NEW r \in Reqs, InFlight(r)'
        PROVE  InFlight(r) /\ via'[r] = via[r] /\ (Ahead(r) => Ahead(r)')
    <3>1. InFlight(r) /\ r \notin dropped \ kept BY Zenon, <1>0, <1>1, <2>1 DEF InFlight
    <3>2. Ahead(r) => id[r] <= cutoff BY Zenon, <1>0, <2>0 DEF Ahead
    <3>3. Ahead(r) => r \in replay' BY Zenon, <1>1, <3>1, <3>2 DEF InFlight
    <3> QED BY Zenon, <1>0, <1>2, <3>1, <3>3 DEF Ahead
  <2> QED BY Zenon, <1>0, <1>6, <2>1, DropKept
<1> QED BY Zenon, <1>2, <1>3, <1>4, <1>5, <1>7, <1>8 DEF Inv
LEMMA ConnectAgainStep ==
    ASSUME Inv, NEW g \in Goroutines, ConnectAgain(g)
    PROVE  Inv'
<1>0. /\ UNCHANGED <<queue, old, attempt, reconnecting, cutoff, replay, shuttingDown,
                     lastRequest, id, req, via, ctxMap, outcome, served>>
      /\ pc[g] = "connect" /\ Connects(Moved(g, "replay")) /\ g # Closer
  BY Zenon DEF ConnectAgain, callVars, flightVars, Inv, CloserInv
<1>1. /\ pc' \in [Goroutines -> Counters] /\ pc'[g] = "replay" /\ OnlyMoves(g) /\ OffInv'
      /\ Dialled
  BY Zenon, <1>0, MovesDialling DEF Counters
<1>2. TypeOK' /\ BoundInv'
  <2>1. via \in [Reqs -> 0..conns] /\ conns \in Nat /\ conns' \in Nat /\ conns' >= conns
    BY <1>1 DEF Inv, TypeOK, Dialled
  <2>2. via' \in [Reqs -> 0..conns']
    <3>1. 0..conns \subseteq 0..conns' BY <2>1
    <3> QED BY Zenon, <1>0, <2>1, <3>1
  <2>3. TypeOK' BY Zenon, <1>0, <1>1, <2>2 DEF Inv, TypeOK, Dialled, Counters
  <2>4. BoundInv' BY <1>0, <2>1 DEF Inv, TypeOK, BoundInv
  <2> QED BY Zenon, <2>3, <2>4
<1>3. SingleFlight' /\ CloserInv' BY Zenon, <1>0, <1>1, GoesOn DEF Inside
<1>4. ResetInv' BY Zenon, <1>0, <1>1, OthersStay, ResetKept DEF Inside
<1>5. DropInv'
  <2>0. \A h \in Goroutines \ {g} : pc[h] \notin {"cutoff", "range", "connect", "replay"}
    BY Zenon, <1>0, Alone DEF Reconnecting
  <2>1. \A r \in Reqs : Ahead(r) => Ahead(r)' BY Zenon, <1>0, <1>1, <2>0 DEF Ahead
  <2> QED BY Zenon, <1>0, <1>1, <2>1, DropKept DEF InFlight
<1> QED BY Zenon, <1>1, <1>2, <1>3, <1>4, <1>5 DEF Inv

\* A goroutine that leaves Reconnect lowers the flag, and leaves no request behind.
LEMMA Leaves ==
    ASSUME Inv, NEW g \in Goroutines, Reconnecting(g), g # Closer, OnlyMoves(g),
           pc'[g] \in {"run", "exit", "retry"}, reconnecting' = FALSE, Dialled,
           UNCHANGED <<old, shuttingDown, lastRequest, id, via>>,
           pc[g] \in {"connect", "replay"},
           \A r \in Reqs : InFlight(r)' => InFlight(r) /\ r \notin replay
    PROVE  SingleFlight' /\ CloserInv' /\ ResetInv' /\ DropInv' /\ BoundInv'
<1>1. ~Reconnecting(g)' BY Zenon DEF Reconnecting
<1>2. SingleFlight' BY Zenon, <1>1, OthersStay, Flight DEF Inv, TypeOK
<1>3. CloserInv' BY Zenon, OthersStay, Names DEF Inv, CloserInv
<1>4. ResetInv' /\ \A h \in Goroutines : old'[h] <= conns' BY Zenon, OthersStay, ResetKept DEF Inside
<1>5. BoundInv' BY Zenon, <1>4 DEF Inv, BoundInv
<1>6. DropInv'
  <2>0. \A h \in Goroutines \ {g} : pc[h] \notin {"cutoff", "range", "connect", "replay"}
    BY Zenon, Alone
  <2>1. \A r \in Reqs : r \notin replay => ~Ahead(r) BY Zenon, <2>0 DEF Ahead
  <2> QED BY Zenon, <2>1, DropKept
<1> QED BY Zenon, <1>2, <1>3, <1>4, <1>5, <1>6

LEMMA ConnectGivesUpStep ==
    ASSUME Inv, NEW g \in Goroutines, ConnectGivesUp(g)
    PROVE  Inv'
<1> DEFINE s == IF g \in Loops /\ MaxAttempts # 0 THEN "retry" ELSE Resumed(g)
<1>0. /\ UNCHANGED <<queue, old, attempt, cutoff, shuttingDown, lastRequest, id, req, via,
                     served>>
      /\ pc[g] = "connect" /\ ConnectFails(Moved(g, s)) /\ g # Closer
      /\ replay' = {} /\ reconnecting' = FALSE /\ FailAll(replay)
  BY Zenon DEF ConnectGivesUp, Inv, CloserInv
<1>1. s \in {"run", "exit", "retry"} BY Zenon, Names
<1> HIDE DEF s
<1>2. /\ pc' \in [Goroutines -> Counters] /\ pc'[g] = s /\ OnlyMoves(g) /\ OffInv' /\ Dialled
  BY Zenon, <1>0, <1>1, MovesDialling DEF Counters
<1>3. /\ outcome' \in [Reqs -> {"none", "ok", "lost", "timeout", "noconn"}]
      /\ ctxMap' = ctxMap \ replay
      /\ \A r \in Reqs : outcome'[r] = "none" => outcome[r] = "none"
  BY Zenon, <1>0 DEF FailAll, Inv, TypeOK
<1>4. TypeOK'
  <2>1. via \in [Reqs -> 0..conns] /\ conns \in Nat /\ conns' \in Nat /\ conns' >= conns
    BY <1>2 DEF Inv, TypeOK, Dialled
  <2>2. via' \in [Reqs -> 0..conns']
    <3>1. 0..conns \subseteq 0..conns' BY <2>1
    <3> QED BY Zenon, <1>0, <2>1, <3>1
  <2>3. ctxMap' \subseteq Reqs /\ replay' \subseteq Reqs /\ reconnecting' \in BOOLEAN
    BY Zenon, <1>0, <1>3 DEF Inv, TypeOK
  <2> QED BY Zenon, <1>0, <1>2, <1>3, <2>2, <2>3 DEF Inv, TypeOK, Dialled, Counters
<1>5. \A r \in Reqs : InFlight(r)' => InFlight(r) /\ r \notin replay
  BY Zenon, <1>0, <1>3 DEF InFlight
<1>6. Reconnecting(g) BY Zenon, <1>0 DEF Reconnecting
<1>7. SingleFlight' /\ CloserInv' /\ ResetInv' /\ DropInv' /\ BoundInv'
  BY Zenon, <1>0, <1>1, <1>2, <1>5, <1>6, Leaves
<1> QED BY Zenon, <1>2, <1>4, <1>7 DEF Inv

LEMMA ReconnectedStep ==
    ASSUME Inv, NEW g \in Goroutines, Reconnected(g)
    PROVE  Inv'
<1>0. /\ UNCHANGED <<conns, up, done, cur, queue, old, attempt, cutoff, replay, shuttingDown,
                     lastRequest, id, req, via, ctxMap, outcome, served>>
      /\ pc[g] = "replay" /\ replay = {} /\ reconnecting' = FALSE
      /\ pc' = Moved(g, Resumed(g)) /\ g # Closer /\ Resumed(g) \in {"run", "exit"}
  BY Zenon, Names DEF Reconnected, connVars, callVars, Inv, CloserInv
<1>1. /\ pc' \in [Goroutines -> Counters] /\ pc'[g] = Resumed(g) /\ OnlyMoves(g) /\ OffInv'
  BY Zenon, <1>0, Moves DEF Counters
<1>2. TypeOK'
  <2>1. reconnecting' \in BOOLEAN BY Zenon, <1>0
  <2> QED BY Zenon, <1>0, <1>1, <2>1 DEF Inv, TypeOK, Counters
<1>3. Dialled BY Zenon, <1>0, NoDial DEF Inv, connVars
<1>4. \A r \in Reqs : InFlight(r)' => InFlight(r) /\ r \notin replay BY Zenon, <1>0 DEF InFlight
<1>5. Reconnecting(g) BY Zenon, <1>0 DEF Reconnecting
<1>6. SingleFlight' /\ CloserInv' /\ ResetInv' /\ DropInv' /\ BoundInv'
  BY Zenon, <1>0, <1>1, <1>3, <1>4, <1>5, Leaves
<1> QED BY Zenon, <1>1, <1>2, <1>6 DEF Inv

LEMMA ReplayStep ==
    ASSUME Inv, NEW g \in Goroutines, NEW r \in Reqs, Replay(g, r)
    PROVE  Inv'
<1>0. /\ UNCHANGED <<conns, up, done, cur, pc, old, attempt, reconnecting, cutoff,
                     shuttingDown, lastRequest, id, req, ctxMap, outcome, served>>
      /\ cur # 0 /\ via' = [via EXCEPT ![r] = cur] /\ replay' = replay \ {r}
      /\ queue' = [queue EXCEPT ![cur] = @ \union {r}]
  BY Zenon DEF Replay, connVars
<1>1. TypeOK'
  <2>1. queue' \in [Conns -> SUBSET Reqs] /\ replay' \subseteq Reqs BY Zenon, <1>0 DEF Inv, TypeOK
  <2>2. via' \in [Reqs -> 0..conns'] BY Zenon, <1>0 DEF Inv, TypeOK
  <2> QED BY Zenon, <1>0, <2>1, <2>2 DEF Inv, TypeOK
<1>2. OffInv' /\ CloserInv' /\ BoundInv' BY Zenon, <1>0 DEF Inv, OffInv, CloserInv, BoundInv
<1>3. SingleFlight' BY Zenon, <1>0 DEF Inv, SingleFlight, Reconnecting
<1>4. ResetInv' BY Zenon, <1>0 DEF Inv, ResetInv
<1>5. DropInv'
  <2>1. Dialled BY Zenon, <1>0, NoDial DEF Inv, connVars
  <2>2. via'[r] = cur /\ \A q \in Reqs \ {r} : via'[q] = via[q] BY Zenon, <1>0 DEF Inv, TypeOK
  <2>3. \A q \in Reqs \ {r} : Ahead(q) => Ahead(q)' BY Zenon, <1>0 DEF Ahead
  <2> QED BY Zenon, <1>0, <2>1, <2>2, <2>3, DropKept DEF InFlight
<1> QED BY Zenon, <1>1, <1>2, <1>3, <1>4, <1>5 DEF Inv

LEMMA RetryStep ==
    ASSUME Inv, NEW g \in Goroutines, Retry(g)
    PROVE  Inv'
<1>0. /\ UNCHANGED <<queue, old, reconnecting, cutoff, replay, shuttingDown, lastRequest,
                     id, req, via, ctxMap, outcome, served>>
      /\ pc[g] = "retry" /\ g # Closer /\ Resumed(g) \in {"run", "exit"}
  BY Zenon, Names DEF Retry, callVars, flightVars, Inv, CloserInv
<1>1. attempt' \in [Goroutines -> Nat] BY DEF Retry, Inv, TypeOK
<1>2. /\ pc' \in [Goroutines -> Counters] /\ OffInv' /\ Dialled /\ OnlyMoves(g)
      /\ pc'[g] \in {"run", "exit", "retry"}
  <2>1. CASE pc' = Moved(g, Resumed(g)) /\ UNCHANGED connVars
    <3>1. conns' = conns BY Zenon, <2>1 DEF connVars
    <3> QED BY Zenon, <1>0, <2>1, <3>1, Moves, NoDial DEF Counters, Inv
  <2>2. CASE Connects(Moved(g, Resumed(g))) \/ ConnectFails(Moved(g, Resumed(g)))
    BY Zenon, <1>0, <2>2, MovesDialling DEF Counters
  <2>3. CASE ConnectFails(pc)
    <3>1. pc = Moved(g, "retry") BY Zenon, <1>0 DEF Moved, Inv, TypeOK
    <3> QED BY Zenon, <1>0, <2>3, <3>1, MovesDialling DEF Counters
  <2> QED BY Zenon, <2>1, <2>2, <2>3 DEF Retry
<1>3. TypeOK'
  <2>1. via \in [Reqs -> 0..conns] /\ conns \in Nat /\ conns' \in Nat /\ conns' >= conns
    BY <1>2 DEF Inv, TypeOK, Dialled
  <2>2. via' \in [Reqs -> 0..conns']
    <3>1. 0..conns \subseteq 0..conns' BY <2>1
    <3> QED BY Zenon, <1>0, <2>1, <3>1
  <2> QED BY Zenon, <1>0, <1>1, <1>2, <2>2 DEF Inv, TypeOK, Dialled, Counters
<1>4. Quiet BY Zenon, <1>0, <1>2, OthersStay, Names DEF Quiet, Inside
<1>5. \A r \in Reqs : InFlight(r)' =>
         id'[r] = id[r] /\ \/ InFlight(r) /\ via'[r] = via[r]
                           \/ via'[r] = cur /\ cur # 0
  BY Zenon, <1>0 DEF InFlight
<1>6. \A r \in Reqs : id'[r] <= lastRequest' BY Zenon, <1>0 DEF Inv, BoundInv
<1> QED BY Zenon, <1>0, <1>2, <1>3, <1>4, <1>5, <1>6, QuietStep

LEMMA InvCorrect == Spec => []Inv
<1>1. Inv /\ [Next]_vars => Inv'
  <2> SUFFICES ASSUME Inv, [Next]_vars PROVE Inv' BY Zenon
  <2>1. CASE UNCHANGED vars
    <3>1. UNCHANGED <<conns, up, done, cur, queue, pc, old, attempt, reconnecting, cutoff,
                      replay, shuttingDown, lastRequest, id, req, via, ctxMap, outcome, served>>
      BY Zenon, <2>1 DEF vars, connVars, flightVars, callVars
    <3>2. TypeOK' /\ OffInv' /\ CloserInv' /\ BoundInv' /\ ResetInv'
      BY Zenon, <3>1 DEF Inv, TypeOK, OffInv, CloserInv, BoundInv, ResetInv
    <3>3. SingleFlight' BY Zenon, <3>1 DEF Inv, SingleFlight, Reconnecting
    <3>4. DropInv' BY Zenon, <3>1 DEF Inv, DropInv, InFlight, Ahead
    <3> QED BY Zenon, <3>2, <3>3, <3>4 DEF Inv
  <2>2. CASE Next
    BY Zenon, <2>2, CallerStep, LoopStep, CloseStep, ReconnectStep, ResetLoadStep,
       ResetStoreStep, ResetCloseStep, CutoffStep, RangeStep, ConnectAgainStep,
       ConnectGivesUpStep, ReplayStep, ReconnectedStep, RetryStep
    DEF Next, GoroutineStep
  <2> QED BY Zenon, <2>1, <2>2
<1> QED BY InitInv, <1>1, PTL DEF Spec

-----------------------------------------------------------------------------
(* The theorems *)

\* At most one goroutine is inside Reconnect, and the flag is up exactly while one is.
THEOREM SingleFlightCorrect == Spec => []SingleFlight
<1>1. Inv => SingleFlight BY Zenon DEF Inv
<1> QED BY InvCorrect, <1>1, PTL

\* When no Reconnect is at work and Close was not called, no registered request
\* waits on a connection that was replaced.
THEOREM DropDisposedCorrect == Spec => []DropDisposed
<1>1. Inv => DropDisposed
  <2> SUFFICES ASSUME Inv, ~reconnecting, ~shuttingDown, NEW r \in ctxMap, req[r] = "wait",
                      outcome[r] = "none", via[r] \in done
               PROVE  FALSE
    BY Zenon DEF DropDisposed
  <2>1. r \in Reqs /\ InFlight(r) BY Zenon DEF Inv, TypeOK, InFlight
  <2>2. Ahead(r) BY Zenon, <2>1 DEF Inv, DropInv
  <2>3. \A g \in Goroutines : ~Reconnecting(g) BY Zenon DEF Inv, SingleFlight
  <2> QED BY Zenon, <2>2, <2>3 DEF Ahead, Reconnecting
<1> QED BY InvCorrect, <1>1, PTL
=============================================================================

---------------------------- MODULE StreamProofs ----------------------------
(***************************************************************************)
(* Stream for every kind of call, window and capacity.                     *)
(*                                                                         *)
(* Types come first, then the control part of the inductive invariant (who *)
(* may have sent or started what), then order: what a receiver holds, from *)
(* the application's channel back to the pump's queue, and the data frames *)
(* on their way to it carry consecutive numbers.  Order needs no induction *)
(* over sequences because Carries speaks of each position of the FIFO.     *)
(***************************************************************************)
EXTENDS Stream, TLAPS

-----------------------------------------------------------------------------
(* Gate and pump: what the operators of FlowControl return *)

\* Half a window, at least one value (grantRecv, grantInbound).
LEMMA BatchPositive ==
    ASSUME NEW w \in Nat PROVE CreditBatch(w) \in Nat /\ CreditBatch(w) >= 1
BY DEF CreditBatch

\* Every operation of a CreditGate leaves a gate with a credit that is not
\* negative, as the methods of valuerpc/credit.go must.
LEMMA GateTypes ==
    ASSUME NEW g \in Gate
    PROVE  /\ AcquireGranted(g) => Acquire(g) \in Gate
           /\ \A n \in Nat : Grant(g, n) \in Gate
           /\ CloseGate(g) \in Gate
<1>1. g.credit \in Nat /\ g.closed \in BOOLEAN
    BY DEF Gate
<1>2. ASSUME AcquireGranted(g) PROVE Acquire(g) \in Gate
  <2>1. g.credit - 1 \in Nat
      BY <1>1, <1>2 DEF AcquireGranted
  <2> QED BY <2>1 DEF Gate, Acquire
<1>3. ASSUME NEW n \in Nat PROVE Grant(g, n) \in Gate
  <2>1. g.credit + n \in Nat
      BY <1>1
  <2> QED BY <2>1 DEF Gate, Grant
<1>4. CloseGate(g) \in Gate
    BY Zenon DEF Gate, CloseGate
<1> QED BY <1>2, <1>3, <1>4

\* Every operation of a StreamPump (valuerpc/pump.go) leaves a pump.
LEMMA PumpTypes ==
    ASSUME NEW p \in Pump
    PROVE  /\ \A m \in Nat, v \in Int : Push(p, m, v) \in Pump
           /\ ClosePump(p) \in Pump /\ StopPump(p) \in Pump
           /\ PumpMayPop(p) => PumpPop(p) \in Pump
           /\ PumpExit(p) \in Pump /\ PumpSent(p) \in Pump
           /\ PumpAcked(p) \in Pump
<1>1. ASSUME NEW m \in Nat, NEW v \in Int PROVE Push(p, m, v) \in Pump
  <2>1. Append(p.queue, v) \in Seq(Int)
      BY DEF Pump
  <2>2. [p EXCEPT !.queue = Append(@, v)] \in Pump
      BY Zenon, <2>1 DEF Pump
  <2>3. [p EXCEPT !.overflow = TRUE, !.inputEnd = TRUE] \in Pump
      BY Zenon DEF Pump
  <2> QED BY <2>2, <2>3 DEF Push
<1>2. ClosePump(p) \in Pump
    BY Zenon DEF Pump, ClosePump
<1>3. StopPump(p) \in Pump
    BY Zenon DEF Pump, StopPump
<1>4. ASSUME PumpMayPop(p) PROVE PumpPop(p) \in Pump
  <2>1. Tail(p.queue) \in Seq(Int) /\ <<Head(p.queue)>> \in Seq(Int)
      BY <1>4 DEF PumpMayPop, Pump
  <2> QED BY Zenon, <2>1 DEF Pump, PumpPop
<1>5. << >> \in Seq(Int)
    OBVIOUS
<1>6. PumpExit(p) \in Pump
    BY Zenon, <1>5 DEF Pump, PumpExit
<1>7. PumpSent(p) \in Pump
    BY Zenon, <1>5 DEF Pump, PumpSent
<1>8. PumpAcked(p) \in Pump
    BY Zenon DEF Pump, PumpAcked
<1> QED BY <1>1, <1>2, <1>3, <1>4, <1>6, <1>7, <1>8

-----------------------------------------------------------------------------
(* Numbered values: s continues n without a gap. *)

Continues(s, n) == \A i \in 1..Len(s) : s[i] = n + i

\* An empty channel or queue has no gap.
LEMMA ContinuesEmpty == ASSUME NEW n \in Int PROVE Continues(<< >>, n)
BY DEF Continues

\* The next number is added at the end (Push, or a delivery into the channel).
LEMMA ContinuesAppend ==
    ASSUME NEW s \in Seq(Int), NEW n \in Int, Continues(s, n),
           NEW v \in Int, v = n + Len(s) + 1
    PROVE  Continues(Append(s, v), n)
<1>1. /\ Len(Append(s, v)) = Len(s) + 1
      /\ \A i \in 1..Len(s) : Append(s, v)[i] = s[i]
      /\ Append(s, v)[Len(s) + 1] = v
    OBVIOUS
<1>2. \A i \in 1..(Len(s) + 1) : i \in 1..Len(s) \/ i = Len(s) + 1
    OBVIOUS
<1> QED BY <1>1, <1>2 DEF Continues

\* The oldest number is taken (a pop, or a read of the channel).
LEMMA ContinuesTail ==
    ASSUME NEW s \in Seq(Int), NEW n \in Int, Continues(s, n), s # << >>
    PROVE  /\ Head(s) = n + 1 /\ Len(Tail(s)) = Len(s) - 1
           /\ Tail(s) \in Seq(Int) /\ Continues(Tail(s), n + 1)
<1>1. Head(s) = s[1] /\ Len(s) >= 1 /\ Len(Tail(s)) = Len(s) - 1
      /\ Tail(s) \in Seq(Int)
    OBVIOUS
<1>2. \A i \in 1..Len(Tail(s)) : Tail(s)[i] = s[i + 1] /\ i + 1 \in 1..Len(s)
    BY <1>1
<1>3. \A i \in 1..Len(Tail(s)) : Tail(s)[i] = n + 1 + i
    BY <1>2 DEF Continues
<1> QED BY <1>1, <1>3 DEF Continues

\* Two runs of numbers, the second continuing the first, are one.
LEMMA ContinuesConcat ==
    ASSUME NEW s \in Seq(Int), NEW t \in Seq(Int), NEW n \in Int,
           Continues(s, n), Continues(t, n + Len(s))
    PROVE  Continues(s \o t, n)
<1> SUFFICES ASSUME NEW i \in 1..Len(s \o t) PROVE (s \o t)[i] = n + i
    BY DEF Continues
<1>1. CASE i \in 1..Len(s)
    BY <1>1 DEF Continues
<1>2. CASE i - Len(s) \in 1..Len(t)
  <2>1. (s \o t)[i] = t[i - Len(s)] /\ t[i - Len(s)] = n + Len(s) + (i - Len(s))
      BY <1>2 DEF Continues
  <2>2. Len(s) \in Int /\ i \in Int
      OBVIOUS
  <2> QED BY <2>1, <2>2
<1>3. i \in 1..Len(s) \/ i - Len(s) \in 1..Len(t)
    OBVIOUS
<1> QED BY <1>1, <1>2, <1>3

\* The values in the goroutine's hand.
Held(p) == IF p.hand = << >> THEN 0 ELSE 1

\* What the receiver holds, from the channel c back to the pump's queue,
\* continues the number g the application took last; the goroutine has at most
\* one value in its hand, and leaves nothing behind unless it is stopped.
Ordered(g, c, p) ==
    /\ p.hand # << >> => /\ p.hand = <<g + Len(c) + 1>>
                         /\ ~p.acking /\ ~p.exited
    /\ p.exited => p.stopped \/ (p.inputEnd /\ p.queue = << >>)
    /\ Continues(c, g)
    /\ ~p.exited => Continues(p.queue, g + Len(c) + Held(p))

\* The number of the last value pushed.
Last(g, c, p) == g + Len(c) + Held(p) + Len(p.queue)

Accepts(p) == ~p.inputEnd /\ ~p.stopped

\* The pump's flags are raised by its owner and by an overflowing Push, and never
\* lowered; its goroutine leaves them alone.
LEMMA PumpFlags ==
    ASSUME NEW p \in Pump
    PROVE  /\ \A q \in {PumpPop(p), PumpSent(p), PumpAcked(p), PumpExit(p)} :
                 /\ q.stopped = p.stopped /\ q.inputEnd = p.inputEnd
                 /\ q.overflow = p.overflow
           /\ ClosePump(p).inputEnd /\ ClosePump(p).stopped = p.stopped
           /\ ClosePump(p).overflow = p.overflow
           /\ StopPump(p).stopped /\ StopPump(p).inputEnd = p.inputEnd
           /\ StopPump(p).overflow = p.overflow
           /\ \A m \in Nat, v \in Int :
                 LET q == Push(p, m, v)
                 IN  /\ q.stopped = p.stopped
                     /\ PushAccepted(p, m) \/ p.inputEnd \/ p.stopped
                          => q.inputEnd = p.inputEnd /\ q.overflow = p.overflow
<1>1. /\ \A q \in {PumpPop(p), PumpSent(p), PumpAcked(p), PumpExit(p)} :
            /\ q.stopped = p.stopped /\ q.inputEnd = p.inputEnd
            /\ q.overflow = p.overflow
      /\ ClosePump(p).inputEnd /\ ClosePump(p).stopped = p.stopped
      /\ ClosePump(p).overflow = p.overflow
      /\ StopPump(p).stopped /\ StopPump(p).inputEnd = p.inputEnd
      /\ StopPump(p).overflow = p.overflow
    BY DEF Pump, PumpPop, PumpSent, PumpAcked, PumpExit, ClosePump, StopPump
<1>2. ASSUME NEW m \in Nat, NEW v \in Int
      PROVE  LET q == Push(p, m, v)
             IN  /\ q.stopped = p.stopped
                 /\ PushAccepted(p, m) \/ p.inputEnd \/ p.stopped
                      => q.inputEnd = p.inputEnd /\ q.overflow = p.overflow
  <2>1. p.queue \in Seq(Int)
      BY DEF Pump
  <2>2. CASE p.inputEnd \/ p.stopped
      BY Zenon, <2>2 DEF Push
  <2>3. CASE ~p.inputEnd /\ ~p.stopped /\ Len(p.queue) >= m
    <3>1. ~PushAccepted(p, m)
        BY <2>1, <2>3 DEF PushAccepted
    <3>2. Push(p, m, v).stopped = p.stopped
        BY <2>3 DEF Pump, Push
    <3> QED BY <2>3, <3>1, <3>2
  <2>4. CASE ~p.inputEnd /\ ~p.stopped /\ ~(Len(p.queue) >= m)
      BY <2>4 DEF Pump, Push
  <2> QED BY <2>2, <2>3, <2>4
<1> QED BY <1>1, <1>2

\* The deliveries the goroutine has not counted yet.
Hooked(p) == IF p.acking THEN 1 ELSE 0

\* Only the pump's goroutine enters and leaves its onDeliver hook.
LEMMA PumpHook ==
    ASSUME NEW p \in Pump
    PROVE  /\ \A q \in {PumpPop(p), PumpExit(p), ClosePump(p), StopPump(p)} :
                 Hooked(q) = Hooked(p)
           /\ \A m, v : Hooked(Push(p, m, v)) = Hooked(p)
           /\ Hooked(PumpSent(p)) = 1 /\ Hooked(PumpAcked(p)) = 0
<1>1. \A q \in {PumpPop(p), PumpExit(p), ClosePump(p), StopPump(p)} :
          q.acking = p.acking
    BY Zenon DEF Pump, PumpPop, PumpExit, ClosePump, StopPump
<1>2. ASSUME NEW m, NEW v PROVE Push(p, m, v).acking = p.acking
    BY DEF Pump, Push
<1>3. PumpSent(p).acking /\ ~PumpAcked(p).acking
    BY DEF Pump, PumpSent, PumpAcked
<1> QED BY Zenon, <1>1, <1>2, <1>3 DEF Hooked

\* Push keeps the order of a value that continues the last one, and has no
\* effect on what is held when it refuses the value.
LEMMA PushOrdered ==
    ASSUME NEW g \in Int, NEW c \in Seq(Int), NEW p \in Pump, NEW m \in Nat,
           NEW v \in Int, Ordered(g, c, p),
           Accepts(p) => v = Last(g, c, p) + 1
    PROVE  /\ Ordered(g, c, Push(p, m, v))
           /\ Accepts(Push(p, m, v)) => PushAccepted(p, m)
           /\ PushAccepted(p, m) => Accepts(p) /\ Last(g, c, Push(p, m, v)) = v
           /\ ~PushAccepted(p, m) => Last(g, c, Push(p, m, v)) = Last(g, c, p)
<1>1. p.queue \in Seq(Int) /\ p.hand \in Seq(Int)
    BY DEF Pump
<1>2. CASE p.inputEnd \/ p.stopped
    BY <1>2 DEF Push, Accepts, PushAccepted
<1>3. CASE Accepts(p) /\ Len(p.queue) >= m
  <2> DEFINE q == [p EXCEPT !.overflow = TRUE, !.inputEnd = TRUE]
  <2>1. Push(p, m, v) = q
      BY <1>3 DEF Push, Accepts
  <2>2. /\ q.hand = p.hand /\ q.queue = p.queue /\ q.acking = p.acking
        /\ q.exited = p.exited /\ q.stopped = p.stopped /\ q.inputEnd = TRUE
      BY DEF Pump
  <2>3. Ordered(g, c, q)
      BY <2>2 DEF Ordered, Held
  <2>4. ~PushAccepted(p, m)
      BY <1>1, <1>3 DEF PushAccepted
  <2>5. Last(g, c, q) = Last(g, c, p)
      BY <2>2 DEF Last, Held
  <2> HIDE DEF q
  <2> QED BY <2>1, <2>2, <2>3, <2>4, <2>5 DEF Accepts
<1>4. CASE Accepts(p) /\ Len(p.queue) < m
  <2> DEFINE q == [p EXCEPT !.queue = Append(@, v)]
  <2>1. Push(p, m, v) = q
      BY <1>1, <1>4 DEF Push, Accepts
  <2>2. /\ q.hand = p.hand /\ q.queue = Append(p.queue, v) /\ q.acking = p.acking
        /\ q.exited = p.exited /\ q.stopped = p.stopped /\ q.inputEnd = p.inputEnd
      BY DEF Pump
  <2>3. ~p.exited
      BY <1>4 DEF Accepts, Ordered
  <2>4. v = g + Len(c) + Held(p) + Len(p.queue) + 1 /\ Held(p) \in Int
      BY <1>4 DEF Last, Held
  <2>5. Continues(p.queue, g + Len(c) + Held(p)) /\ Held(q) = Held(p)
      BY <2>2, <2>3 DEF Ordered, Held
  <2>6. Continues(q.queue, g + Len(c) + Held(p))
      BY <1>1, <2>2, <2>4, <2>5, ContinuesAppend
  <2>7. Ordered(g, c, q)
      BY <2>2, <2>3, <2>5, <2>6 DEF Ordered
  <2>8. Last(g, c, q) = v
      BY <1>1, <2>2, <2>4, <2>5 DEF Last
  <2> HIDE DEF q
  <2> QED BY <1>4, <2>1, <2>7, <2>8 DEF PushAccepted, Accepts
<1> QED BY <1>1, <1>2, <1>3, <1>4 DEF Accepts

\* Close and Stop leave what is held alone.
LEMMA CloseOrdered ==
    ASSUME NEW g \in Int, NEW c \in Seq(Int), NEW p \in Pump, Ordered(g, c, p)
    PROVE  /\ Ordered(g, c, ClosePump(p)) /\ ~Accepts(ClosePump(p))
           /\ Last(g, c, ClosePump(p)) = Last(g, c, p)
           /\ Ordered(g, c, StopPump(p)) /\ ~Accepts(StopPump(p))
           /\ Last(g, c, StopPump(p)) = Last(g, c, p)
<1>1. LET q == ClosePump(p)
      IN  /\ q.hand = p.hand /\ q.queue = p.queue /\ q.acking = p.acking
          /\ q.exited = p.exited /\ q.stopped = p.stopped /\ q.inputEnd = TRUE
    BY DEF Pump, ClosePump
<1>2. LET q == StopPump(p)
      IN  /\ q.hand = p.hand /\ q.queue = p.queue /\ q.acking = p.acking
          /\ q.exited = p.exited /\ q.stopped = TRUE /\ q.inputEnd = p.inputEnd
    BY DEF Pump, StopPump
<1>3. Ordered(g, c, ClosePump(p)) /\ ~Accepts(ClosePump(p))
    BY <1>1 DEF Ordered, Accepts, Held
<1>4. Ordered(g, c, StopPump(p)) /\ ~Accepts(StopPump(p))
    BY <1>2 DEF Ordered, Accepts, Held
<1>5. Last(g, c, ClosePump(p)) = Last(g, c, p) /\ Last(g, c, StopPump(p)) = Last(g, c, p)
    BY <1>1, <1>2 DEF Last, Held
<1> QED BY <1>3, <1>4, <1>5

\* The pump's goroutine moves values on without reordering them: it pops one,
LEMMA PopOrdered ==
    ASSUME NEW g \in Int, NEW c \in Seq(Int), NEW p \in Pump, Ordered(g, c, p),
           PumpMayPop(p)
    PROVE  /\ Ordered(g, c, PumpPop(p)) /\ Last(g, c, PumpPop(p)) = Last(g, c, p)
           /\ Accepts(PumpPop(p)) = Accepts(p)
<1> DEFINE q == PumpPop(p)
<1>1. /\ p.queue \in Seq(Int) /\ p.queue # << >> /\ p.hand = << >>
      /\ ~p.exited /\ ~p.acking
    BY DEF PumpMayPop, PumpIdle, Pump
<1>2. /\ q.hand = <<Head(p.queue)>> /\ q.queue = Tail(p.queue)
      /\ q.acking = p.acking /\ q.exited = p.exited /\ q.stopped = p.stopped
      /\ q.inputEnd = p.inputEnd
    BY DEF Pump, PumpPop
<1>3. Continues(p.queue, g + Len(c)) /\ Held(p) = 0 /\ Held(q) = 1
    BY <1>1, <1>2 DEF Ordered, Held
<1>4. /\ Head(p.queue) = g + Len(c) + 1 /\ Len(Tail(p.queue)) = Len(p.queue) - 1
      /\ Continues(Tail(p.queue), g + Len(c) + 1)
    BY <1>1, <1>3, ContinuesTail
<1> HIDE DEF q
<1>5. Ordered(g, c, q)
    BY <1>1, <1>2, <1>3, <1>4 DEF Ordered
<1>6. Last(g, c, q) = Last(g, c, p)
  <2> DEFINE n == Len(c)  a == Len(p.queue)  b == Len(q.queue)
  <2>1. n \in Int /\ a \in Int /\ b = a - 1
      BY <1>1, <1>2, <1>4
  <2> HIDE DEF n, a, b
  <2>2. g + n + Held(q) + b = g + n + Held(p) + a
      BY <1>3, <2>1
  <2> QED BY <2>2 DEF Last, n, a, b
<1> QED BY <1>2, <1>5, <1>6 DEF Accepts, q

\* puts it into the channel,
LEMMA DeliverOrdered ==
    ASSUME NEW g \in Int, NEW c \in Seq(Int), NEW p \in Pump, Ordered(g, c, p),
           p.hand # << >>
    PROVE  LET e == Append(c, Head(p.hand))
           IN  /\ Ordered(g, e, PumpSent(p)) /\ Last(g, e, PumpSent(p)) = Last(g, c, p)
               /\ Accepts(PumpSent(p)) = Accepts(p)
               /\ Len(e) = Len(c) + 1 /\ ~p.acking
<1> DEFINE e == Append(c, Head(p.hand))
           q == PumpSent(p)
<1>1. /\ p.queue \in Seq(Int) /\ Held(p) = 1
      /\ Head(p.hand) = g + Len(c) + 1 /\ ~p.exited /\ ~p.acking
    BY DEF Ordered, Pump, Held
<1>2. /\ q.hand = << >> /\ q.queue = p.queue /\ q.exited = p.exited
      /\ q.stopped = p.stopped /\ q.inputEnd = p.inputEnd /\ Held(q) = 0
    BY DEF Pump, PumpSent, Held
<1>3. Continues(c, g) /\ Continues(p.queue, g + Len(c) + 1)
    BY <1>1 DEF Ordered
<1>4. Continues(e, g) /\ Len(e) = Len(c) + 1 /\ e \in Seq(Int)
    BY <1>1, <1>3, ContinuesAppend
<1>5. g + Len(e) + Held(q) = g + Len(c) + 1
    BY <1>2, <1>4
<1> HIDE DEF q, e
<1>6. Ordered(g, e, q)
    BY <1>1, <1>2, <1>3, <1>4, <1>5 DEF Ordered
<1>7. Last(g, e, q) = Last(g, c, p)
  <2> DEFINE n == Len(c)  m == Len(e)  a == Len(p.queue)  b == Len(q.queue)
  <2>1. n \in Int /\ m = n + 1 /\ a \in Int /\ b = a
      BY <1>1, <1>2, <1>4
  <2> HIDE DEF n, m, a, b
  <2>2. g + m + Held(q) + b = g + n + Held(p) + a
      BY <1>1, <1>2, <2>1
  <2> QED BY <2>2 DEF Last, n, m, a, b
<1> QED BY <1>1, <1>2, <1>4, <1>6, <1>7 DEF Accepts, q, e

\* counts the delivery,
LEMMA AckOrdered ==
    ASSUME NEW g \in Int, NEW c \in Seq(Int), NEW p \in Pump, Ordered(g, c, p)
    PROVE  /\ Ordered(g, c, PumpAcked(p)) /\ Last(g, c, PumpAcked(p)) = Last(g, c, p)
           /\ Accepts(PumpAcked(p)) = Accepts(p)
<1> DEFINE q == PumpAcked(p)
<1>1. /\ q.hand = p.hand /\ q.queue = p.queue /\ q.acking = FALSE
      /\ q.exited = p.exited /\ q.stopped = p.stopped /\ q.inputEnd = p.inputEnd
    BY DEF Pump, PumpAcked
<1>2. Ordered(g, c, q)
    BY <1>1 DEF Ordered, Held
<1>3. Last(g, c, q) = Last(g, c, p)
    BY <1>1 DEF Last, Held
<1> QED BY <1>1, <1>2, <1>3 DEF Accepts

\* and, once it has closed the channel, accepts nothing more.
LEMMA ExitOrdered ==
    ASSUME NEW g \in Int, NEW c \in Seq(Int), NEW p \in Pump, Ordered(g, c, p),
           PumpMayExit(p)
    PROVE  /\ Ordered(g, c, PumpExit(p)) /\ ~Accepts(PumpExit(p))
           /\ PumpExit(p).acking = p.acking
           /\ Last(g, c, PumpExit(p)) <= Last(g, c, p)
           /\ ~p.stopped => Last(g, c, PumpExit(p)) = Last(g, c, p)
<1> DEFINE q == PumpExit(p)
<1>1. /\ q.hand = << >> /\ q.exited = TRUE /\ q.acking = p.acking
      /\ q.stopped = p.stopped /\ q.inputEnd = p.inputEnd /\ q.queue = p.queue
    BY DEF Pump, PumpExit
<1>2. p.stopped \/ (p.inputEnd /\ p.queue = << >> /\ p.hand = << >>)
    BY DEF PumpMayExit, PumpIdle
<1>3. Continues(c, g)
    BY DEF Ordered
<1> HIDE DEF q
<1>4. Ordered(g, c, q)
    BY <1>1, <1>2, <1>3 DEF Ordered
<1>5. Held(q) = 0 /\ Held(p) \in {0, 1} /\ (~p.stopped => Held(p) = 0)
    BY <1>1, <1>2 DEF Held
<1>6. Last(g, c, q) <= Last(g, c, p) /\ (~p.stopped => Last(g, c, q) = Last(g, c, p))
  <2> DEFINE n == Len(c)  a == Len(p.queue)
  <2>1. n \in Int /\ a \in Int /\ Len(q.queue) = a
      BY <1>1 DEF Pump
  <2> HIDE DEF n, a
  <2>2. /\ g + n + Held(q) + a <= g + n + Held(p) + a
        /\ ~p.stopped => g + n + Held(q) + a = g + n + Held(p) + a
      BY <1>5, <2>1
  <2> QED BY <2>1, <2>2 DEF Last, n, a
<1> QED BY <1>1, <1>2, <1>4, <1>6 DEF Accepts, q

\* The application takes the next number.
LEMMA TakeOrdered ==
    ASSUME NEW g \in Int, NEW c \in Seq(Int), NEW p \in Pump, Ordered(g, c, p),
           c # << >>
    PROVE  /\ Head(c) = g + 1 /\ Len(Tail(c)) = Len(c) - 1
           /\ Ordered(Head(c), Tail(c), p)
           /\ Last(Head(c), Tail(c), p) = Last(g, c, p)
<1>1. /\ Head(c) = g + 1 /\ Len(Tail(c)) = Len(c) - 1 /\ Continues(Tail(c), g + 1)
    BY ContinuesTail DEF Ordered
<1>2. p.queue \in Seq(Int) /\ Len(c) \in Nat
    BY DEF Pump
<1>3. Head(c) + Len(Tail(c)) = g + Len(c)
    BY <1>1, <1>2
<1>4. Ordered(Head(c), Tail(c), p)
    BY <1>1, <1>3 DEF Ordered
<1>5. Last(Head(c), Tail(c), p) = Last(g, c, p)
    BY <1>2, <1>3 DEF Last
<1> QED BY <1>1, <1>4, <1>5

-----------------------------------------------------------------------------
(* The numbers on a FIFO of frames.  They are stated position by position,   *)
(* so that sending and receiving need no induction.                          *)

DataTypes == {"StreamReady", "StreamValue"}

\* The frames under way on w.
Under(w) == {w[i] : i \in 1..Len(w)}

\* The positions of the data frames on w.
Data(w) == {i \in 1..Len(w) : w[i].type \in DataTypes}

\* The data frames on w carry the numbers after lo, up to hi, each once and in
\* order, the number 0 in StreamReady; a StreamEnd comes after all of them and
\* carries no number, or the one that comes next.
Carries(w, lo, hi) ==
    /\ lo >= -1 /\ lo <= hi
    /\ \A i \in Data(w) : /\ lo < w[i].n /\ w[i].n <= hi
                          /\ w[i].type = "StreamReady" <=> w[i].n = 0
    /\ \A i, j \in Data(w) : i < j => w[i].n < w[j].n
    /\ \A k \in (lo + 1)..hi : \E i \in Data(w) : w[i].n = k
    /\ \A i \in 1..Len(w) : w[i].type = "StreamEnd" =>
          w[i].n \in {0, hi + 1} /\ \A j \in Data(w) : j < i

\* An empty connection carries no numbers.
LEMMA CarriesNothing == ASSUME NEW n \in Int, n >= -1 PROVE Carries(<< >>, n, n)
BY DEF Carries, Data

\* A frame under way carries a number.
LEMMA FrameNumber ==
    ASSUME NEW w \in Seq(Frames), NEW i \in 1..Len(w)
    PROVE  w[i] \in Frames /\ w[i].n \in Int
<1>1. w[i] \in Frames
    OBVIOUS
<1>2. \A f \in Frames : f.n \in Int
    BY DEF Frames
<1> QED BY <1>1, <1>2

\* The data frames on w after one more frame was sent.
LEMMA DataAppend ==
    ASSUME NEW w \in Seq(Frames), NEW f \in Frames
    PROVE  /\ Len(Append(w, f)) = Len(w) + 1 /\ Append(w, f)[Len(w) + 1] = f
           /\ \A i \in 1..Len(w) : Append(w, f)[i] = w[i]
           /\ Data(Append(w, f)) =
                 Data(w) \cup (IF f.type \in DataTypes THEN {Len(w) + 1} ELSE {})
           /\ Data(w) \subseteq 1..Len(w) /\ Len(w) \in Nat
<1> DEFINE v == Append(w, f)
<1>1. /\ Len(w) \in Nat /\ Len(v) = Len(w) + 1 /\ v[Len(w) + 1] = f
      /\ \A i \in 1..Len(w) : v[i] = w[i]
    OBVIOUS
<1> HIDE DEF v
<1>2. \A i : i \in 1..Len(v) <=> i \in 1..Len(w) \/ i = Len(w) + 1
    BY <1>1
<1>3. Data(v) = Data(w) \cup (IF f.type \in DataTypes THEN {Len(w) + 1} ELSE {})
    BY <1>1, <1>2 DEF Data
<1> QED BY <1>1, <1>3 DEF v, Data

\* A data frame that carries the next number is sent.
LEMMA CarriesData ==
    ASSUME NEW w \in Seq(Frames), NEW f \in Frames, NEW lo \in Int, NEW hi \in Int,
           Carries(w, lo, hi), f.type \in DataTypes, f.n = hi + 1,
           f.type = "StreamReady" <=> f.n = 0, \A g \in Under(w) : g.type # "StreamEnd"
    PROVE  Carries(Append(w, f), lo, hi + 1)
<1> DEFINE v == Append(w, f)
<1>1. /\ Len(v) = Len(w) + 1 /\ v[Len(w) + 1] = f /\ \A i \in 1..Len(w) : v[i] = w[i]
      /\ Data(v) = Data(w) \cup {Len(w) + 1}
      /\ Data(w) \subseteq 1..Len(w) /\ Len(w) \in Nat
    BY DataAppend
<1> HIDE DEF v
<1>2. \A i \in Data(v) : i \in Data(w) \/ i = Len(w) + 1
    BY <1>1
<1>3. \A i \in Data(w) : i < Len(w) + 1 /\ v[i] = w[i] /\ w[i].n \in Int
    BY <1>1, FrameNumber
<1>4. \A i \in Data(v) : /\ lo < v[i].n /\ v[i].n <= hi + 1
                         /\ v[i].type = "StreamReady" <=> v[i].n = 0
    BY <1>1, <1>2, <1>3 DEF Carries
<1>5. ASSUME NEW i \in Data(v), NEW j \in Data(v), i < j PROVE v[i].n < v[j].n
  <2>1. i \in Data(w)
      BY <1>1, <1>2, <1>3, <1>5
  <2>2. CASE j \in Data(w)
      BY <1>3, <1>5, <2>1, <2>2 DEF Carries
  <2>3. CASE j = Len(w) + 1
      BY <1>1, <1>3, <2>1, <2>3 DEF Carries
  <2> QED BY <1>2, <2>2, <2>3
<1>6. \A k \in (lo + 1)..(hi + 1) : \E i \in Data(v) : v[i].n = k
  <2> TAKE k \in (lo + 1)..(hi + 1)
  <2>1. CASE k = hi + 1
      BY <1>1, <2>1
  <2>2. CASE k \in (lo + 1)..hi
      BY <1>1, <1>3, <2>2 DEF Carries
  <2> QED BY <2>1, <2>2
<1>7. \A i \in 1..Len(v) : v[i].type # "StreamEnd"
    BY <1>1 DEF Under, DataTypes
<1>8. lo >= -1 /\ lo <= hi + 1
    BY DEF Carries
<1>9. Carries(v, lo, hi + 1)
    BY <1>4, <1>5, <1>6, <1>7, <1>8 DEF Carries
<1> QED BY <1>9 DEF v

\* Any other frame is sent.
LEMMA CarriesOther ==
    ASSUME NEW w \in Seq(Frames), NEW f \in Frames, NEW lo \in Int, NEW hi \in Int,
           Carries(w, lo, hi), f.type \notin DataTypes,
           f.type = "StreamEnd" => f.n \in {0, hi + 1}
    PROVE  Carries(Append(w, f), lo, hi)
<1> DEFINE v == Append(w, f)
<1>1. /\ Len(v) = Len(w) + 1 /\ v[Len(w) + 1] = f /\ \A i \in 1..Len(w) : v[i] = w[i]
      /\ Data(v) = Data(w) /\ Data(w) \subseteq 1..Len(w) /\ Len(w) \in Nat
    BY Zenon, DataAppend
<1> HIDE DEF v
<1>2. \A i \in Data(w) : i < Len(w) + 1 /\ v[i] = w[i]
    BY <1>1
<1>3. \A i \in 1..Len(v) : i \in 1..Len(w) \/ i = Len(w) + 1
    BY <1>1
<1>4. \A i \in 1..Len(v) : v[i].type = "StreamEnd" =>
          v[i].n \in {0, hi + 1} /\ \A j \in Data(v) : j < i
    BY <1>1, <1>2, <1>3 DEF Carries
<1>5. Carries(v, lo, hi)
    BY Zenon, <1>1, <1>2, <1>4 DEF Carries
<1> QED BY <1>5 DEF v

\* The first frame is received: a data frame carries the next number.
LEMMA CarriesTail ==
    ASSUME NEW w \in Seq(Frames), NEW lo \in Int, NEW hi \in Int,
           Carries(w, lo, hi), w # << >>
    PROVE  /\ Head(w).type \in DataTypes =>
                 Head(w).n = lo + 1 /\ lo + 1 <= hi /\ Carries(Tail(w), lo + 1, hi)
           /\ Head(w).type \notin DataTypes => Carries(Tail(w), lo, hi)
           /\ Head(w).type = "StreamEnd" => lo = hi /\ Head(w).n \in {0, lo + 1}
           /\ Head(w).type = "StreamReady" => Head(w).n = 0
<1> DEFINE v == Tail(w)
<1>1. /\ Len(w) \in Nat /\ Len(w) >= 1 /\ Len(v) = Len(w) - 1 /\ Head(w) = w[1]
      /\ \A i \in 1..Len(v) : v[i] = w[i + 1]
    OBVIOUS
<1> \A i \in 1..Len(w) : w[i].n \in Int
    BY FrameNumber
<1> HIDE DEF v
<1>2. /\ \A i \in Data(v) : i + 1 \in Data(w) /\ v[i] = w[i + 1] /\ i \in 1..Len(v)
      /\ \A i \in Data(w) : i \in 1..Len(w) /\ (i # 1 => i - 1 \in Data(v) /\ w[i] = v[i - 1])
    BY <1>1 DEF Data
<1>3. 1 \in Data(w) <=> Head(w).type \in DataTypes
    BY <1>1 DEF Data
<1>4. ASSUME NEW m \in Int, m \in {lo, lo + 1}, m <= hi,
             \A i \in Data(v) : m < v[i].n,
             \A k \in (m + 1)..hi : \E i \in Data(v) : v[i].n = k
      PROVE  Carries(v, m, hi)
  <2>1. \A i \in Data(v) : v[i].n <= hi /\ (v[i].type = "StreamReady" <=> v[i].n = 0)
      BY <1>2 DEF Carries
  <2>2. ASSUME NEW i \in Data(v), NEW j \in Data(v), i < j PROVE v[i].n < v[j].n
    <3>1. i + 1 \in Data(w) /\ j + 1 \in Data(w) /\ i + 1 < j + 1
        BY <1>1, <1>2, <2>2
    <3> QED BY Zenon, <1>2, <3>1 DEF Carries
  <2>3. ASSUME NEW i \in 1..Len(v), v[i].type = "StreamEnd"
        PROVE  v[i].n \in {0, hi + 1} /\ \A j \in Data(v) : j < i
    <3>1. i + 1 \in 1..Len(w) /\ w[i + 1] = v[i]
        BY <1>1
    <3>2. v[i].n \in {0, hi + 1} /\ \A j \in Data(w) : j < i + 1
        BY <2>3, <3>1 DEF Carries
    <3> QED BY <1>1, <1>2, <3>2
  <2>4. m >= -1
      BY <1>4 DEF Carries
  <2> QED BY <1>4, <2>1, <2>2, <2>3, <2>4 DEF Carries
<1>5. ASSUME Head(w).type \in DataTypes
      PROVE  /\ Head(w).n = lo + 1 /\ lo + 1 <= hi /\ Carries(v, lo + 1, hi)
             /\ Head(w).type = "StreamReady" => Head(w).n = 0
  <2>1. lo < w[1].n /\ w[1].n <= hi /\ (w[1].type = "StreamReady" <=> w[1].n = 0)
      BY <1>3, <1>5 DEF Carries
  <2>2. ASSUME NEW i \in Data(w), i # 1 PROVE w[1].n < w[i].n
    <3>1. 1 \in Data(w) /\ 1 < i
        BY <1>1, <1>3, <1>5, <2>2 DEF Data
    <3> QED BY <3>1 DEF Carries
  <2>3. w[1].n = lo + 1
    <3>1. lo + 1 \in (lo + 1)..hi
        BY <1>1, <2>1
    <3>2. PICK i \in Data(w) : w[i].n = lo + 1
        BY <3>1 DEF Carries
    <3> QED BY <1>1, <2>1, <2>2, <3>2
  <2>4. ASSUME NEW i \in Data(v) PROVE lo + 1 < v[i].n
    <3>1. i + 1 \in Data(w) /\ i + 1 # 1 /\ v[i] = w[i + 1]
        BY <1>1, <1>2
    <3> QED BY <2>2, <2>3, <3>1
  <2>5. ASSUME NEW k \in (lo + 1 + 1)..hi PROVE \E i \in Data(v) : v[i].n = k
    <3>1. PICK i \in Data(w) : w[i].n = k
        BY <2>5 DEF Carries
    <3>2. i # 1
        BY <2>3, <3>1
    <3> QED BY Zenon, <1>2, <3>1, <3>2
  <2>6. Carries(v, lo + 1, hi)
    <3>1. lo + 1 \in Int /\ lo + 1 <= hi
        BY <1>1, <2>1
    <3> QED BY Zenon, <1>4, <2>4, <2>5, <3>1
  <2> QED BY <1>1, <2>1, <2>3, <2>6
<1>6. ASSUME Head(w).type \notin DataTypes
      PROVE  /\ Carries(v, lo, hi)
             /\ Head(w).type = "StreamEnd" => lo = hi /\ Head(w).n \in {0, lo + 1}
  <2>1. \A i \in Data(w) : i # 1
      BY <1>3, <1>6
  <2>2. \A i \in Data(v) : lo < v[i].n
      BY <1>2 DEF Carries
  <2>3. ASSUME NEW k \in (lo + 1)..hi PROVE \E i \in Data(v) : v[i].n = k
    <3>1. PICK i \in Data(w) : w[i].n = k
        BY <2>3 DEF Carries
    <3> QED BY Zenon, <1>2, <2>1, <3>1
  <2>4. lo <= hi
      BY DEF Carries
  <2>5. Carries(v, lo, hi)
      BY <1>4, <2>2, <2>3, <2>4
  <2>6. ASSUME Head(w).type = "StreamEnd" PROVE lo = hi /\ Head(w).n \in {0, lo + 1}
    <3>1. 1 \in 1..Len(w)
        BY <1>1
    <3>2. w[1].n \in {0, hi + 1} /\ \A j \in Data(w) : j < 1
        BY <1>1, <2>6, <3>1 DEF Carries
    <3>3. Data(w) = {}
        BY <1>2, <3>2
    <3>4. \A k \in (lo + 1)..hi : FALSE
        BY <3>3 DEF Carries
    <3>5. lo = hi
        BY <2>4, <3>4
    <3> QED BY <1>1, <3>2, <3>5
  <2> QED BY <2>5, <2>6
<1> QED BY <1>5, <1>6 DEF v, DataTypes

\* The frames under way on w after one was sent, and after one was read.
LEMMA UnderWay ==
    ASSUME NEW w \in Seq(Frames)
    PROVE  /\ Under(<< >>) = {} /\ Under(w) \subseteq Frames
           /\ \A f \in Frames : Under(Append(w, f)) = Under(w) \cup {f}
           /\ w # << >> => Head(w) \in Under(w) /\ Under(Tail(w)) \subseteq Under(w)
<1>1. Under(<< >>) = {} /\ Under(w) \subseteq Frames
    BY DEF Under
<1>2. ASSUME NEW f \in Frames PROVE Under(Append(w, f)) = Under(w) \cup {f}
  <2> DEFINE v == Append(w, f)
  <2>1. /\ Len(v) = Len(w) + 1 /\ v[Len(w) + 1] = f /\ Len(w) \in Nat
        /\ \A i \in 1..Len(w) : v[i] = w[i]
      OBVIOUS
  <2> HIDE DEF v
  <2>2. \A i \in 1..Len(v) : i \in 1..Len(w) \/ i = Len(w) + 1
      BY <2>1
  <2>3. Len(w) + 1 \in 1..Len(v) /\ \A i \in 1..Len(w) : i \in 1..Len(v)
      BY <2>1
  <2>4. Under(v) = Under(w) \cup {f}
      BY <2>1, <2>2, <2>3 DEF Under
  <2> QED BY <2>4 DEF v
<1>3. ASSUME w # << >> PROVE Head(w) \in Under(w) /\ Under(Tail(w)) \subseteq Under(w)
  <2> DEFINE v == Tail(w)
  <2>1. /\ Len(w) \in Nat /\ Len(w) >= 1 /\ Head(w) = w[1]
        /\ \A i \in 1..Len(v) : v[i] = w[i + 1] /\ i + 1 \in 1..Len(w)
      BY <1>3
  <2> HIDE DEF v
  <2>2. Head(w) \in Under(w) /\ Under(v) \subseteq Under(w)
      BY <2>1 DEF Under
  <2> QED BY <2>2 DEF v
<1> QED BY <1>1, <1>2, <1>3

-----------------------------------------------------------------------------
(* Frames *)

FrameTypes == {"Open", "Cancel", "StreamReady", "StreamValue", "NullValue",
               "StreamEnd", "StreamCredit", "Result", "Error"}

\* A frame built from a message type and a number is a frame.
LEMMA FrameType ==
    ASSUME NEW t \in FrameTypes, NEW n \in Nat
    PROVE  Frame(t, n) \in Frames /\ Frame(t, n).type = t /\ Frame(t, n).n = n
BY DEF FrameTypes, Frame, Frames

\* A grant travels against the values it is for.
LEMMA OppositeDir ==
    ASSUME NEW d \in Dirs PROVE Opposite(d) \in Dirs /\ Opposite(d) # d
BY DEF Dirs, Opposite

\* Sending and receiving keep the two FIFOs sequences of frames.
LEMMA WireTypes ==
    ASSUME wire \in [Dirs -> Seq(Frames)], NEW d \in Dirs
    PROVE  /\ \A f \in Frames : Enqueue(d, f) \in [Dirs -> Seq(Frames)]
           /\ wire[d] # << >> => /\ Head(wire[d]) \in Frames
                                 /\ Dequeue(d) \in [Dirs -> Seq(Frames)]
                                 /\ \A f \in Frames :
                                       DequeueReply(d, f) \in [Dirs -> Seq(Frames)]
<1>1. wire[d] \in Seq(Frames) /\ wire[Opposite(d)] \in Seq(Frames)
    BY OppositeDir
<1>2. ASSUME NEW f \in Frames PROVE Enqueue(d, f) \in [Dirs -> Seq(Frames)]
  <2>1. Append(wire[d], f) \in Seq(Frames)
      BY <1>1
  <2> QED BY <2>1 DEF Enqueue
<1>3. ASSUME wire[d] # << >>
      PROVE  /\ Head(wire[d]) \in Frames
             /\ Dequeue(d) \in [Dirs -> Seq(Frames)]
             /\ \A f \in Frames : DequeueReply(d, f) \in [Dirs -> Seq(Frames)]
  <2>1. Head(wire[d]) \in Frames /\ Tail(wire[d]) \in Seq(Frames)
      BY <1>1, <1>3
  <2>2. Dequeue(d) \in [Dirs -> Seq(Frames)]
      BY <2>1 DEF Dequeue
  <2>3. ASSUME NEW f \in Frames PROVE DequeueReply(d, f) \in [Dirs -> Seq(Frames)]
    <3>1. Append(wire[Opposite(d)], f) \in Seq(Frames)
        BY <1>1
    <3> QED BY Zenon, <2>1, <3>1, OppositeDir DEF DequeueReply
  <2> QED BY <2>1, <2>2, <2>3
<1> QED BY <1>2, <1>3

\* The effect of sending and receiving on each of the two FIFOs.
LEMMA WireStep ==
    ASSUME wire \in [Dirs -> Seq(Frames)], NEW f
    PROVE  /\ Enqueue("up", f)["up"] = Append(wire["up"], f)
           /\ Enqueue("up", f)["down"] = wire["down"]
           /\ Enqueue("down", f)["down"] = Append(wire["down"], f)
           /\ Enqueue("down", f)["up"] = wire["up"]
           /\ Dequeue("up")["up"] = Tail(wire["up"])
           /\ Dequeue("up")["down"] = wire["down"]
           /\ Dequeue("down")["down"] = Tail(wire["down"])
           /\ Dequeue("down")["up"] = wire["up"]
           /\ DequeueReply("up", f)["up"] = Tail(wire["up"])
           /\ DequeueReply("up", f)["down"] = Append(wire["down"], f)
           /\ DequeueReply("down", f)["down"] = Tail(wire["down"])
           /\ DequeueReply("down", f)["up"] = Append(wire["up"], f)
           /\ Opposite("up") = "down" /\ Opposite("down") = "up"
BY DEF Dirs, Enqueue, Dequeue, DequeueReply, Opposite

\* The frame of a batched grant carries what was delivered since the last one.
LEMMA GrantFrame ==
    ASSUME TypeOK, NEW d \in Dirs, GrantDue(delivered[d], Window[d])
    PROVE  /\ Frame("StreamCredit", delivered[d] + 1) \in Frames
           /\ Frame("StreamCredit", delivered[d] + 1).type = "StreamCredit"
           /\ Frame("StreamCredit", delivered[d] + 1).n = delivered[d] + 1
<1>1. Window[d] \in Nat /\ delivered[d] \in Int
    BY WindowAssumption DEF TypeOK
<1>2. delivered[d] + 1 \in Nat
    BY <1>1, BatchPositive DEF GrantDue
<1> QED BY <1>2, FrameType DEF FrameTypes

\* ServeValue and PumpAck, case by case.
LEMMA ServeValueEffect ==
    ASSUME TypeOK, ServeValue
    PROVE  LET p == Push(pump["up"], Window["up"], Head(wire["up"]).n)
           IN  /\ wire["up"] # << >> /\ Head(wire["up"]).type = "StreamValue"
               /\ sr.registered /\ wire'["up"] = Tail(wire["up"])
               /\ p.overflow => /\ ~sr'.registered /\ pump'["up"] = StopPump(p)
                                /\ wire'["down"] = Append(wire["down"], Frame("Error", 0))
               /\ ~p.overflow => /\ sr' = sr /\ pump'["up"] = p
                                 /\ wire'["down"] = wire["down"]
               /\ pump'["down"] = pump["down"]
               /\ UNCHANGED <<chan, delivered, got, sent, nulls, sender, client, handler>>
<1> DEFINE p == Push(pump["up"], Window["up"], Head(wire["up"]).n)
<1> HIDE DEF p
<1>1. /\ wire["up"] # << >> /\ Head(wire["up"]).type = "StreamValue"
      /\ sr.registered
      /\ UNCHANGED <<chan, delivered, got, sent, nulls, sender, client, handler>>
    BY Zenon DEF ServeValue, Arrives
<1>2. CASE p.overflow
  <2>1. /\ sr' = [registered |-> FALSE, closed |-> TRUE, inClosed |-> TRUE]
        /\ pump' = [pump EXCEPT !["up"] = StopPump(p)]
        /\ wire' = DequeueReply("up", Frame("Error", 0))
      BY <1>2 DEF ServeValue, p
  <2>2. pump'["up"] = StopPump(p) /\ pump'["down"] = pump["down"]
      BY Zenon, <2>1 DEF TypeOK, Dirs
  <2>3. /\ wire'["up"] = Tail(wire["up"])
        /\ wire'["down"] = Append(wire["down"], Frame("Error", 0))
      BY Zenon, <2>1, WireStep DEF TypeOK
  <2> QED BY Zenon, <1>1, <1>2, <2>1, <2>2, <2>3 DEF p
<1>3. CASE ~p.overflow
  <2>1. /\ sr' = sr /\ pump' = [pump EXCEPT !["up"] = p] /\ wire' = Dequeue("up")
      BY <1>3 DEF ServeValue, p
  <2>2. pump'["up"] = p /\ pump'["down"] = pump["down"]
      BY <2>1 DEF TypeOK, Dirs
  <2>3. wire'["up"] = Tail(wire["up"]) /\ wire'["down"] = wire["down"]
      BY Zenon, <2>1, WireStep DEF TypeOK
  <2> QED BY Zenon, <1>1, <1>3, <2>1, <2>2, <2>3 DEF p
<1> QED BY Zenon, <1>2, <1>3

\* PumpAck, with and without a grant.
LEMMA PumpAckEffect ==
    ASSUME TypeOK, NEW d \in Dirs, PumpAck(d)
    PROVE  /\ pump[d].acking /\ pump' = [pump EXCEPT ![d] = PumpAcked(@)]
           /\ GrantDue(delivered[d], Window[d]) =>
                 /\ delivered' = [delivered EXCEPT ![d] = 0]
                 /\ wire'[Opposite(d)] = Append(wire[Opposite(d)],
                                          Frame("StreamCredit", delivered[d] + 1))
                 /\ wire'[d] = wire[d]
           /\ ~GrantDue(delivered[d], Window[d]) =>
                 /\ delivered' = [delivered EXCEPT ![d] = @ + 1]
                 /\ wire' = wire
           /\ UNCHANGED <<gate, chan, got, sent, nulls, sender, client, server>>
<1>1. ASSUME GrantDue(delivered[d], Window[d])
      PROVE  /\ wire'[Opposite(d)] = Append(wire[Opposite(d)],
                                          Frame("StreamCredit", delivered[d] + 1))
             /\ wire'[d] = wire[d]
  <2>1. wire' = Enqueue(Opposite(d), Frame("StreamCredit", delivered[d] + 1))
      BY <1>1 DEF PumpAck
  <2> QED BY Zenon, <2>1, OppositeDir DEF Enqueue, TypeOK
<1> QED BY <1>1 DEF PumpAck

-----------------------------------------------------------------------------
(* Who sends and who reads which frame *)

SentUp(f) ==
    /\ f.type = "Open" => OpenStream
    /\ f.type = "Cancel" => EstablishTimeout \/ WatchCancel \/ AppCancel \/ RecvValue
    /\ f.type \in DataTypes => OutSend
    /\ f.type = "NullValue" => OutSendNull
    /\ f.type = "StreamEnd" => OutEnd /\ f.n = 0
    /\ f.type = "StreamCredit" => (Establish /\ HasDown) \/ PumpAck("down")

SentDown(f) ==
    /\ f.type \in DataTypes => StreamerReady \/ StreamerSend \/ HandlerOk
    /\ f.type = "StreamValue" => StreamerSend
    /\ f.type = "StreamEnd" => StreamerEnd /\ (f.n # 0 => sr.closed)
    /\ f.type = "StreamCredit" => (HandlerGrant /\ HasUp) \/ PumpAck("up")

ReadUp(f) ==
    /\ f.type \in DataTypes => ServeValue \/ ServeUnknown
    /\ f.type = "StreamEnd" => ServeEnd \/ ServeUnknown
    /\ f.type = "StreamCredit" => ServeCredit \/ ServeUnknown

ReadDown(f) ==
    /\ f.type \in DataTypes => RecvReady \/ RecvValue \/ RecvUnknown
    /\ f.type = "StreamEnd" => RecvEnd \/ RecvUnknown
    /\ f.type = "StreamCredit" => RecvCredit \/ RecvUnknown

\* A step sends a frame, or reads one and may answer it, or leaves the
\* connection alone.
WireMove ==
    \/ wire' = wire
    \/ \E f \in Frames : SentUp(f) /\ wire' = Enqueue("up", f)
    \/ \E f \in Frames : SentDown(f) /\ wire' = Enqueue("down", f)
    \/ /\ wire["up"] # << >> /\ ReadUp(Head(wire["up"]))
       /\ \/ wire' = Dequeue("up")
          \/ \E f \in Frames : SentDown(f) /\ wire' = DequeueReply("up", f)
    \/ /\ wire["down"] # << >> /\ ReadDown(Head(wire["down"]))
       /\ \/ wire' = Dequeue("down")
          \/ \E f \in Frames : SentUp(f) /\ wire' = DequeueReply("down", f)

\* Every action is one of these, with the frames it alone sends and reads.
LEMMA WireMoves == ASSUME TypeOK, [Next]_vars PROVE WireMove
<1>0. /\ "up" \in Dirs /\ "down" \in Dirs
      /\ \A d \in Dirs : sent[d] + 1 \in Nat /\ Window[d] \in Nat
    BY SMTT(20), WindowAssumption DEF Dirs, TypeOK
<1>a. ASSUME NEW f \in Frames, SentUp(f), wire' = Enqueue("up", f) PROVE WireMove
    BY <1>a DEF WireMove
<1>b. ASSUME NEW f \in Frames, SentDown(f), wire' = Enqueue("down", f) PROVE WireMove
    BY <1>b DEF WireMove
<1>c. \A t \in FrameTypes, n \in Nat :
          Frame(t, n) \in Frames /\ Frame(t, n).type = t /\ Frame(t, n).n = n
    BY FrameType
<1> HIDE DEF Frame, DataTypes
<1>1. CASE OpenStream
  <2>1. SentUp(Frame("Open", 0)) /\ Frame("Open", 0) \in Frames
      BY Zenon, <1>1, <1>c DEF FrameTypes, SentUp, DataTypes
  <2> QED BY <1>1, <1>a, <2>1 DEF OpenStream
<1>2. CASE EstablishTimeout \/ WatchCancel \/ AppCancel
  <2>1. SentUp(Frame("Cancel", 0)) /\ Frame("Cancel", 0) \in Frames
      BY <1>2, <1>c DEF FrameTypes, SentUp, DataTypes
  <2> QED BY Zenon, <1>2, <1>a, <2>1 DEF EstablishTimeout, WatchCancel, AppCancel
<1>3. CASE OutEnd
  <2>1. SentUp(Frame("StreamEnd", 0)) /\ Frame("StreamEnd", 0) \in Frames
      BY <1>3, <1>c DEF FrameTypes, SentUp, DataTypes
  <2> QED BY <1>3, <1>a, <2>1 DEF OutEnd
<1>4. CASE OutSend
  <2> DEFINE f == Frame("StreamValue", sent["up"] + 1)
  <2>1. SentUp(f) /\ f \in Frames
      BY <1>0, <1>4, <1>c DEF FrameTypes, SentUp, DataTypes
  <2> QED BY Zenon, <1>4, <1>a, <2>1 DEF OutSend, OutSendNull
<1>5. CASE Establish
  <2> DEFINE f == Frame("StreamCredit", Window["down"])
  <2>1. HasDown => SentUp(f) /\ f \in Frames
      BY Zenon, <1>0, <1>5, <1>c DEF FrameTypes, SentUp, DataTypes
  <2> QED BY Zenon, <1>5, <1>a, <2>1 DEF Establish, WireMove
<1>6. CASE RecvUnknown \/ RecvReady \/ RecvNull \/ RecvEnd \/ RecvError \/ RecvCredit
  <2>1. wire["down"] # << >> /\ wire' = Dequeue("down")
      BY Zenon, <1>6 DEF RecvUnknown, RecvReady, RecvNull, RecvEnd, RecvError,
         RecvCredit, ClientReads, Arrives
  <2>2. ReadDown(Head(wire["down"]))
      BY Zenon, <1>6 DEF RecvReady, RecvNull, RecvEnd, RecvError, RecvCredit,
         ClientReads, Arrives, ReadDown, DataTypes
  <2> QED BY <2>1, <2>2 DEF WireMove
<1>7. CASE RecvValue
  <2>1. SentUp(Frame("Cancel", 0)) /\ Frame("Cancel", 0) \in Frames
      BY <1>7, <1>c DEF FrameTypes, SentUp, DataTypes
  <2>2. wire["down"] # << >> /\ ReadDown(Head(wire["down"]))
      BY <1>7 DEF RecvValue, ClientReads, Arrives, ReadDown, DataTypes
  <2>3. wire' = Dequeue("down") \/ wire' = DequeueReply("down", Frame("Cancel", 0))
      BY Zenon, <1>7 DEF RecvValue
  <2> QED BY <2>1, <2>2, <2>3 DEF WireMove
<1>8. CASE ServeOpen \/ ServeUnknown \/ ServeCancel \/ ServeNull \/ ServeEnd \/ ServeCredit
  <2>1. wire["up"] # << >> /\ wire' = Dequeue("up")
      BY <1>8 DEF ServeOpen, ServeUnknown, ServeCancel, ServeNull, ServeEnd,
         ServeCredit, Arrives
  <2>2. ReadUp(Head(wire["up"]))
      BY Zenon, <1>8 DEF ServeOpen, ServeCancel, ServeNull, ServeEnd, ServeCredit,
         Arrives, ReadUp, DataTypes
  <2> QED BY <2>1, <2>2 DEF WireMove
<1>9. CASE ServeBusy \/ ServeValue
  <2>1. SentDown(Frame("Error", 0)) /\ Frame("Error", 0) \in Frames
      BY Zenon, <1>c DEF FrameTypes, SentDown, DataTypes
  <2>2. wire["up"] # << >> /\ ReadUp(Head(wire["up"]))
      BY <1>9 DEF ServeBusy, ServeValue, Arrives, ReadUp, DataTypes
  <2>3. wire' = Dequeue("up") \/ wire' = DequeueReply("up", Frame("Error", 0))
      BY Zenon, <1>9 DEF ServeBusy, ServeValue
  <2> QED BY Zenon, <2>1, <2>2, <2>3 DEF WireMove
<1>10. CASE HandlerReject \/ HandlerError
  <2>1. SentDown(Frame("Error", 0)) /\ Frame("Error", 0) \in Frames
      BY <1>c DEF FrameTypes, SentDown, DataTypes
  <2> QED BY Zenon, <1>10, <1>b, <2>1 DEF HandlerReject, HandlerError
<1>11. CASE HandlerGrant
  <2> DEFINE f == Frame("StreamCredit", Window["up"])
  <2>1. HasUp => SentDown(f) /\ f \in Frames
      BY Zenon, <1>0, <1>11, <1>c DEF FrameTypes, SentDown, DataTypes
  <2> QED BY Zenon, <1>11, <1>b, <2>1 DEF HandlerGrant, WireMove
<1>12. CASE HandlerOk \/ StreamerReady
  <2>1. SentDown(Frame("StreamReady", 0)) /\ Frame("StreamReady", 0) \in Frames
      BY <1>12, <1>c DEF FrameTypes, SentDown, DataTypes
  <2> QED BY Zenon, <1>12, <1>b, <2>1 DEF HandlerOk, StreamerReady, WireMove
<1>13. CASE StreamerSend
  <2> DEFINE f == Frame("StreamValue", sent["down"] + 1)
  <2>1. SentDown(f) /\ f \in Frames
      BY <1>0, <1>13, <1>c DEF FrameTypes, SentDown, DataTypes
  <2> QED BY Zenon, <1>13, <1>b, <2>1 DEF StreamerSend, StreamerSendNull
<1>14. CASE StreamerEnd
  <2>1. PICK n \in {0, sent["down"] + 1} : /\ wire' = Enqueue("down", Frame("StreamEnd", n))
                                           /\ n # 0 => sr.closed
      BY <1>14 DEF StreamerEnd
  <2>2. n \in Nat
      BY <1>0, <2>1
  <2>3. SentDown(Frame("StreamEnd", n)) /\ Frame("StreamEnd", n) \in Frames
      BY <1>14, <1>c, <2>1, <2>2 DEF FrameTypes, SentDown, DataTypes
  <2> QED BY Zenon, <1>b, <2>1, <2>3
<1>15. ASSUME NEW d \in Dirs, PumpAck(d) PROVE WireMove
  <2> DEFINE f == Frame("StreamCredit", delivered[d] + 1)
  <2>1. \/ wire' = wire
        \/ GrantDue(delivered[d], Window[d]) /\ wire' = Enqueue(Opposite(d), f)
      BY Zenon, <1>15 DEF PumpAck
  <2>2. GrantDue(delivered[d], Window[d]) => f \in Frames /\ f.type = "StreamCredit"
      BY Zenon, GrantFrame
  <2>3. CASE d = "down"
      BY Zenon, <1>15, <1>a, <2>1, <2>2, <2>3 DEF SentUp, DataTypes, Opposite, WireMove
  <2>4. CASE d = "up"
      BY Zenon, <1>15, <1>b, <2>1, <2>2, <2>4 DEF SentDown, DataTypes, Opposite,
         WireMove
  <2> QED BY Zenon, <2>3, <2>4 DEF Dirs
<1>16. CASE \/ EstablishFailed \/ Abandon \/ WatchClose \/ WatchExit \/ AppReceive
            \/ OutLoop \/ OutTake \/ OutRefused \/ OutAcquire \/ OutFinish \/ OutRetire
            \/ RecvEndRetire \/ HandlerStore \/ HandlerPanic \/ HandlerReceive
            \/ StreamerTake \/ StreamerRefused \/ StreamerAcquire \/ UNCHANGED vars
    BY Zenon, <1>16 DEF EstablishFailed, Abandon, WatchClose, WatchExit, AppReceive,
           OutLoop, OutTake, OutRefused, OutAcquire, OutFinish, OutRetire,
           RecvEndRetire, HandlerStore, HandlerPanic, HandlerReceive,
           StreamerTake, StreamerRefused, StreamerAcquire, vars, WireMove
<1>17. ASSUME NEW d \in Dirs, PumpTake(d) \/ PumpDeliver(d) \/ PumpClose(d)
       PROVE  WireMove
    BY Zenon, <1>17 DEF PumpTake, PumpDeliver, PumpClose, WireMove
<1>18. CASE OutSendNull
  <2>1. SentUp(Frame("NullValue", 0)) /\ Frame("NullValue", 0) \in Frames
      BY <1>18, <1>c DEF FrameTypes, SentUp, DataTypes
  <2> QED BY Zenon, <1>18, <1>a, <2>1 DEF OutSendNull
<1>19. CASE StreamerSendNull
  <2>1. SentDown(Frame("NullValue", 0)) /\ Frame("NullValue", 0) \in Frames
      BY <1>19, <1>c DEF FrameTypes, SentDown, DataTypes
  <2> QED BY Zenon, <1>19, <1>b, <2>1 DEF StreamerSendNull
<1> QED
    BY Zenon, <1>1, <1>2, <1>3, <1>4, <1>5, <1>6, <1>7, <1>8, <1>9, <1>10, <1>11, <1>12,
       <1>13, <1>14, <1>15, <1>16, <1>17, <1>18, <1>19
      DEF Next, Opener, Watcher, StreamOut, ClientLoop, ServerLoop, Handler, Streamer,
          PumpStep

\* The frames towards the server after the step.
UpFrame ==
    \/ wire'["up"] = wire["up"]
    \/ \E f \in Frames : SentUp(f) /\ wire'["up"] = Append(wire["up"], f)
    \/ wire["up"] # << >> /\ wire'["up"] = Tail(wire["up"]) /\ ReadUp(Head(wire["up"]))

\* Every step sends at most one frame to the server and reads at most one there.
LEMMA UpFrames == ASSUME TypeOK, [Next]_vars PROVE UpFrame
<1>1. wire \in [Dirs -> Seq(Frames)] /\ WireMove
    BY WireMoves DEF TypeOK
<1> QED BY Zenon, <1>1, WireStep DEF WireMove, UpFrame

\* The frames towards the client after the step.
DownFrame ==
    \/ wire'["down"] = wire["down"]
    \/ \E f \in Frames : SentDown(f) /\ wire'["down"] = Append(wire["down"], f)
    \/ /\ wire["down"] # << >> /\ wire'["down"] = Tail(wire["down"])
       /\ ReadDown(Head(wire["down"]))

\* Every step sends at most one frame to the client and reads at most one there.
LEMMA DownFrames == ASSUME TypeOK, [Next]_vars PROVE DownFrame
<1>1. wire \in [Dirs -> Seq(Frames)] /\ WireMove
    BY WireMoves DEF TypeOK
<1> QED BY Zenon, <1>1, WireStep DEF WireMove, DownFrame

-----------------------------------------------------------------------------
(* What a step leaves alone *)

USE DEF OpenStream, Establish, EstablishFailed, EstablishTimeout, Abandon,
        WatchCancel, WatchClose, WatchExit, AppCancel, AppReceive, OutLoop, OutTake,
        OutEnd, OutRefused, OutAcquire, OutSend, OutSendNull, OutFinish, OutRetire,
        RecvUnknown, RecvReady, RecvValue, RecvNull, RecvEnd, RecvEndRetire,
        RecvError, RecvCredit, ServeOpen, ServeBusy, ServeUnknown, ServeCancel,
        ServeValue, ServeNull, ServeEnd, ServeCredit, HandlerReject, HandlerStore,
        HandlerGrant, HandlerOk, HandlerError, HandlerPanic, HandlerReceive,
        StreamerReady, StreamerTake, StreamerEnd, StreamerRefused, StreamerAcquire,
        StreamerSend, StreamerSendNull, PumpTake, PumpDeliver, PumpAck, PumpClose,
        Next, Opener, Watcher, StreamOut, ClientLoop, ServerLoop, Handler, Streamer,
        PumpStep, vars, flow, client, server

\* Only the call itself moves the opener.
LEMMA OpenerSteps == ASSUME [Next]_vars PROVE Opener \/ opener' = opener
BY Zenon

\* The watcher starts with the stream and ends by itself.
LEMMA WatcherSteps ==
    ASSUME [Next]_vars PROVE Establish \/ Watcher \/ watcher' = watcher
BY Zenon

\* Only the handler goroutine, and the read loop that starts it, move handler.
LEMMA HandlerSteps ==
    ASSUME [Next]_vars PROVE ServeOpen \/ ServeBusy \/ Handler \/ handler' = handler
BY Zenon

\* CancelRequest is called by the application, TryGetClose by the response loop.
LEMMA FlagSteps ==
    ASSUME [Next]_vars
    PROVE  /\ AppCancel \/ cancelled' = cancelled
           /\ RecvEnd \/ RecvEndRetire \/ ending' = ending
BY Zenon

\* The request context changes where the client registers, closes or retires it.
LEMMA ContextSteps ==
    ASSUME [Next]_vars
    PROVE  \/ OpenStream \/ EstablishFailed \/ Abandon \/ WatchClose
           \/ OutFinish \/ OutRetire \/ RecvValue \/ RecvEnd \/ RecvEndRetire \/ RecvError
           \/ rc' = rc
BY Zenon

\* The serving request changes where the server registers, closes or retires it.
LEMMA ServingSteps ==
    ASSUME [Next]_vars
    PROVE  \/ ServeCancel \/ ServeValue \/ ServeEnd \/ HandlerStore \/ HandlerError
           \/ StreamerEnd \/ StreamerRefused
           \/ sr' = sr
BY Zenon

\* A sender's program counter moves with its own steps and where it is started.
LEMMA SenderSteps ==
    ASSUME [Next]_vars
    PROVE  Establish \/ HandlerOk \/ StreamOut \/ Streamer \/ sender' = sender
BY Zenon

\* Values are counted where they are sent, deliveries where they are granted.
LEMMA CountSteps ==
    ASSUME [Next]_vars
    PROVE  /\ OutSend \/ StreamerSend \/ sent' = sent
           /\ OutSendNull \/ StreamerSendNull \/ nulls' = nulls
           /\ (\E d \in Dirs : PumpAck(d)) \/ delivered' = delivered
BY Zenon

\* The channels change where the applications read and the receivers deliver.
LEMMA ChannelSteps ==
    ASSUME [Next]_vars
    PROVE  \/ Establish \/ AppReceive \/ HandlerReceive \/ RecvReady
           \/ \E d \in Dirs : PumpDeliver(d)
           \/ chan' = chan /\ got' = got
BY Zenon

\* A gate is closed, gives credit to its sender or takes a grant.
LEMMA GateSteps ==
    ASSUME [Next]_vars
    PROVE  \/ gate' = gate
           \/ gate' = [gate EXCEPT !["up"] = CloseGate(@)]
           \/ gate' = [gate EXCEPT !["down"] = CloseGate(@)]
           \/ OutAcquire \/ StreamerAcquire \/ RecvCredit \/ ServeCredit
BY Zenon DEF CloseResult, ClientClose, ServerClose

HIDE DEF OpenStream, Establish, EstablishFailed, EstablishTimeout, Abandon,
         WatchCancel, WatchClose, WatchExit, AppCancel, AppReceive, OutLoop, OutTake,
         OutEnd, OutRefused, OutAcquire, OutSend, OutSendNull, OutFinish, OutRetire,
         RecvUnknown, RecvReady, RecvValue, RecvNull, RecvEnd, RecvEndRetire,
         RecvError, RecvCredit, ServeOpen, ServeBusy, ServeUnknown, ServeCancel,
         ServeValue, ServeNull, ServeEnd, ServeCredit, HandlerReject, HandlerStore,
         HandlerGrant, HandlerOk, HandlerError, HandlerPanic, HandlerReceive,
         StreamerReady, StreamerTake, StreamerEnd, StreamerRefused, StreamerAcquire,
         StreamerSend, StreamerSendNull, PumpTake, PumpDeliver, PumpAck, PumpClose,
         Next, Opener, Watcher, StreamOut, ClientLoop, ServerLoop, Handler, Streamer,
         PumpStep, vars, flow, client, server

\* A pump is closed by its owner, takes frames in or does a step of its own.
LEMMA PumpSteps ==
    ASSUME [Next]_vars
    PROVE  \/ pump' = pump
           \/ /\ EstablishFailed \/ Abandon \/ WatchClose \/ RecvError
              /\ pump' = [pump EXCEPT !["down"] = ClosePump(StopPump(@))]
           \/ OutFinish /\ kind = "put" /\ pump' = [pump EXCEPT !["down"] = ClosePump(@)]
           \/ RecvReady \/ RecvValue \/ RecvEnd
           \/ /\ ServeCancel \/ HandlerError \/ StreamerEnd \/ StreamerRefused
              /\ pump' = [pump EXCEPT !["up"] = StopPump(@)]
           \/ ServeEnd /\ pump' = [pump EXCEPT !["up"] = ClosePump(@)]
           \/ ServeValue
           \/ \E d \in Dirs : PumpStep(d)
<1>1. CASE EstablishFailed \/ Abandon \/ WatchClose \/ RecvError
    BY Zenon, <1>1 DEF EstablishFailed, Abandon, WatchClose, RecvError, ClientClose
<1>2. CASE ServeCancel \/ HandlerError \/ StreamerEnd \/ StreamerRefused
    BY Zenon, <1>2 DEF ServeCancel, HandlerError, StreamerEnd, StreamerRefused,
       ServerClose
<1>3. CASE OutFinish
    BY Zenon, <1>3 DEF OutFinish, CloseResult
<1>4. CASE ServeEnd
    BY Zenon, <1>4 DEF ServeEnd
<1>5. CASE \/ OpenStream \/ Establish \/ EstablishTimeout \/ WatchCancel \/ WatchExit
           \/ AppCancel \/ AppReceive \/ OutLoop \/ OutTake \/ OutEnd \/ OutRefused
           \/ OutAcquire \/ OutSend \/ OutSendNull \/ OutRetire \/ RecvUnknown
           \/ RecvNull \/ RecvEndRetire \/ RecvCredit
           \/ ServeOpen \/ ServeBusy \/ ServeUnknown \/ ServeNull \/ ServeCredit
           \/ HandlerReject \/ HandlerStore \/ HandlerGrant \/ HandlerOk \/ HandlerPanic
           \/ HandlerReceive \/ StreamerReady \/ StreamerTake \/ StreamerAcquire
           \/ StreamerSend \/ StreamerSendNull \/ UNCHANGED vars
  <2>1. pump' = pump
      BY Zenon, <1>5 DEF OpenStream, Establish, EstablishTimeout, WatchCancel,
         WatchExit, AppCancel, AppReceive, OutLoop, OutTake, OutEnd, OutRefused,
         OutAcquire, OutSend, OutSendNull, OutRetire, RecvUnknown, RecvNull,
         RecvEndRetire, RecvCredit, ServeOpen, ServeBusy, ServeUnknown, ServeNull,
         ServeCredit, HandlerReject, HandlerStore, HandlerGrant, HandlerOk,
         HandlerPanic, HandlerReceive, StreamerReady, StreamerTake, StreamerAcquire,
         StreamerSend, StreamerSendNull, vars, flow
  <2> QED BY <2>1
<1> QED
    BY Zenon, <1>1, <1>2, <1>3, <1>4, <1>5
      DEF Next, Opener, Watcher, StreamOut, ClientLoop, ServerLoop, Handler, Streamer

-----------------------------------------------------------------------------
(* Types *)

\* ... and is kept by every step of every goroutine.
LEMMA NextTypeOK == TypeOK /\ [Next]_vars => TypeOK'
<1> SUFFICES ASSUME TypeOK, [Next]_vars PROVE TypeOK'
    OBVIOUS
<1>0. "down" \in Dirs /\ "up" \in Dirs
    BY DEF Dirs
<1>1. wire' \in [Dirs -> Seq(Frames)]
  <2>1. wire \in [Dirs -> Seq(Frames)]
      BY DEF TypeOK
  <2>2. WireMove
      BY Zenon, WireMoves
  <2>3. ASSUME NEW d \in Dirs
        PROVE  /\ \A f \in Frames : Enqueue(d, f) \in [Dirs -> Seq(Frames)]
               /\ wire[d] # << >> => /\ Dequeue(d) \in [Dirs -> Seq(Frames)]
                                     /\ \A f \in Frames :
                                           DequeueReply(d, f) \in [Dirs -> Seq(Frames)]
      BY <2>1, WireTypes
  <2>4. CASE \E f \in Frames : wire' = Enqueue("up", f) \/ wire' = Enqueue("down", f)
      BY ZenonT(30), <1>0, <2>3, <2>4
  <2>5. CASE /\ wire["up"] # << >>
             /\ \/ wire' = Dequeue("up")
                \/ \E f \in Frames : wire' = DequeueReply("up", f)
      BY Zenon, <1>0, <2>3, <2>5
  <2>6. CASE /\ wire["down"] # << >>
             /\ \/ wire' = Dequeue("down")
                \/ \E f \in Frames : wire' = DequeueReply("down", f)
      BY Zenon, <1>0, <2>3, <2>6
  <2> QED BY Zenon, <2>1, <2>2, <2>4, <2>5, <2>6 DEF WireMove
<1>2. gate' \in [Dirs -> Gate]
  <2>1. ASSUME NEW d \in Dirs, NEW g \in Gate, gate' = [gate EXCEPT ![d] = g]
        PROVE  gate' \in [Dirs -> Gate]
      BY <2>1 DEF TypeOK
  <2>2. \A d \in Dirs : /\ CloseGate(gate[d]) \in Gate
                        /\ AcquireGranted(gate[d]) => Acquire(gate[d]) \in Gate
                        /\ \A n \in Nat : Grant(gate[d], n) \in Gate
      BY Zenon, GateTypes DEF TypeOK
  <2>3. CASE OutAcquire \/ StreamerAcquire
      BY <1>0, <2>1, <2>2, <2>3 DEF OutAcquire, StreamerAcquire
  <2>4. CASE RecvCredit
    <3>1. Head(wire["down"]).n \in Nat
        BY Zenon, <1>0, <2>4, WireTypes DEF RecvCredit, ClientReads, Arrives, TypeOK,
           Frames
    <3> QED BY Zenon, <1>0, <2>1, <2>2, <2>4, <3>1 DEF RecvCredit
  <2>5. CASE ServeCredit
    <3>1. Head(wire["up"]).n \in Nat
        BY Zenon, <1>0, <2>5, WireTypes DEF ServeCredit, Arrives, TypeOK, Frames
    <3> QED BY Zenon, <1>0, <2>1, <2>2, <2>5, <3>1 DEF ServeCredit
  <2> QED BY Zenon, <1>0, <2>1, <2>2, <2>3, <2>4, <2>5, GateSteps DEF TypeOK
<1>3. pump' \in [Dirs -> Pump]
  <2>1. ASSUME NEW d \in Dirs, NEW p \in Pump, pump' = [pump EXCEPT ![d] = p]
        PROVE  pump' \in [Dirs -> Pump]
      BY <2>1 DEF TypeOK
  <2>2. \A d \in Dirs : pump[d] \in Pump /\ Window[d] \in Nat \ {0}
      BY WindowAssumption DEF TypeOK
  <2>3. CASE RecvReady
    <3>1. Push(pump["down"], Window["down"], 0) \in Pump
      <4>1. Window["down"] \in Nat /\ 0 \in Int
          BY <1>0, <2>2
      <4> QED BY Zenon, <1>0, <2>2, <4>1, PumpTypes
    <3> QED BY Zenon, <1>0, <2>1, <2>3, <3>1 DEF RecvReady, TypeOK
  <2>4. CASE RecvValue \/ RecvEnd
    <3> DEFINE p == Push(pump["down"], Window["down"], Head(wire["down"]).n)
    <3>1. Head(wire["down"]).n \in Int
        BY SMTT(20), <1>0, <2>4, WireTypes DEF RecvValue, RecvEnd, ClientReads,
           Arrives, TypeOK, Frames
    <3>2. p \in Pump /\ ClosePump(p) \in Pump /\ ClosePump(pump["down"]) \in Pump
        BY Zenon, <1>0, <2>2, <3>1, PumpTypes
    <3> QED BY Zenon, <1>0, <2>1, <2>4, <3>2 DEF RecvValue, RecvEnd
  <2>5. CASE ServeValue
    <3> DEFINE p == Push(pump["up"], Window["up"], Head(wire["up"]).n)
    <3>1. Head(wire["up"]).n \in Int
        BY SMTT(20), <1>0, <2>5, WireTypes DEF ServeValue, Arrives, TypeOK, Frames
    <3>2. p \in Pump /\ StopPump(p) \in Pump
        BY Zenon, <1>0, <2>2, <3>1, PumpTypes
    <3> QED BY Zenon, <1>0, <2>1, <2>5, <3>2 DEF ServeValue
  <2>6. ASSUME NEW d \in Dirs, PumpStep(d) PROVE pump' \in [Dirs -> Pump]
      BY Zenon, <2>1, <2>2, <2>6, PumpTypes DEF PumpStep, PumpTake, PumpDeliver,
         PumpAck, PumpClose
  <2>7. \A d \in Dirs : /\ ClosePump(pump[d]) \in Pump /\ StopPump(pump[d]) \in Pump
                        /\ ClosePump(StopPump(pump[d])) \in Pump
      BY Zenon, <2>2, PumpTypes
  <2> QED BY Zenon, <1>0, <2>1, <2>3, <2>4, <2>5, <2>6, <2>7, PumpSteps DEF TypeOK
<1>4. chan' \in [Dirs -> Seq(Int)] /\ got' \in [Dirs -> Int]
  <2>1. CASE Establish \/ AppReceive
    <3>1. Tail(chan["down"]) \in Seq(Int) /\ Head(chan["down"]) \in Int
        BY <1>0, <2>1 DEF TypeOK, Establish, AppReceive
    <3> QED BY Zenon, <2>1, <3>1 DEF TypeOK, Establish, AppReceive
  <2>2. CASE HandlerReceive
      BY <1>0, <2>2 DEF TypeOK, HandlerReceive
  <2>3. CASE RecvReady
    <3>1. Append(chan["down"], 0) \in Seq(Int)
        BY <1>0 DEF TypeOK
    <3> QED BY Zenon, <2>3, <3>1 DEF TypeOK, RecvReady
  <2>4. ASSUME NEW d \in Dirs, PumpDeliver(d)
        PROVE  chan' \in [Dirs -> Seq(Int)] /\ got' \in [Dirs -> Int]
    <3>1. pump[d].hand \in Seq(Int) /\ chan[d] \in Seq(Int) /\ pump[d].hand # << >>
        BY Zenon, <2>4 DEF TypeOK, Pump, PumpDeliver
    <3>2. Append(chan[d], Head(pump[d].hand)) \in Seq(Int)
        BY <3>1
    <3> QED BY Zenon, <2>4, <3>2 DEF TypeOK, PumpDeliver
  <2> QED BY Zenon, <2>1, <2>2, <2>3, <2>4, ChannelSteps DEF TypeOK
<1>5. delivered' \in [Dirs -> Int]
  <2>1. ASSUME NEW d \in Dirs, PumpAck(d) PROVE delivered' \in [Dirs -> Int]
    <3>1. delivered[d] + 1 \in Int
        BY DEF TypeOK
    <3> QED BY <2>1, <3>1 DEF TypeOK, PumpAck
  <2> QED BY Zenon, <2>1, CountSteps DEF TypeOK
<1>6. sent' \in [Dirs -> Nat]
  <2>1. \A d \in Dirs : sent[d] + 1 \in Nat
      BY DEF TypeOK
  <2> QED BY Zenon, <1>0, <2>1, CountSteps DEF TypeOK, OutSend, StreamerSend
<1>14. nulls' \in [Dirs -> Nat]
  <2>1. \A d \in Dirs : nulls[d] + 1 \in Nat
      BY DEF TypeOK
  <2> QED BY Zenon, <1>0, <2>1, CountSteps DEF TypeOK, OutSendNull, StreamerSendNull
<1>7. sender' \in [Dirs -> SenderStates]
  <2>1. ASSUME NEW d \in Dirs, NEW pc \in SenderStates, sender' = [sender EXCEPT ![d] = pc]
        PROVE  sender' \in [Dirs -> SenderStates]
      BY <2>1 DEF TypeOK
  <2>2. CASE StreamOut \/ Establish
      BY Zenon, <1>0, <2>1, <2>2 DEF StreamOut, Establish, OutLoop, OutTake, OutEnd,
         OutRefused, OutAcquire, OutSend, OutSendNull, OutFinish, OutRetire, Goto,
         SenderStates, TypeOK
  <2>3. CASE Streamer \/ HandlerOk
      BY Zenon, <1>0, <2>1, <2>3 DEF Streamer, HandlerOk, StreamerReady, StreamerTake,
         StreamerEnd, StreamerRefused, StreamerAcquire, StreamerSend,
         StreamerSendNull, Goto, SenderStates
  <2> QED BY <2>2, <2>3, SenderSteps DEF TypeOK
<1>8. opener' \in {"idle", "establishing", "abandoning", "open", "failed"}
    BY Zenon, OpenerSteps DEF TypeOK, Opener, OpenStream, Establish, EstablishFailed,
       EstablishTimeout, Abandon
<1>9. watcher' \in {"off", "on", "cancelling"}
    BY Zenon, WatcherSteps DEF TypeOK, Establish, Watcher, WatchCancel, WatchClose,
       WatchExit
<1>10. cancelled' \in BOOLEAN /\ ending' \in BOOLEAN
    BY Zenon, FlagSteps DEF TypeOK, AppCancel, RecvEnd, RecvEndRetire
<1>11. rc' \in RequestContexts
  <2>1. CASE EstablishFailed \/ Abandon \/ WatchClose \/ RecvError
      BY ZenonT(30), <2>1 DEF TypeOK, EstablishFailed, Abandon, WatchClose, RecvError,
             ClientClose, RequestContexts
  <2>2. CASE OpenStream \/ RecvEnd
      BY Zenon, <2>2 DEF TypeOK, OpenStream, RecvEnd, RequestContexts
  <2>3. CASE OutRetire \/ RecvEndRetire
      BY Zenon, <2>3 DEF TypeOK, OutRetire, RecvEndRetire, RequestContexts
  <2>4. CASE RecvValue
      BY Zenon, <2>4 DEF TypeOK, RecvValue, RequestContexts
  <2>5. CASE OutFinish
      BY Zenon, <2>5 DEF TypeOK, OutFinish, RequestContexts
  <2> QED BY Zenon, <2>1, <2>2, <2>3, <2>4, <2>5, ContextSteps DEF TypeOK
<1>12. handler' \in {"none", "spawned", "stored", "running", "returned"}
    BY HandlerSteps DEF TypeOK, ServeOpen, ServeBusy, Handler, HandlerReject,
       HandlerStore, HandlerGrant, HandlerOk, HandlerError, HandlerPanic
<1>13. sr' \in ServingRequests
  <2>0. [registered |-> FALSE, closed |-> TRUE, inClosed |-> TRUE] \in ServingRequests
      BY DEF ServingRequests
  <2>1. CASE ServeCancel \/ HandlerError \/ StreamerEnd \/ StreamerRefused
      BY Zenon, <2>0, <2>1 DEF ServeCancel, HandlerError, StreamerEnd, StreamerRefused,
             ServerClose
  <2>2. CASE ServeValue
      BY Zenon, <2>0, <2>2 DEF TypeOK, ServeValue
  <2>3. CASE ServeEnd \/ HandlerStore
      BY Zenon, <2>3 DEF TypeOK, ServeEnd, HandlerStore, ServingRequests
  <2> QED BY Zenon, <2>1, <2>2, <2>3, ServingSteps DEF TypeOK
<1> QED
    BY Zenon, <1>1, <1>2, <1>3, <1>4, <1>5, <1>6, <1>7, <1>8, <1>9, <1>10, <1>11,
       <1>12, <1>13, <1>14 DEF TypeOK

\* Every reachable state of a stream is well typed: credit is never negative,
\* no frame carries a negative number (TypeOK), for every window, channel
\* capacity and number of values.
THEOREM TypeCorrect == Spec => []TypeOK
\* The type invariant holds before the call ...
<1>InitTypeOK. Init => TypeOK
  <2> SUFFICES ASSUME Init PROVE TypeOK
      BY Zenon
  <2>1. wire \in [Dirs -> Seq(Frames)] /\ chan \in [Dirs -> Seq(Int)]
      BY DEF Init, Dirs
  <2>2. gate \in [Dirs -> Gate]
      BY Zenon DEF Init, Gate, NewCreditGate
  <2>3. pump \in [Dirs -> Pump]
      BY DEF Init, Pump, NewStreamPump
  <2>4. /\ delivered \in [Dirs -> Int] /\ got \in [Dirs -> Int]
        /\ sent \in [Dirs -> Nat] /\ nulls \in [Dirs -> Nat]
      BY DEF Init
  <2>5. sender \in [Dirs -> SenderStates]
      BY DEF Init, SenderStates
  <2>6. rc \in RequestContexts
      BY Zenon DEF Init, RequestContexts
  <2>7. sr \in ServingRequests
      BY DEF Init, ServingRequests
  <2> QED BY Zenon, <2>1, <2>2, <2>3, <2>4, <2>5, <2>6, <2>7 DEF Init, TypeOK
<1>1. Init => TypeOK
    BY <1>InitTypeOK
<1>2. TypeOK /\ [Next]_vars => TypeOK'
    BY NextTypeOK
<1> QED BY <1>1, <1>2, PTL DEF Spec

-----------------------------------------------------------------------------
(* The control part of the inductive invariant *)

\* Before the call nothing has happened.
IdleInv == opener = "idle" => handler = "none" /\ wire["up"] = << >> /\ ~rc.inMap

\* Until the handler goroutine registers the request, the server has sent
\* nothing and the client has nothing to send but the request and its cancel.
EarlyInv ==
    handler \in {"none", "spawned"} =>
        /\ wire["down"] = << >> /\ ~sr.registered
        /\ opener # "open" /\ watcher = "off"
        /\ \A d \in Dirs : /\ chan[d] = << >> /\ sender[d] = "off"
                           /\ pump[d].queue = << >> /\ pump[d].hand = << >>
                           /\ ~pump[d].acking

\* The request is the first frame the client sends, and it is sent once.
OpenAtHead(w) == \A i \in 1..Len(w) : w[i].type = "Open" => i = 1
NoOpen(w)     == \A i \in 1..Len(w) : w[i].type # "Open"

OpenInv == OpenAtHead(wire["up"]) /\ (handler # "none" => NoOpen(wire["up"]))

\* The streamer starts when the handler has returned; StreamReady comes first.
StreamerInv == /\ handler # "returned" => sender["down"] = "off"
               /\ sender["down"] \in {"off", "ready"} => sent["down"] = 0

\* A put-stream sends the acknowledgement down and nothing else, and its
\* context's done stands for the pump's input end.
PutInv ==
    kind = "put" =>
        /\ sender["down"] \in {"off", "done"} /\ sent["down"] = 0
        /\ \A i \in 1..Len(wire["down"]) :
              wire["down"][i].type \notin {"StreamValue", "StreamEnd"}
        /\ pump["down"].queue = << >> /\ pump["down"].hand = << >>
        /\ ~pump["down"].acking
        /\ rc.done = pump["down"].inputEnd
        /\ pump["down"].stopped => pump["down"].inputEnd

\* streamOut runs once the stream is open.
OffInv == opener # "open" => sender["up"] = "off"

\* The sender of d is past its last value; only then is its end under way.
EndedOut(d) == IF d = "down" THEN sender["down"] = "done"
                             ELSE sender["up"] \in {"finish", "retire", "done"}

EndInv == \A d \in Dirs : \A f \in Under(wire[d]) : f.type = "StreamEnd" => EndedOut(d)

ControlInv == /\ IdleInv /\ EarlyInv /\ NoEarlyFrame /\ OpenInv
              /\ StreamerInv /\ PutInv /\ OffInv /\ EndInv

-----------------------------------------------------------------------------
(* The control part is inductive *)

Unserved == handler \in {"none", "spawned"}

\* The streamer's program counter belongs to the handler and the streamer.
LEMMA DownSender ==
    ASSUME TypeOK, [Next]_vars, ~HandlerOk, ~Streamer
    PROVE  sender'["down"] = sender["down"] /\ sent'["down"] = sent["down"]
<1>1. sender'["down"] = sender["down"]
    BY Zenon, SenderSteps DEF Establish, StreamOut, OutLoop, OutTake, OutEnd,
       OutRefused, OutAcquire, OutSend, OutSendNull, OutFinish, OutRetire, Goto,
       TypeOK, Dirs
<1>2. sent'["down"] = sent["down"]
    BY CountSteps DEF Streamer, OutSend, OutSendNull, TypeOK, Dirs
<1> QED BY Zenon, <1>1, <1>2

\* The kind of a stream never changes.
LEMMA KindFixed == ASSUME TypeOK, [Next]_vars PROVE kind' = kind
<1>1. CASE EstablishFailed \/ Abandon \/ WatchClose \/ RecvError
    BY Zenon, <1>1 DEF EstablishFailed, Abandon, WatchClose, RecvError, ClientClose,
       kind, TypeOK, RequestContexts
<1>2. CASE \/ OpenStream \/ OutFinish \/ OutRetire \/ RecvValue \/ RecvEnd \/ RecvEndRetire
    BY Zenon, <1>2 DEF OpenStream, OutFinish, OutRetire, RecvValue, RecvEnd,
       RecvEndRetire, kind, TypeOK, RequestContexts
<1> QED BY Zenon, <1>1, <1>2, ContextSteps DEF kind

\* Steps that touch the client's pump or its context's done flag.
ClientPumpStep ==
    \/ EstablishFailed \/ Abandon \/ WatchClose \/ OutFinish \/ RecvReady
    \/ RecvValue \/ RecvEnd \/ RecvError \/ PumpStep("down")

\* Only streamOut numbers the values sent to the server.
LEMMA UpSent == ASSUME TypeOK, [Next]_vars, ~OutSend PROVE sent'["up"] = sent["up"]
BY Zenon, CountSteps DEF StreamerSend, StreamerSendNull, TypeOK, Dirs

\* A frame that is under way was so before, or has just been sent.
LEMMA UnderNew ==
    ASSUME TypeOK, [Next]_vars
    PROVE  /\ \A f \in Under(wire'["up"]) : f \in Under(wire["up"]) \/ SentUp(f)
           /\ \A f \in Under(wire'["down"]) : f \in Under(wire["down"]) \/ SentDown(f)
<1>0. wire["up"] \in Seq(Frames) /\ wire["down"] \in Seq(Frames)
    BY Zenon DEF Dirs, TypeOK
<1>1. ASSUME NEW f \in Under(wire'["up"]) PROVE f \in Under(wire["up"]) \/ SentUp(f)
  <2>1. CASE wire'["up"] = wire["up"]
      BY Zenon, <2>1
  <2>2. ASSUME NEW g \in Frames, SentUp(g), wire'["up"] = Append(wire["up"], g)
        PROVE  f \in Under(wire["up"]) \/ SentUp(f)
      BY <1>0, <2>2, UnderWay
  <2>3. CASE wire["up"] # << >> /\ wire'["up"] = Tail(wire["up"])
      BY Zenon, <1>0, <2>3, UnderWay
  <2> QED BY Zenon, <2>1, <2>2, <2>3, UpFrames DEF UpFrame
<1>2. ASSUME NEW f \in Under(wire'["down"]) PROVE f \in Under(wire["down"]) \/ SentDown(f)
  <2>1. CASE wire'["down"] = wire["down"]
      BY Zenon, <2>1
  <2>2. ASSUME NEW g \in Frames, SentDown(g), wire'["down"] = Append(wire["down"], g)
        PROVE  f \in Under(wire["down"]) \/ SentDown(f)
      BY <1>0, <2>2, UnderWay
  <2>3. CASE wire["down"] # << >> /\ wire'["down"] = Tail(wire["down"])
      BY Zenon, <1>0, <2>3, UnderWay
  <2> QED BY Zenon, <2>1, <2>2, <2>3, DownFrames DEF DownFrame
<1> QED BY Zenon, <1>1, <1>2

\* streamOut is started by Establish and moves by itself.
LEMMA UpSender ==
    ASSUME TypeOK, [Next]_vars, ~Establish, ~StreamOut
    PROVE  sender'["up"] = sender["up"]
BY Zenon, SenderSteps DEF HandlerOk, Streamer, StreamerReady, StreamerTake, StreamerEnd,
   StreamerRefused, StreamerAcquire, StreamerSend, StreamerSendNull, Goto, TypeOK, Dirs

\* A sender that has finished does not start again.
LEMMA EndedKept ==
    ASSUME TypeOK, StreamerInv, OffInv, [Next]_vars, NEW d \in Dirs, EndedOut(d)
    PROVE  EndedOut(d)' /\ sent'[d] = sent[d]
<1>0. "up" \in Dirs /\ "down" \in Dirs
    BY DEF Dirs
<1>1. CASE d = "down"
  <2>1. sender["down"] = "done"
      BY Zenon, <1>1 DEF EndedOut
  <2>2. ~HandlerOk /\ ~Streamer
      BY Zenon, <2>1 DEF HandlerOk, StreamerInv, Streamer, StreamerReady,
         StreamerTake, StreamerEnd, StreamerRefused, StreamerAcquire, StreamerSend,
         StreamerSendNull
  <2> QED BY Zenon, <1>1, <2>1, <2>2, DownSender DEF EndedOut
<1>2. CASE d = "up"
  <2>1. sender["up"] \in {"finish", "retire", "done"}
      BY Zenon, <1>2 DEF EndedOut
  <2>2. ~Establish /\ ~OutSend
      BY <2>1 DEF OffInv, Establish, OutSend, OutSendNull
  <2>3. sent'["up"] = sent["up"]
      BY Zenon, <2>2, UpSent
  <2>4. sender'["up"] \in {"finish", "retire", "done"}
    <3>1. CASE StreamOut
        BY Zenon, <1>0, <2>1, <3>1 DEF StreamOut, OutLoop, OutTake, OutEnd, OutRefused,
               OutAcquire, OutSend, OutSendNull, OutFinish, OutRetire, Goto, TypeOK
    <3>2. CASE ~StreamOut
        BY <2>1, <2>2, <3>2, UpSender
    <3> QED BY Zenon, <3>1, <3>2
  <2> QED BY <1>2, <2>3, <2>4 DEF EndedOut
<1> QED BY <1>1, <1>2 DEF Dirs

\* The control invariant holds in every reachable state; in particular no frame
\* of a running stream arrives before the handler goroutine has published the
\* request (valueserver/serving_client.go:541-561).
THEOREM ControlCorrect == Spec => [](ControlInv /\ NoEarlyFrame)
\* Sending another frame, and reading one, keep the request first.
<1>OpenSeq.
    ASSUME NEW w \in Seq(Frames)
    PROVE  /\ \A f \in Frames : f.type # "Open" =>
                 /\ OpenAtHead(w) => OpenAtHead(Append(w, f))
                 /\ NoOpen(w) => NoOpen(Append(w, f))
           /\ w # << >> /\ OpenAtHead(w) => OpenAtHead(Tail(w)) /\ NoOpen(Tail(w))
           /\ w # << >> /\ NoOpen(w) => NoOpen(Tail(w))
  <2>1. ASSUME NEW f \in Frames, f.type # "Open"
        PROVE  /\ OpenAtHead(w) => OpenAtHead(Append(w, f))
               /\ NoOpen(w) => NoOpen(Append(w, f))
    <3>1. \A i \in 1..Len(Append(w, f)) :
              (i \in 1..Len(w) /\ Append(w, f)[i] = w[i]) \/ Append(w, f)[i] = f
        OBVIOUS
    <3> QED BY Zenon, <2>1, <3>1 DEF OpenAtHead, NoOpen
  <2>2. ASSUME w # << >> PROVE /\ OpenAtHead(w) => OpenAtHead(Tail(w)) /\ NoOpen(Tail(w))
                               /\ NoOpen(w) => NoOpen(Tail(w))
    <3>1. \A i \in 1..Len(Tail(w)) :
              i + 1 \in 1..Len(w) /\ i + 1 # 1 /\ Tail(w)[i] = w[i + 1]
        BY <2>2
    <3> QED BY <3>1 DEF OpenAtHead, NoOpen
  <2> QED BY <2>1, <2>2
\* Only the request's own goroutine is spawned, and only once.
<1>NextOpenInv.
    TypeOK /\ IdleInv /\ OpenInv /\ [Next]_vars => OpenInv'
  <2> SUFFICES ASSUME TypeOK, IdleInv, OpenInv, [Next]_vars PROVE OpenInv'
      OBVIOUS
  <2> DEFINE w == wire["up"]
  <2>0. w \in Seq(Frames)
      BY Zenon DEF TypeOK, Dirs
  <2>1. ASSUME w # << >>, wire'["up"] = Tail(w)
        PROVE  OpenInv'
      BY Zenon, <2>0, <2>1, <1>OpenSeq DEF OpenInv
  <2>2. CASE ServeOpen \/ ServeBusy
      BY Zenon, <2>1, <2>2, WireStep DEF ServeOpen, ServeBusy, Arrives, TypeOK
  <2>3. CASE ~ServeOpen /\ ~ServeBusy
    <3>1. handler' = "none" <=> handler = "none"
        BY Zenon, <2>3, HandlerSteps DEF Handler, HandlerReject, HandlerStore,
           HandlerGrant, HandlerOk, HandlerError, HandlerPanic
    <3>2. CASE wire'["up"] = w
        BY Zenon, <3>1, <3>2 DEF OpenInv
    <3>3. ASSUME NEW f \in Frames, f.type # "Open", wire'["up"] = Append(w, f)
          PROVE  OpenInv'
        BY Zenon, <2>0, <3>1, <3>3, <1>OpenSeq DEF OpenInv
    <3>4. CASE OpenStream
      <4>1. wire'["up"] = Append(<< >>, Frame("Open", 0)) /\ handler' = "none"
          BY Zenon, <3>1, <3>4, WireStep DEF OpenStream, IdleInv, TypeOK
      <4> QED BY <4>1 DEF OpenInv, OpenAtHead
    <3> QED BY Zenon, <2>1, <3>2, <3>3, <3>4, UpFrames DEF UpFrame, SentUp
  <2> QED BY <2>2, <2>3
\* Nothing but OpenStream leaves the idle state.
<1>NextIdleInv.
    TypeOK /\ IdleInv /\ EarlyInv /\ [Next]_vars => IdleInv'
  <2> SUFFICES ASSUME TypeOK, IdleInv, EarlyInv, [Next]_vars, opener' = "idle"
               PROVE  handler' = "none" /\ wire'["up"] = << >> /\ ~rc'.inMap
      BY DEF IdleInv
  <2>0. opener = "idle"
      BY Zenon, OpenerSteps DEF Opener, OpenStream, Establish, EstablishFailed,
         EstablishTimeout, Abandon
  <2>1. /\ handler = "none" /\ wire["up"] = << >> /\ wire["down"] = << >>
        /\ watcher = "off" /\ ~sr.registered /\ ~rc.inMap
        /\ chan["up"] = << >> /\ chan["down"] = << >>
        /\ sender["up"] = "off" /\ sender["down"] = "off"
        /\ \A d \in Dirs : /\ pump[d].queue = << >> /\ pump[d].hand = << >>
                           /\ ~pump[d].acking
      BY <2>0 DEF IdleInv, EarlyInv, Dirs
  <2>2. ~Watcher /\ ~AppCancel /\ ~AppReceive /\ ~StreamOut /\ ~Opener
      BY Zenon, <2>0, <2>1 DEF Opener, OpenStream, Establish, EstablishFailed,
             EstablishTimeout, Abandon, Watcher, WatchCancel, WatchClose, WatchExit,
             AppCancel, AppReceive, StreamOut, OutLoop, OutTake, OutEnd, OutRefused,
             OutAcquire, OutSend, OutSendNull, OutFinish, OutRetire
  <2>3. ~ServerLoop /\ ~Handler /\ ~HandlerReceive /\ ~Streamer
      BY Zenon, <2>0, <2>1 DEF ServerLoop, ServeOpen, ServeBusy, ServeUnknown,
         ServeCancel, ServeValue, ServeNull, ServeEnd, ServeCredit, Handler,
         HandlerReject, HandlerStore, HandlerGrant, HandlerOk, HandlerError, HandlerPanic,
         HandlerReceive, Streamer, StreamerReady, StreamerTake, StreamerEnd,
         StreamerRefused, StreamerAcquire, StreamerSend, StreamerSendNull, Arrives
  <2>4. ClientLoop => RecvEndRetire
      BY Zenon, <2>1 DEF ClientLoop, RecvUnknown, RecvReady, RecvValue, RecvNull,
         RecvEnd, RecvError, RecvCredit, ClientReads, Arrives
  <2>5. ASSUME NEW d \in Dirs, PumpStep(d) PROVE PumpClose(d)
      BY Zenon, <2>1, <2>5 DEF PumpStep, PumpTake, PumpDeliver, PumpAck, PumpMayPop
  <2>6. RecvEndRetire \/ (\E d \in Dirs : PumpClose(d)) \/ UNCHANGED vars
      BY Zenon, <2>2, <2>3, <2>4, <2>5 DEF Next
  <2>7. CASE RecvEndRetire
      BY <2>1, <2>7 DEF RecvEndRetire, server, TypeOK, RequestContexts
  <2>8. CASE (\E d \in Dirs : PumpClose(d)) \/ UNCHANGED vars
      BY Zenon, <2>1, <2>8 DEF PumpClose, client, server, vars
  <2> QED BY Zenon, <2>6, <2>7, <2>8
\* Until the request is registered only its opening, its cancel and their
\* arrival happen.
<1>NextEarlyInv.
    TypeOK /\ EarlyInv /\ NoEarlyFrame /\ OpenInv /\ [Next]_vars
        => EarlyInv' /\ NoEarlyFrame'
  <2> SUFFICES ASSUME TypeOK, EarlyInv, NoEarlyFrame, OpenInv, [Next]_vars, Unserved'
               PROVE  EarlyInv' /\ NoEarlyFrame'
      BY Zenon DEF EarlyInv, NoEarlyFrame, Unserved
  <2>0. "up" \in Dirs /\ "down" \in Dirs /\ wire["up"] \in Seq(Frames)
      BY DEF TypeOK, Dirs
  <2>1. Unserved
    <3>1. ServeOpen => handler = "none"
        BY <2>0 DEF ServeOpen, Arrives, OpenInv, NoOpen
    <3> QED BY Zenon, <3>1, HandlerSteps DEF Unserved, ServeBusy, Handler,
               HandlerReject, HandlerStore, HandlerGrant, HandlerOk, HandlerError,
               HandlerPanic
  <2>2. /\ wire["down"] = << >> /\ ~sr.registered
        /\ opener # "open" /\ watcher = "off"
        /\ chan["up"] = << >> /\ chan["down"] = << >>
        /\ sender["up"] = "off" /\ sender["down"] = "off"
        /\ \A d \in Dirs : /\ chan[d] = << >> /\ sender[d] = "off"
                           /\ pump[d].queue = << >> /\ pump[d].hand = << >>
                           /\ ~pump[d].acking
        /\ \A i \in 1..Len(wire["up"]) : wire["up"][i].type \in {"Open", "Cancel"}
      BY Zenon, <2>0, <2>1 DEF Unserved, EarlyInv, NoEarlyFrame
  <2>3. /\ ~Watcher /\ ~AppCancel /\ ~AppReceive /\ ~StreamOut /\ ~HandlerReceive
        /\ ~Streamer /\ ~Handler /\ ~ServeBusy
      BY Zenon, <2>1, <2>2 DEF Watcher, WatchCancel, WatchClose, WatchExit, AppCancel,
         AppReceive, StreamOut, OutLoop, OutTake, OutEnd, OutRefused, OutAcquire,
         OutSend, OutSendNull, OutFinish, OutRetire, Handler, HandlerReject,
         HandlerStore, HandlerGrant, HandlerOk, HandlerError, HandlerPanic,
         HandlerReceive, Streamer, StreamerReady, StreamerTake, StreamerEnd,
         StreamerRefused, StreamerAcquire, StreamerSend, StreamerSendNull, ServeBusy,
         Unserved
  <2>4. ClientLoop => RecvEndRetire
      BY Zenon, <2>2 DEF ClientLoop, RecvUnknown, RecvReady, RecvValue, RecvNull,
         RecvEnd, RecvError, RecvCredit, ClientReads, Arrives
  <2>5. ServerLoop => ServeOpen \/ ServeUnknown
      BY <2>2, <2>3 DEF ServerLoop, ServeCancel, ServeValue, ServeNull, ServeEnd,
         ServeCredit
  <2>6. ASSUME NEW d \in Dirs, PumpStep(d) PROVE PumpClose(d)
      BY Zenon, <2>2, <2>6 DEF PumpStep, PumpTake, PumpDeliver, PumpAck, PumpMayPop
  <2>7. Opener => OpenStream \/ EstablishFailed \/ EstablishTimeout \/ Abandon
      BY Zenon, <2>2 DEF Opener, Establish
  <2>8. \/ OpenStream \/ EstablishFailed \/ EstablishTimeout \/ Abandon
        \/ RecvEndRetire \/ ServeOpen \/ ServeUnknown
        \/ (\E d \in Dirs : PumpClose(d)) \/ UNCHANGED vars
      BY Zenon, <2>3, <2>4, <2>5, <2>6, <2>7 DEF Next
  <2>9. /\ chan' = chan /\ sender' = sender /\ sr' = sr /\ watcher' = watcher
        /\ opener' # "open"
      BY Zenon, <2>2, <2>8 DEF OpenStream, EstablishFailed, EstablishTimeout, Abandon,
         RecvEndRetire, ServeOpen, ServeUnknown, PumpClose, vars, flow, client, server
  <2>10. \/ wire' = wire
         \/ wire' = Enqueue("up", Frame("Open", 0)) \/ wire' = Enqueue("up", Frame("Cancel", 0))
         \/ wire["up"] # << >> /\ wire' = Dequeue("up")
      BY Zenon, <2>8 DEF OpenStream, EstablishFailed, EstablishTimeout, Abandon,
         RecvEndRetire, ServeOpen, ServeUnknown, Arrives, PumpClose, vars
  <2>11. wire'["down"] = << >>
      BY Zenon, <2>2, <2>10, WireStep DEF TypeOK
  <2>12. \A i \in 1..Len(wire'["up"]) : wire'["up"][i].type \in {"Open", "Cancel"}
    <3>1. ASSUME NEW f \in Frames, f.type \in {"Open", "Cancel"},
                 wire'["up"] = Append(wire["up"], f), NEW i \in 1..Len(wire'["up"])
          PROVE  wire'["up"][i].type \in {"Open", "Cancel"}
      <4>1. \/ i \in 1..Len(wire["up"]) /\ wire'["up"][i] = wire["up"][i]
            \/ wire'["up"][i] = f
          BY <2>0, <3>1
      <4> QED BY Zenon, <2>2, <3>1, <4>1
    <3>2. ASSUME wire["up"] # << >>, wire'["up"] = Tail(wire["up"]),
                 NEW i \in 1..Len(wire'["up"])
          PROVE  wire'["up"][i].type \in {"Open", "Cancel"}
      <4>1. i + 1 \in 1..Len(wire["up"]) /\ wire'["up"][i] = wire["up"][i + 1]
          BY <2>0, <3>2
      <4> QED BY Zenon, <2>2, <4>1
    <3>3. /\ Frame("Open", 0) \in Frames /\ Frame("Open", 0).type = "Open"
          /\ Frame("Cancel", 0) \in Frames /\ Frame("Cancel", 0).type = "Cancel"
        BY FrameType DEF FrameTypes
    <3>4. \/ wire'["up"] = wire["up"]
          \/ \E f \in Frames : /\ f.type \in {"Open", "Cancel"}
                               /\ wire'["up"] = Append(wire["up"], f)
          \/ wire["up"] # << >> /\ wire'["up"] = Tail(wire["up"])
        BY Zenon, <2>10, <3>3, WireStep DEF TypeOK
    <3> QED BY Zenon, <2>2, <3>1, <3>2, <3>4
  <2>13. \A d \in Dirs : pump'[d].queue = << >> /\ pump'[d].hand = << >> /\ ~pump'[d].acking
    <3>1. \/ pump' = pump
          \/ pump' = [pump EXCEPT !["down"] = ClosePump(StopPump(@))]
          \/ \E d \in Dirs : pump' = [pump EXCEPT ![d] = PumpExit(@)]
        BY Zenon, <2>8 DEF OpenStream, EstablishFailed, EstablishTimeout, Abandon,
           ClientClose, RecvEndRetire, ServeOpen, ServeUnknown, PumpClose, vars, flow
    <3>2. \A d \in Dirs : \A p \in {ClosePump(StopPump(pump[d])), PumpExit(pump[d])} :
              p.queue = << >> /\ p.hand = << >> /\ ~p.acking
        BY Zenon, <2>2 DEF TypeOK, Pump, ClosePump, StopPump, PumpExit
    <3>3. \A d \in Dirs : pump'[d] \in {pump[d], ClosePump(StopPump(pump[d])), PumpExit(pump[d])}
        BY Zenon, <2>0, <3>1 DEF TypeOK
    <3> QED BY Zenon, <2>2, <3>2, <3>3
  <2> QED BY Zenon, <2>2, <2>9, <2>11, <2>12, <2>13 DEF EarlyInv, NoEarlyFrame
\* Only the return of the handler starts the streamer.
<1>NextStreamerInv.
    TypeOK /\ OpenInv /\ StreamerInv /\ [Next]_vars => StreamerInv'
  <2> SUFFICES ASSUME TypeOK, OpenInv, StreamerInv, [Next]_vars PROVE StreamerInv'
      OBVIOUS
  <2>0. "up" \in Dirs /\ "down" \in Dirs
      BY Zenon DEF Dirs
  <2>1. CASE HandlerOk
      BY Zenon, <2>0, <2>1 DEF HandlerOk, StreamerInv, Goto, TypeOK
  <2>2. CASE Streamer
      BY Zenon, <2>0, <2>2 DEF Streamer, StreamerReady, StreamerTake, StreamerEnd,
         StreamerRefused, StreamerAcquire, StreamerSend, StreamerSendNull,
         StreamerInv, Goto, TypeOK, server
  <2>3. CASE ServeOpen
    <3>1. ~NoOpen(wire["up"])
        BY <2>0, <2>3 DEF ServeOpen, Arrives, NoOpen, TypeOK
    <3>2. handler = "none"
        BY <3>1 DEF OpenInv
    <3> QED BY Zenon, <2>3, <3>2 DEF ServeOpen, StreamerInv
  <2>4. CASE ~HandlerOk /\ ~Streamer /\ ~ServeOpen
    <3>1. sender'["down"] = sender["down"] /\ sent'["down"] = sent["down"]
        BY <2>4, DownSender
    <3>2. handler' # "returned" => handler # "returned"
        BY <2>4, HandlerSteps DEF Handler, HandlerReject, HandlerStore, HandlerGrant,
               HandlerError, HandlerPanic, ServeBusy
    <3> QED BY Zenon, <3>1, <3>2 DEF StreamerInv
  <2> QED BY Zenon, <2>1, <2>2, <2>3, <2>4
\* Every other step leaves the client's pump and the context's done alone.
<1>DownPump.
    ASSUME TypeOK, [Next]_vars, ~ClientPumpStep
    PROVE  pump'["down"] = pump["down"] /\ rc'.done = rc.done
  <2> USE <1>DownPump
  <2>1. pump'["down"] = pump["down"]
    <3>1. ASSUME NEW d \in Dirs, PumpStep(d) PROVE pump'["down"] = pump["down"]
      <4>1. d = "up"
          BY <3>1 DEF ClientPumpStep, Dirs
      <4> QED BY Zenon, <3>1, <4>1 DEF PumpStep, PumpTake, PumpDeliver, PumpAck,
                 PumpClose, TypeOK, Dirs
    <3> QED BY Zenon, <3>1, PumpSteps, ServeValueEffect DEF ClientPumpStep, TypeOK, Dirs
  <2>2. rc'.done = rc.done
      BY Zenon, ContextSteps DEF ClientPumpStep, OpenStream, OutRetire, RecvEndRetire,
         TypeOK, RequestContexts
  <2> QED BY Zenon, <2>1, <2>2
\* A put-stream stays without values on its way to the client.
<1>NextPutInv.
    TypeOK /\ StreamerInv /\ PutInv /\ [Next]_vars => PutInv'
  <2> SUFFICES ASSUME TypeOK, StreamerInv, PutInv, [Next]_vars, kind = "put"
               PROVE  /\ sender'["down"] \in {"off", "done"} /\ sent'["down"] = 0
                      /\ \A i \in 1..Len(wire'["down"]) :
                            wire'["down"][i].type \notin {"StreamValue", "StreamEnd"}
                      /\ pump'["down"].queue = << >> /\ pump'["down"].hand = << >>
                      /\ ~pump'["down"].acking
                      /\ rc'.done = pump'["down"].inputEnd
                      /\ pump'["down"].stopped => pump'["down"].inputEnd
      BY Zenon, KindFixed DEF PutInv
  <2>0. /\ "up" \in Dirs /\ "down" \in Dirs /\ ~HasDown
        /\ sender["down"] \in {"off", "done"} /\ sent["down"] = 0
        /\ \A i \in 1..Len(wire["down"]) :
              wire["down"][i].type \notin {"StreamValue", "StreamEnd"}
        /\ pump["down"].queue = << >> /\ pump["down"].hand = << >>
        /\ ~pump["down"].acking /\ rc.done = pump["down"].inputEnd
        /\ pump["down"].stopped => pump["down"].inputEnd
        /\ wire["down"] \in Seq(Frames) /\ pump["down"] \in Pump
      BY Zenon DEF PutInv, Dirs, HasDown, TypeOK
  <2>1. ~Streamer
      BY <2>0 DEF Streamer, StreamerReady, StreamerTake, StreamerEnd,
             StreamerRefused, StreamerAcquire, StreamerSend, StreamerSendNull
  <2>2. ~RecvValue /\ ~RecvEnd
    <3>1. wire["down"] # << >> =>
              Head(wire["down"]).type \notin {"StreamValue", "StreamEnd"}
        BY <2>0
    <3> QED BY Zenon, <3>1 DEF RecvValue, RecvEnd, ClientReads, Arrives
  <2>3. sender'["down"] \in {"off", "done"} /\ sent'["down"] = 0
    <3>1. CASE HandlerOk
        BY Zenon, <2>0, <3>1 DEF HandlerOk, Goto, TypeOK
    <3>2. CASE ~HandlerOk
        BY Zenon, <2>0, <2>1, <3>2, DownSender
    <3> QED BY Zenon, <3>1, <3>2
  <2>4. \A i \in 1..Len(wire'["down"]) :
              wire'["down"][i].type \notin {"StreamValue", "StreamEnd"}
    <3>1. CASE wire'["down"] = wire["down"]
        BY Zenon, <2>0, <3>1
    <3>2. CASE wire["down"] # << >> /\ wire'["down"] = Tail(wire["down"])
      <4>1. \A i \in 1..Len(wire'["down"]) :
                i + 1 \in 1..Len(wire["down"]) /\ wire'["down"][i] = wire["down"][i + 1]
          BY <2>0, <3>2
      <4> QED BY Zenon, <2>0, <4>1
    <3>3. ASSUME NEW f \in Frames, wire'["down"] = Append(wire["down"], f),
                 f.type \notin {"StreamValue", "StreamEnd"}
          PROVE  \A i \in 1..Len(wire'["down"]) :
                     wire'["down"][i].type \notin {"StreamValue", "StreamEnd"}
      <4>1. \A i \in 1..Len(wire'["down"]) :
                \/ i \in 1..Len(wire["down"]) /\ wire'["down"][i] = wire["down"][i]
                \/ wire'["down"][i] = f
          BY <2>0, <3>3
      <4> QED BY Zenon, <2>0, <3>3, <4>1
    <3> QED BY Zenon, <2>1, <3>1, <3>2, <3>3, DownFrames DEF DownFrame, SentDown,
               Streamer
  <2> SUFFICES /\ pump'["down"].queue = << >> /\ pump'["down"].hand = << >>
               /\ ~pump'["down"].acking
               /\ rc'.done = pump'["down"].inputEnd
               /\ pump'["down"].stopped => pump'["down"].inputEnd
      BY Zenon, <2>3, <2>4
  <2>5. CASE EstablishFailed \/ Abandon \/ WatchClose \/ RecvError
    <3>1. pump'["down"] = ClosePump(StopPump(pump["down"])) /\ rc'.done = TRUE
        BY Zenon, <2>0, <2>5 DEF EstablishFailed, Abandon, WatchClose, RecvError,
               ClientClose, TypeOK, RequestContexts
    <3> QED BY Zenon, <2>0, <3>1 DEF ClosePump, StopPump, Pump
  <2>6. CASE OutFinish
    <3>1. pump'["down"] = ClosePump(pump["down"]) /\ rc'.done = TRUE
        BY Zenon, <2>0, <2>6 DEF OutFinish, CloseResult, TypeOK, RequestContexts
    <3> QED BY Zenon, <2>0, <3>1 DEF ClosePump, Pump
  <2>7. CASE RecvReady
      BY Zenon, <2>0, <2>7 DEF RecvReady, client
  <2>8. CASE PumpStep("down")
    <3>1. PumpClose("down")
        BY Zenon, <2>0, <2>8 DEF PumpStep, PumpTake, PumpDeliver, PumpAck, PumpMayPop
    <3>2. pump'["down"] = PumpExit(pump["down"]) /\ rc'.done = rc.done
        BY Zenon, <2>0, <3>1 DEF PumpClose, client, TypeOK
    <3> QED BY Zenon, <2>0, <3>2 DEF PumpExit, Pump
  <2>9. CASE ~ClientPumpStep
      BY Zenon, <2>0, <2>9, <1>DownPump
  <2> QED BY Zenon, <2>2, <2>5, <2>6, <2>7, <2>8, <2>9 DEF ClientPumpStep
\* streamOut does not run before the stream is open.
<1>NextOffInv. TypeOK /\ OffInv /\ [Next]_vars => OffInv'
  <2> SUFFICES ASSUME TypeOK, OffInv, [Next]_vars, opener' # "open"
               PROVE  sender'["up"] = "off"
      BY Zenon DEF OffInv
  <2>1. ~Establish
      BY DEF Establish
  <2>2. opener # "open"
      BY <2>1, OpenerSteps DEF Opener, OpenStream, EstablishFailed, EstablishTimeout,
         Abandon
  <2>3. sender["up"] = "off"
      BY <2>2 DEF OffInv
  <2>4. ~StreamOut
      BY Zenon, <2>3 DEF StreamOut, OutLoop, OutTake, OutEnd, OutRefused, OutAcquire,
         OutSend, OutSendNull, OutFinish, OutRetire
  <2> QED BY Zenon, <2>1, <2>3, <2>4, UpSender
\* The end of a direction is sent when its sender finishes.
<1>NextEndInv.
    TypeOK /\ StreamerInv /\ OffInv /\ EndInv /\ [Next]_vars => EndInv'
  <2> SUFFICES ASSUME TypeOK, StreamerInv, OffInv, EndInv, [Next]_vars, NEW d \in Dirs,
                      NEW f \in Under(wire'[d]), f.type = "StreamEnd"
               PROVE  EndedOut(d)'
      BY Zenon DEF EndInv
  <2>0. "up" \in Dirs /\ "down" \in Dirs /\ wire[d] \in Seq(Frames)
      BY Zenon DEF Dirs, TypeOK
  <2>1. CASE f \in Under(wire[d])
      BY Zenon, <2>1, EndedKept DEF EndInv
  <2>2. CASE OutEnd /\ d = "up"
      BY Zenon, <2>0, <2>2 DEF OutEnd, Goto, EndedOut, TypeOK
  <2>3. CASE StreamerEnd /\ d = "down"
      BY Zenon, <2>0, <2>3 DEF StreamerEnd, Goto, EndedOut, TypeOK
  <2>4. d = "up" => f \in Under(wire[d]) \/ OutEnd
      BY Zenon, UnderNew DEF SentUp
  <2>5. d = "down" => f \in Under(wire[d]) \/ StreamerEnd
      BY UnderNew DEF SentDown
  <2> QED BY Zenon, <2>1, <2>2, <2>3, <2>4, <2>5 DEF Dirs
\* The control invariant holds before the call ...
<1>InitControlInv. Init => ControlInv
  <2> SUFFICES ASSUME Init PROVE ControlInv
      OBVIOUS
  <2>1. "up" \in Dirs /\ "down" \in Dirs
      BY Zenon DEF Dirs
  <2>2. \A d \in Dirs : /\ chan[d] = << >> /\ sender[d] = "off" /\ wire[d] = << >>
                        /\ pump[d].queue = << >> /\ pump[d].hand = << >>
                        /\ ~pump[d].acking /\ ~pump[d].inputEnd /\ ~pump[d].stopped
                        /\ sent[d] = 0
      BY DEF Init, NewStreamPump
  <2>3. opener = "idle" /\ handler = "none" /\ ~rc.inMap /\ ~rc.done /\ ~sr.registered
        /\ watcher = "off"
      BY Zenon DEF Init
  <2>4. IdleInv /\ EarlyInv
      BY Zenon, <2>1, <2>2, <2>3 DEF IdleInv, EarlyInv
  <2>5. NoEarlyFrame /\ OpenInv
      BY <2>1, <2>2, <2>3 DEF NoEarlyFrame, OpenInv, OpenAtHead
  <2>6. rc.done = FALSE /\ pump["down"].inputEnd = FALSE
      BY Zenon, <2>1 DEF Init, NewStreamPump
  <2>7. PutInv
    <3>1. \A i \in 1..Len(wire["down"]) :
              wire["down"][i].type \notin {"StreamValue", "StreamEnd"}
        BY <2>1, <2>2
    <3>2. /\ sender["down"] = "off" /\ sent["down"] = 0 /\ pump["down"].queue = << >>
          /\ pump["down"].hand = << >> /\ ~pump["down"].acking /\ ~pump["down"].stopped
        BY Zenon, <2>1, <2>2
    <3> QED BY <2>6, <3>1, <3>2, Zenon DEF PutInv
  <2>8. StreamerInv
      BY Zenon, <2>1, <2>2, <2>3 DEF StreamerInv
  <2>9. OffInv /\ EndInv
      BY <2>1, <2>2 DEF OffInv, EndInv, Under
  <2> QED BY Zenon, <2>4, <2>5, <2>7, <2>8, <2>9 DEF ControlInv
\* ... and is kept by every step of every goroutine.
<1>NextControlInv. TypeOK /\ ControlInv /\ [Next]_vars => ControlInv'
  BY Zenon, <1>NextIdleInv, <1>NextEarlyInv, <1>NextOpenInv, <1>NextStreamerInv,
     <1>NextPutInv, <1>NextOffInv,
     <1>NextEndInv DEF ControlInv
<1>1. TypeOK /\ ControlInv /\ [Next]_vars => ControlInv'
    BY <1>NextControlInv
<1>2. ControlInv => NoEarlyFrame
    BY Zenon DEF ControlInv
<1> QED BY <1>1, <1>2, <1>InitControlInv, TypeCorrect, PTL DEF Spec

-----------------------------------------------------------------------------
(* Order *)

\* The receiver of d has a request to give a frame to, or will have one.
Mapped(d) == IF d = "down" THEN rc.inMap \/ opener = "idle"
                           ELSE sr.registered \/ handler \in {"none", "spawned"}

\* The receiver of d takes in what arrives.
Live(d) == Accepts(pump[d]) /\ Mapped(d)

\* The number of the last data frame sent on d; -1 until StreamReady is sent.
LastOut(d) == IF d = "down" /\ sender["down"] \in {"off", "ready"} THEN -1 ELSE sent[d]

\* The number of the last value pushed on d.
LastIn(d) == Last(got[d], chan[d], pump[d])

OrderInv(d) ==
    /\ Ordered(got[d], chan[d], pump[d])
    /\ Len(chan[d]) <= ChanCap[d]
    /\ got[d] >= (IF d = "down" THEN -1 ELSE 0)
    /\ Live(d) => Carries(wire[d], LastIn(d), LastOut(d))

-----------------------------------------------------------------------------
(* What a step does to one direction *)

\* A frame that carries no number.
Plain(f) == f.type \notin DataTypes /\ (f.type = "StreamEnd" => f.n = 0)

\* Only frames that carry no number are sent or received on d.
WirePlain(d) ==
    \/ wire'[d] = wire[d]
    \/ \E f \in Frames : Plain(f) /\ wire'[d] = Append(wire[d], f)
    \/ /\ wire[d] # << >> /\ Head(wire[d]).type \notin DataTypes
       /\ wire'[d] = Tail(wire[d])

\* The receiver of d keeps what it holds in order and is pushed nothing; only a
\* stopped pump lets go of a value.
Kept(d) ==
    /\ Ordered(got'[d], chan'[d], pump'[d])
    /\ Len(chan'[d]) <= ChanCap[d]
    /\ got'[d] >= got[d]
    /\ pump[d].stopped => pump'[d].stopped
    /\ pump[d].inputEnd => pump'[d].inputEnd
    /\ LastIn(d)' <= LastIn(d)
    /\ ~pump'[d].stopped => LastIn(d)' = LastIn(d)

\* The types the arithmetic below needs.
LEMMA OrderTypes ==
    ASSUME TypeOK, NEW d \in Dirs
    PROVE  /\ LastIn(d) \in Int /\ LastOut(d) \in Int /\ got[d] \in Int
           /\ chan[d] \in Seq(Int) /\ pump[d] \in Pump /\ wire[d] \in Seq(Frames)
           /\ sent[d] \in Nat /\ ChanCap[d] \in Nat /\ ChanCap[d] >= 1
           /\ Window[d] \in Nat /\ Window[d] >= 1
<1>1. /\ got[d] \in Int /\ chan[d] \in Seq(Int) /\ pump[d] \in Pump
      /\ wire[d] \in Seq(Frames) /\ sent[d] \in Nat
    BY DEF TypeOK
<1>2. /\ ChanCap[d] \in Nat /\ ChanCap[d] >= 1
      /\ Window[d] \in Nat /\ Window[d] >= 1
    BY ChanCapAssumption, WindowAssumption
<1>3. pump[d].queue \in Seq(Int)
    BY Zenon, <1>1 DEF Pump
<1>4. LastIn(d) \in Int
  <2>1. Len(chan[d]) \in Int /\ Len(pump[d].queue) \in Int /\ Held(pump[d]) \in Int
      BY <1>1, <1>3 DEF Held
  <2> QED BY SMTT(20), <1>1, <2>1 DEF LastIn, Last
<1>5. LastOut(d) \in Int
    BY <1>1 DEF LastOut, Dirs
<1> QED BY Zenon, <1>1, <1>2, <1>4, <1>5

\* A step that pushes nothing and sends no number preserves the order.
LEMMA OrderKept ==
    ASSUME TypeOK, NEW d \in Dirs, OrderInv(d), TypeOK', Kept(d),
           Mapped(d)' => Mapped(d),
           Live(d) => WirePlain(d), LastOut(d)' = LastOut(d)
    PROVE  OrderInv(d)'
\* Frames without a number leave the numbers under way alone.
<1>CarriesPlain.
    ASSUME NEW lo \in Int, NEW hi \in Int,
           Carries(wire[d], lo, hi), WirePlain(d)
    PROVE  Carries(wire'[d], lo, hi)
  <2> USE <1>CarriesPlain
  <2>0. wire[d] \in Seq(Frames)
      BY Zenon, OrderTypes
  <2>1. CASE wire'[d] = wire[d]
      BY Zenon, <2>1
  <2>2. ASSUME NEW f \in Frames, Plain(f), wire'[d] = Append(wire[d], f)
        PROVE  Carries(wire'[d], lo, hi)
      BY Zenon, <2>0, <2>2, CarriesOther DEF Plain
  <2>3. CASE /\ wire[d] # << >> /\ Head(wire[d]).type \notin DataTypes
             /\ wire'[d] = Tail(wire[d])
      BY Zenon, <2>0, <2>3, CarriesTail
  <2> QED BY Zenon, <2>1, <2>2, <2>3 DEF WirePlain
<1>1. LastIn(d) \in Int /\ LastOut(d) \in Int
    BY Zenon, OrderTypes
<1>2. Live(d)' => Carries(wire'[d], LastIn(d)', LastOut(d)')
  <2> SUFFICES ASSUME Live(d)' PROVE Carries(wire'[d], LastIn(d)', LastOut(d)')
      BY Zenon
  <2>1. Live(d) /\ LastIn(d)' = LastIn(d)
      BY DEF Live, Kept, Accepts
  <2>2. Carries(wire'[d], LastIn(d), LastOut(d))
      BY Zenon, <1>1, <2>1, <1>CarriesPlain DEF OrderInv
  <2> QED BY Zenon, <2>1, <2>2
<1>3. got[d] \in Int /\ got'[d] \in Int /\ got'[d] >= got[d]
      /\ got[d] >= (IF d = "down" THEN -1 ELSE 0)
    BY Zenon DEF TypeOK, OrderInv, Kept
<1>4. got'[d] >= (IF d = "down" THEN -1 ELSE 0)
    BY <1>3
<1> QED BY Zenon, <1>2, <1>4 DEF OrderInv, Kept

\* Steps that leave the receiver of d alone, or only end its pump.
LEMMA KeptEnds ==
    ASSUME TypeOK, NEW d \in Dirs, OrderInv(d),
           got'[d] = got[d], chan'[d] = chan[d],
           \/ pump'[d] = pump[d]
           \/ pump'[d] = ClosePump(pump[d])
           \/ pump'[d] = StopPump(pump[d])
           \/ pump'[d] = ClosePump(StopPump(pump[d]))
    PROVE  Kept(d)
<1> DEFINE g == got[d]
           c == chan[d]
           p == pump[d]
<1>1. g \in Int /\ c \in Seq(Int) /\ p \in Pump /\ StopPump(p) \in Pump
    BY Zenon, OrderTypes, PumpTypes
<1>2. Ordered(g, c, p) /\ Len(c) <= ChanCap[d]
    BY Zenon DEF OrderInv
<1>3. g >= g /\ LastIn(d) <= LastIn(d)
    BY OrderTypes
<1>4. /\ Ordered(g, c, ClosePump(p)) /\ Last(g, c, ClosePump(p)) = LastIn(d)
      /\ Ordered(g, c, StopPump(p)) /\ Last(g, c, StopPump(p)) = LastIn(d)
    BY Zenon, <1>1, <1>2, CloseOrdered DEF LastIn
<1>5. /\ Ordered(g, c, ClosePump(StopPump(p)))
      /\ Last(g, c, ClosePump(StopPump(p))) = LastIn(d)
    BY Zenon, <1>1, <1>4, CloseOrdered
<1>6. /\ ClosePump(p).inputEnd /\ ClosePump(p).stopped = p.stopped
      /\ StopPump(p).stopped /\ StopPump(p).inputEnd = p.inputEnd
      /\ ClosePump(StopPump(p)).inputEnd
      /\ ClosePump(StopPump(p)).stopped = StopPump(p).stopped
    BY Zenon, <1>1, PumpFlags
<1>7. /\ Ordered(g, c, pump'[d]) /\ Last(g, c, pump'[d]) = LastIn(d)
      /\ p.stopped => pump'[d].stopped
      /\ p.inputEnd => pump'[d].inputEnd
    BY Zenon, <1>2, <1>4, <1>5, <1>6 DEF LastIn
<1>8. LastIn(d)' = Last(g, c, pump'[d])
    BY Zenon DEF LastIn
<1> QED BY Zenon, <1>2, <1>3, <1>7, <1>8 DEF Kept

\* The pump's goroutine keeps the order.
LEMMA KeptPump ==
    ASSUME TypeOK, NEW d \in Dirs, OrderInv(d), PumpStep(d)
    PROVE  Kept(d)
<1> DEFINE g == got[d]
           c == chan[d]
           p == pump[d]
<1>1. g \in Int /\ c \in Seq(Int) /\ p \in Pump
    BY Zenon, OrderTypes
<1>2. Ordered(g, c, p) /\ Len(c) <= ChanCap[d]
    BY Zenon DEF OrderInv
<1>3. g >= g /\ LastIn(d) <= LastIn(d)
    BY OrderTypes
<1>4. got'[d] = g /\ LastIn(d)' = Last(g, chan'[d], pump'[d])
    BY Zenon DEF PumpStep, PumpTake, PumpDeliver, PumpAck, PumpClose, LastIn
<1>5. \A q \in {PumpPop(p), PumpSent(p), PumpAcked(p), PumpExit(p)} :
          q.stopped = p.stopped /\ q.inputEnd = p.inputEnd
    BY Zenon, <1>1, PumpFlags
<1>6. CASE PumpTake(d)
  <2>1. PumpMayPop(p) /\ pump'[d] = PumpPop(p) /\ chan'[d] = c
      BY <1>6 DEF PumpTake, TypeOK
  <2>2. Ordered(g, c, PumpPop(p)) /\ Last(g, c, PumpPop(p)) = LastIn(d)
      BY Zenon, <1>1, <1>2, <2>1, PopOrdered DEF LastIn
  <2> QED BY Zenon, <1>2, <1>3, <1>4, <1>5, <2>1, <2>2 DEF Kept
<1>7. CASE PumpDeliver(d)
  <2>1. /\ p.hand # << >> /\ pump'[d] = PumpSent(p)
        /\ chan'[d] = Append(c, Head(p.hand)) /\ Len(c) < ChanCap[d]
      BY <1>7 DEF PumpDeliver, TypeOK
  <2>2. /\ Ordered(g, chan'[d], PumpSent(p)) /\ Last(g, chan'[d], PumpSent(p)) = LastIn(d)
        /\ Len(chan'[d]) = Len(c) + 1
      BY Zenon, <1>1, <1>2, <2>1, DeliverOrdered DEF LastIn
  <2>3. Len(c) + 1 <= ChanCap[d]
    <3>1. Len(c) \in Nat /\ ChanCap[d] \in Nat
        BY <1>1, OrderTypes
    <3> QED BY SMTT(20), <2>1, <3>1
  <2> QED BY Zenon, <1>3, <1>4, <1>5, <2>1, <2>2, <2>3 DEF Kept
<1>8. CASE PumpAck(d)
  <2>1. pump'[d] = PumpAcked(p) /\ chan'[d] = c
      BY <1>8, PumpAckEffect DEF TypeOK
  <2>2. Ordered(g, c, PumpAcked(p)) /\ Last(g, c, PumpAcked(p)) = LastIn(d)
      BY Zenon, <1>1, <1>2, AckOrdered DEF LastIn
  <2> QED BY Zenon, <1>2, <1>3, <1>4, <1>5, <2>1, <2>2 DEF Kept
<1>9. CASE PumpClose(d)
  <2>1. PumpMayExit(p) /\ pump'[d] = PumpExit(p) /\ chan'[d] = c
      BY <1>9 DEF PumpClose, TypeOK
  <2>2. /\ Ordered(g, c, PumpExit(p)) /\ Last(g, c, PumpExit(p)) <= LastIn(d)
        /\ ~p.stopped => Last(g, c, PumpExit(p)) = LastIn(d)
      BY Zenon, <1>1, <1>2, <2>1, ExitOrdered DEF LastIn
  <2> QED BY Zenon, <1>2, <1>3, <1>4, <1>5, <2>1, <2>2 DEF Kept
<1> QED BY Zenon, <1>6, <1>7, <1>8, <1>9 DEF PumpStep

\* So does the application that reads the channel.
LEMMA KeptTake ==
    ASSUME TypeOK, NEW d \in Dirs, OrderInv(d), chan[d] # << >>,
           got'[d] = Head(chan[d]), chan'[d] = Tail(chan[d]), pump'[d] = pump[d]
    PROVE  Kept(d) /\ got'[d] = got[d] + 1
<1> DEFINE g == got[d]
           c == chan[d]
           p == pump[d]
<1>1. g \in Int /\ c \in Seq(Int) /\ p \in Pump
    BY Zenon, OrderTypes
<1>2. Ordered(g, c, p) /\ Len(c) <= ChanCap[d]
    BY Zenon DEF OrderInv
<1>3. /\ Head(c) = g + 1 /\ Len(Tail(c)) = Len(c) - 1 /\ Ordered(Head(c), Tail(c), p)
      /\ Last(Head(c), Tail(c), p) = LastIn(d)
    BY Zenon, <1>1, <1>2, TakeOrdered DEF LastIn
<1>4. g + 1 >= g /\ Len(c) - 1 <= ChanCap[d] /\ LastIn(d) <= LastIn(d)
  <2>1. Len(c) \in Nat /\ ChanCap[d] \in Nat /\ LastIn(d) \in Int
      BY <1>1, OrderTypes
  <2> HIDE DEF g, c
  <2> QED BY SMTT(20), <1>1, <1>2, <2>1
<1>5. LastIn(d)' = Last(Head(c), Tail(c), p)
    BY Zenon DEF LastIn
<1> QED BY Zenon, <1>3, <1>4, <1>5 DEF Kept

\* The numbered frame at the head of the wire continues what the pump holds.
LEMMA ArrivalOrdered ==
    ASSUME TypeOK, NEW d \in Dirs, OrderInv(d), Mapped(d), wire[d] # << >>,
           \/ Head(wire[d]).type \in DataTypes
           \/ Head(wire[d]).type = "StreamEnd" /\ Head(wire[d]).n # 0
    PROVE  LET n == Head(wire[d]).n
               p == Push(pump[d], Window[d], n)
           IN  /\ n \in Int /\ p \in Pump /\ Ordered(got[d], chan[d], p)
               /\ Accepts(p) => PushAccepted(pump[d], Window[d])
               /\ PushAccepted(pump[d], Window[d])
                    => Accepts(pump[d]) /\ Last(got[d], chan[d], p) = n
               /\ ~PushAccepted(pump[d], Window[d])
                    => Last(got[d], chan[d], p) = LastIn(d)
               /\ Accepts(pump[d]) => n = LastIn(d) + 1
               /\ Accepts(pump[d]) /\ Head(wire[d]).type \in DataTypes
                    => n <= LastOut(d) /\ Carries(Tail(wire[d]), n, LastOut(d))
<1> DEFINE n == Head(wire[d]).n
           p == Push(pump[d], Window[d], n)
<1>1. /\ got[d] \in Int /\ chan[d] \in Seq(Int) /\ pump[d] \in Pump
      /\ wire[d] \in Seq(Frames) /\ LastIn(d) \in Int /\ LastOut(d) \in Int
      /\ Window[d] \in Nat
    BY Zenon, OrderTypes
<1>2. n \in Int
  <2>1. Head(wire[d]) \in Frames
      BY <1>1
  <2>2. n \in Nat
      BY Zenon, <2>1 DEF Frames
  <2> QED BY SMTT(20), <2>2
<1>3. p \in Pump
    BY Zenon, <1>1, <1>2, PumpTypes
<1>4. ASSUME Accepts(pump[d])
      PROVE  /\ n = LastIn(d) + 1
             /\ Head(wire[d]).type \in DataTypes
                  => n <= LastOut(d) /\ Carries(Tail(wire[d]), n, LastOut(d))
  <2>1. Carries(wire[d], LastIn(d), LastOut(d))
      BY Zenon, <1>4 DEF OrderInv, Live
  <2> QED BY <1>1, <2>1, CarriesTail
<1>5. Ordered(got[d], chan[d], pump[d])
    BY DEF OrderInv
<1> HIDE DEF n
<1>6. /\ Ordered(got[d], chan[d], p)
      /\ Accepts(p) => PushAccepted(pump[d], Window[d])
      /\ PushAccepted(pump[d], Window[d])
           => Accepts(pump[d]) /\ Last(got[d], chan[d], p) = n
      /\ ~PushAccepted(pump[d], Window[d]) => Last(got[d], chan[d], p) = LastIn(d)
    BY Zenon, <1>1, <1>2, <1>4, <1>5, PushOrdered DEF LastIn
<1> QED BY Zenon, <1>2, <1>3, <1>4, <1>6 DEF n

-----------------------------------------------------------------------------
(* Towards the server *)

\* A request that has left the map of the client or of the server does not come
\* back: only sendRequest and newServingRequest put it there.
LEMMA MappedDown == ASSUME TypeOK, [Next]_vars, Mapped("down")' PROVE Mapped("down")
<1>1. opener' = "idle" => opener = "idle"
    BY OpenerSteps DEF Opener, OpenStream, Establish, EstablishFailed, EstablishTimeout,
       Abandon
<1>2. CASE OpenStream
    BY Zenon, <1>2 DEF OpenStream, Mapped
<1>3. CASE EstablishFailed \/ Abandon \/ WatchClose \/ RecvError
  <2>1. rc'.inMap => rc.inMap
      BY Zenon, <1>3 DEF EstablishFailed, Abandon, WatchClose, RecvError, ClientClose,
         TypeOK, RequestContexts
  <2> QED BY <1>1, <2>1 DEF Mapped
<1>4. CASE OutFinish \/ OutRetire \/ RecvValue \/ RecvEnd \/ RecvEndRetire
  <2>1. rc'.inMap => rc.inMap
      BY Zenon, <1>4 DEF OutFinish, OutRetire, RecvValue, RecvEnd, RecvEndRetire,
         TypeOK, RequestContexts
  <2> QED BY <1>1, <2>1 DEF Mapped
<1> QED BY Zenon, <1>1, <1>2, <1>3, <1>4, ContextSteps DEF Mapped

\* The server registers the request once, after it was sent.
LEMMA MappedUp ==
    ASSUME TypeOK, OpenInv, [Next]_vars, Mapped("up")' PROVE Mapped("up")
<1>1. CASE ServeOpen \/ ServeBusy
  <2>1. ~NoOpen(wire["up"])
      BY <1>1 DEF ServeOpen, ServeBusy, Arrives, NoOpen, TypeOK, Dirs
  <2> QED BY Zenon, <2>1 DEF OpenInv, Mapped
<1>2. CASE ~ServeOpen /\ ~ServeBusy
  <2>1. handler' \in {"none", "spawned"} => handler \in {"none", "spawned"}
      BY Zenon, <1>2, HandlerSteps DEF Handler, HandlerReject, HandlerStore,
         HandlerGrant, HandlerOk, HandlerError, HandlerPanic
  <2>2. sr'.registered => sr.registered \/ HandlerStore
      BY ServingSteps DEF ServeCancel, ServeValue, ServeEnd, HandlerError, StreamerEnd,
         StreamerRefused, ServerClose
  <2> QED BY Zenon, <2>1, <2>2 DEF HandlerStore, Mapped
<1> QED BY Zenon, <1>1, <1>2

\* What the server holds of the client's stream: closed, taken by the handler or
\* moved by the pump's goroutine, unless a value arrives.
LEMMA UpIn ==
    ASSUME TypeOK, OrderInv("up"), [Next]_vars, ~ServeValue
    PROVE  Kept("up") /\ (HandlerReceive \/ got'["up"] = got["up"])
<1>0. "up" \in Dirs /\ "down" \in Dirs
    BY Zenon DEF Dirs
<1>1. CASE HandlerReceive
  <2>1. /\ chan["up"] # << >> /\ got'["up"] = Head(chan["up"])
        /\ chan'["up"] = Tail(chan["up"]) /\ pump'["up"] = pump["up"]
      BY Zenon, <1>0, <1>1 DEF HandlerReceive, TypeOK
  <2> QED BY Zenon, <1>0, <1>1, <2>1, KeptTake
<1>2. CASE PumpStep("up")
  <2>1. got' = got
      BY Zenon, <1>2 DEF PumpStep, PumpTake, PumpDeliver, PumpAck, PumpClose
  <2> QED BY Zenon, <1>0, <1>2, <2>1, KeptPump
<1>3. CASE ~HandlerReceive /\ ~PumpStep("up")
  <2>1. ASSUME NEW d \in Dirs, PumpStep(d)
        PROVE  /\ got'["up"] = got["up"] /\ chan'["up"] = chan["up"]
               /\ pump'["up"] = pump["up"]
    <3>1. d = "down"
        BY Zenon, <1>3, <2>1 DEF Dirs
    <3> QED BY Zenon, <1>0, <2>1, <3>1 DEF PumpStep, PumpTake, PumpDeliver, PumpAck,
           PumpClose, TypeOK
  <2>2. got'["up"] = got["up"] /\ chan'["up"] = chan["up"]
      BY Zenon, <1>0, <1>3, <2>1, ChannelSteps DEF Establish, AppReceive, RecvReady,
         PumpStep, TypeOK
  <2>3. \/ pump'["up"] = pump["up"]
        \/ pump'["up"] = StopPump(pump["up"]) \/ pump'["up"] = ClosePump(pump["up"])
    <3>1. CASE RecvReady \/ RecvValue \/ RecvEnd
        BY Zenon, <1>0, <3>1 DEF RecvReady, RecvValue, RecvEnd, TypeOK
    <3> QED BY Zenon, <1>0, <2>1, <3>1, PumpSteps DEF TypeOK
  <2> QED BY Zenon, <1>0, <2>2, <2>3, KeptEnds
<1> QED BY Zenon, <1>1, <1>2, <1>3

\* The order of the values that go to the server is kept by every step.
LEMMA NextOrderUp ==
    TypeOK /\ TypeOK' /\ ControlInv /\ OrderInv("up") /\ [Next]_vars => OrderInv("up")'
\* streamOut alone sends numbers to the server; while the request may be
\* registered, only a stream value arriving takes one away.
<1>UpWire.
    ASSUME TypeOK, NoEarlyFrame, Mapped("up"), [Next]_vars, ~ServeValue, ~OutSend
    PROVE  WirePlain("up")
  <2> USE <1>UpWire
  <2>1. ASSUME NEW f \in Frames, SentUp(f), wire'["up"] = Append(wire["up"], f)
        PROVE  WirePlain("up")
      BY Zenon, <2>1 DEF SentUp, Plain, WirePlain
  <2>2. ASSUME wire["up"] # << >>, wire'["up"] = Tail(wire["up"]), ReadUp(Head(wire["up"]))
        PROVE  WirePlain("up")
    <3>1. CASE ServeUnknown
      <4>1. Head(wire["up"]).type \in {"Open", "Cancel"}
          BY <2>2, <3>1 DEF ServeUnknown, NoEarlyFrame, Mapped, TypeOK, Dirs
      <4> QED BY Zenon, <2>2, <4>1 DEF WirePlain, DataTypes
    <3> QED BY Zenon, <2>2, <3>1 DEF ReadUp, WirePlain
  <2> QED BY Zenon, <2>1, <2>2, UpFrames DEF UpFrame, WirePlain
<1> SUFFICES ASSUME TypeOK, TypeOK', ControlInv, OrderInv("up"), [Next]_vars
             PROVE  OrderInv("up")'
    BY Zenon
<1>0. /\ "up" \in Dirs /\ "down" \in Dirs /\ NoEarlyFrame /\ OpenInv
      /\ got["up"] \in Int /\ LastIn("up") \in Int /\ LastOut("up") \in Int
    BY Zenon, OrderTypes DEF Dirs, ControlInv
<1>1. Mapped("up")' => Mapped("up")
    BY Zenon, <1>0, MappedUp
<1>2. ~OutSend => LastOut("up")' = LastOut("up")
    BY Zenon, UpSent DEF LastOut
<1>3. ~OutSend /\ ~ServeValue => (Live("up") => WirePlain("up"))
    BY Zenon, <1>0, <1>UpWire DEF Live
<1>4. ~OutSend /\ ~ServeValue /\ Kept("up") => OrderInv("up")'
    BY Zenon, <1>0, <1>1, <1>2, <1>3, OrderKept
<1>5. CASE ServeValue
  <2> DEFINE n == Head(wire["up"]).n
             p == Push(pump["up"], Window["up"], n)
  <2>1. /\ wire["up"] # << >> /\ Head(wire["up"]).type \in DataTypes
        /\ Mapped("up") /\ wire'["up"] = Tail(wire["up"])
        /\ got'["up"] = got["up"] /\ chan'["up"] = chan["up"]
        /\ sent'["up"] = sent["up"]
        /\ p.overflow => pump'["up"] = StopPump(p)
        /\ ~p.overflow => pump'["up"] = p
      BY Zenon, <1>5, ServeValueEffect DEF Mapped, DataTypes
  <2>2. /\ p \in Pump /\ Ordered(got["up"], chan["up"], p)
        /\ Accepts(p) => Accepts(pump["up"]) /\ Last(got["up"], chan["up"], p) = n
        /\ Accepts(pump["up"]) => Carries(Tail(wire["up"]), n, LastOut("up"))
      BY Zenon, <1>0, <2>1, ArrivalOrdered
  <2>3. LastOut("up")' = LastOut("up")
      BY Zenon, <2>1 DEF LastOut
  <2> HIDE DEF p, n
  <2>4. CASE p.overflow
    <3>1. Ordered(got["up"], chan["up"], StopPump(p)) /\ ~Accepts(StopPump(p))
        BY Zenon, <1>0, <2>2, CloseOrdered DEF TypeOK
    <3> QED BY Zenon, <2>1, <2>4, <3>1 DEF OrderInv, Live
  <2>5. CASE ~p.overflow
      BY Zenon, <2>1, <2>2, <2>3, <2>5 DEF OrderInv, Live, LastIn
  <2> QED BY Zenon, <2>4, <2>5
<1>6. CASE OutSend
  <2>1. /\ got'["up"] = got["up"] /\ chan'["up"] = chan["up"] /\ pump'["up"] = pump["up"]
        /\ sent'["up"] = sent["up"] + 1
        /\ wire'["up"] = Append(wire["up"], Frame("StreamValue", sent["up"] + 1))
      BY Zenon, <1>0, <1>6, WireStep DEF OutSend, OutSendNull, flow, TypeOK
  <2>2. ASSUME Live("up")' PROVE Carries(wire'["up"], LastIn("up")', LastOut("up")')
    <3>1. Carries(wire["up"], LastIn("up"), LastOut("up"))
        BY Zenon, <1>1, <2>1, <2>2 DEF OrderInv, Live
    <3>2. LET f == Frame("StreamValue", sent["up"] + 1)
          IN  /\ f \in Frames /\ f.type = "StreamValue" /\ f.n = sent["up"] + 1
      <4>1. sent["up"] + 1 \in Nat
          BY <1>0, OrderTypes
      <4> QED BY Zenon, <4>1, FrameType DEF FrameTypes
    <3>3. LastOut("up") = sent["up"] /\ LastOut("up")' = sent["up"] + 1
          /\ LastIn("up")' = LastIn("up")
        BY Zenon, <2>1 DEF LastOut, LastIn
    <3>4. \A g \in Under(wire["up"]) : g.type # "StreamEnd"
        BY Zenon, <1>0, <1>6 DEF ControlInv, EndInv, EndedOut, OutSend, OutSendNull
    <3>5. sent["up"] + 1 # 0 /\ wire["up"] \in Seq(Frames)
      <4>1. sent["up"] \in Nat /\ wire["up"] \in Seq(Frames)
          BY Zenon, <1>0, OrderTypes
      <4> QED BY <4>1
    <3> HIDE DEF Frame
    <3> QED BY Zenon, <1>0, <2>1, <3>1, <3>2, <3>3, <3>4, <3>5, CarriesData
               DEF DataTypes
  <2> QED BY Zenon, <2>1, <2>2 DEF OrderInv
<1>7. CASE ~ServeValue /\ ~OutSend
    BY Zenon, <1>4, <1>7, UpIn
<1> QED BY Zenon, <1>5, <1>6, <1>7

-----------------------------------------------------------------------------
(* Towards the client *)

\* Only the streamer, and the handler goroutine of a put-stream, send numbers to
\* the client; a registered response loop receives them in three steps.
DownSends == StreamerReady \/ StreamerSend \/ StreamerEnd \/ HandlerOk
DownRecvs == RecvReady \/ RecvValue \/ RecvEnd

\* What the client holds: taken by the application, closed, or moved by the
\* pump's goroutine, unless a numbered frame arrives.
LEMMA DownIn ==
    ASSUME TypeOK, OrderInv("down"), [Next]_vars, ~DownRecvs
    PROVE  Kept("down") /\ (Establish \/ AppReceive \/ got'["down"] = got["down"])
<1>0. "up" \in Dirs /\ "down" \in Dirs
    BY Zenon DEF Dirs
<1>1. CASE Establish \/ AppReceive
  <2>1. /\ chan["down"] # << >> /\ got'["down"] = Head(chan["down"])
        /\ chan'["down"] = Tail(chan["down"]) /\ pump'["down"] = pump["down"]
      BY Zenon, <1>0, <1>1 DEF Establish, AppReceive, TypeOK
  <2> QED BY Zenon, <1>0, <1>1, <2>1, KeptTake
<1>2. CASE PumpStep("down")
  <2>1. got' = got
      BY Zenon, <1>2 DEF PumpStep, PumpTake, PumpDeliver, PumpAck, PumpClose
  <2> QED BY Zenon, <1>0, <1>2, <2>1, KeptPump
<1>3. CASE ~Establish /\ ~AppReceive /\ ~PumpStep("down")
  <2>1. ASSUME NEW d \in Dirs, PumpStep(d)
        PROVE  /\ got'["down"] = got["down"] /\ chan'["down"] = chan["down"]
               /\ pump'["down"] = pump["down"]
    <3>1. d = "up"
        BY Zenon, <1>3, <2>1 DEF Dirs
    <3> QED BY Zenon, <1>0, <2>1, <3>1 DEF PumpStep, PumpTake, PumpDeliver, PumpAck,
           PumpClose, TypeOK
  <2>2. got'["down"] = got["down"] /\ chan'["down"] = chan["down"]
      BY Zenon, <1>0, <1>3, <2>1, ChannelSteps DEF HandlerReceive, DownRecvs,
         PumpStep, TypeOK
  <2>3. \/ pump'["down"] = pump["down"] \/ pump'["down"] = ClosePump(pump["down"])
        \/ pump'["down"] = ClosePump(StopPump(pump["down"]))
    <3>1. CASE ServeValue
        BY Zenon, <3>1, ServeValueEffect
    <3> QED BY Zenon, <1>0, <2>1, <3>1, PumpSteps DEF DownRecvs, TypeOK
  <2> QED BY Zenon, <1>0, <2>2, <2>3, KeptEnds
<1> QED BY Zenon, <1>1, <1>2, <1>3

\* The order of the values that go to the client is kept by every step.
LEMMA NextOrderDown ==
    TypeOK /\ TypeOK' /\ ControlInv /\ OrderInv("down") /\ [Next]_vars
        => OrderInv("down")'
\* Every other step sends and receives no number on the way to the client.
<1>DownWirePlain.
    ASSUME TypeOK, IdleInv, EarlyInv, Mapped("down"), [Next]_vars,
           ~DownSends, ~DownRecvs
    PROVE  WirePlain("down")
  <2> USE <1>DownWirePlain
  <2>1. ASSUME NEW f \in Frames, SentDown(f), wire'["down"] = Append(wire["down"], f)
        PROVE  WirePlain("down")
      BY Zenon, <2>1 DEF SentDown, DownSends, Plain, WirePlain
  <2>2. ASSUME wire["down"] # << >>, wire'["down"] = Tail(wire["down"]),
               ReadDown(Head(wire["down"]))
        PROVE  WirePlain("down")
    <3>1. ~RecvUnknown
        BY Zenon, <2>2 DEF RecvUnknown, Mapped, IdleInv, EarlyInv
    <3> QED BY Zenon, <2>2, <3>1 DEF ReadDown, DownRecvs, WirePlain
  <2> QED BY Zenon, <2>1, <2>2, DownFrames DEF DownFrame, WirePlain
\* Every other step leaves the last number sent to the client alone.
<1>DownLastOut.
    ASSUME TypeOK, [Next]_vars, ~DownSends
    PROVE  LastOut("down")' = LastOut("down")
  <2> USE <1>DownLastOut
  <2>0. "up" \in Dirs /\ "down" \in Dirs
      BY Zenon DEF Dirs
  <2>1. CASE StreamerTake \/ StreamerRefused \/ StreamerAcquire \/ StreamerSendNull
    <3>1. /\ sender["down"] \notin {"off", "ready"} /\ sender'["down"] \notin {"off", "ready"}
          /\ sent' = sent
        BY Zenon, <2>0, <2>1 DEF StreamerTake, StreamerRefused, StreamerAcquire,
           StreamerSendNull, Goto, TypeOK
    <3> QED BY Zenon, <3>1 DEF LastOut
  <2>2. CASE ~Streamer
    <3>1. sender'["down"] = sender["down"] /\ sent'["down"] = sent["down"]
        BY Zenon, <2>2, DownSender DEF DownSends
    <3> QED BY Zenon, <3>1 DEF LastOut
  <2> QED BY Zenon, <2>1, <2>2 DEF DownSends, Streamer
\* The steps that send a number to the client send the next one.
<1>DownSendsOrdered.
    ASSUME TypeOK, TypeOK', ControlInv, OrderInv("down"), [Next]_vars, DownSends
    PROVE  OrderInv("down")'
  <2> USE <1>DownSendsOrdered
  <2>0. /\ "up" \in Dirs /\ "down" \in Dirs /\ StreamerInv
        /\ wire["down"] \in Seq(Frames) /\ sent["down"] \in Nat
        /\ LastIn("down") \in Int /\ LastOut("down") \in Int
        /\ wire \in [Dirs -> Seq(Frames)]
      BY Zenon, OrderTypes DEF Dirs, ControlInv, TypeOK
  <2>1. /\ got'["down"] = got["down"] /\ chan'["down"] = chan["down"]
        /\ pump'["down"] = pump["down"] /\ UNCHANGED client
      BY Zenon, <2>0 DEF DownSends, StreamerReady, StreamerSend, StreamerSendNull,
         StreamerEnd, HandlerOk, ServerClose, flow, TypeOK
  <2>2. Live("down")' = Live("down") /\ LastIn("down")' = LastIn("down")
      BY Zenon, <2>1 DEF Live, Mapped, LastIn, client
  <2>e. sender["down"] # "done" => \A g \in Under(wire["down"]) : g.type # "StreamEnd"
      BY Zenon, <2>0 DEF ControlInv, EndInv, EndedOut
  <2>3. ASSUME Carries(wire["down"], LastIn("down"), LastOut("down"))
        PROVE  Carries(wire'["down"], LastIn("down"), LastOut("down")')
    <3>1. ASSUME wire'["down"] = Append(wire["down"], Frame("StreamReady", 0)),
                 LastOut("down") = -1, LastOut("down")' = 0, sender["down"] # "done"
          PROVE  Carries(wire'["down"], LastIn("down"), LastOut("down")')
      <4>1. LET f == Frame("StreamReady", 0)
            IN  /\ f \in Frames /\ f.type \in DataTypes /\ f.type = "StreamReady"
                /\ f.n = 0
          BY Zenon, FrameType DEF FrameTypes, DataTypes
      <4> QED BY <2>0, <2>3, <2>e, <3>1, <4>1, CarriesData
    <3>2. CASE StreamerReady
      <4>1. wire'["down"] = Append(wire["down"], Frame("StreamReady", 0))
          BY Zenon, <2>0, <3>2, WireStep DEF StreamerReady
      <4>2. sender["down"] = "ready" /\ sender'["down"] = "take" /\ sent' = sent
          BY Zenon, <2>0, <3>2 DEF StreamerReady, Goto, TypeOK
      <4> QED BY Zenon, <2>0, <3>1, <4>1, <4>2 DEF LastOut, StreamerInv
    <3>3. CASE StreamerSend
      <4>1. wire'["down"] = Append(wire["down"], Frame("StreamValue", sent["down"] + 1))
          BY Zenon, <2>0, <3>3, WireStep DEF StreamerSend, StreamerSendNull
      <4>2. /\ sender["down"] = "send" /\ sender'["down"] = "take"
            /\ sent'["down"] = sent["down"] + 1
          BY Zenon, <2>0, <3>3 DEF StreamerSend, StreamerSendNull, Goto, TypeOK
      <4>3. LastOut("down") = sent["down"] /\ LastOut("down")' = sent["down"] + 1
          BY Zenon, <4>2 DEF LastOut
      <4>4. LET f == Frame("StreamValue", sent["down"] + 1)
            IN  /\ f \in Frames /\ f.type \in DataTypes /\ f.type # "StreamReady"
                /\ f.n = sent["down"] + 1
        <5>1. sent["down"] + 1 \in Nat
            BY <2>0
        <5> QED BY <5>1, FrameType DEF FrameTypes, DataTypes
      <4> QED BY SMTT(20), <2>0, <2>3, <2>e, <4>1, <4>2, <4>3, <4>4, CarriesData
    <3>4. CASE StreamerEnd
      <4>1. PICK n \in {0, sent["down"] + 1} : wire' = Enqueue("down", Frame("StreamEnd", n))
          BY Zenon, <3>4 DEF StreamerEnd
      <4>2. n \in Nat /\ wire'["down"] = Append(wire["down"], Frame("StreamEnd", n))
          BY SMTT(20), <2>0, <4>1, WireStep
      <4>3. sender["down"] = "take" /\ sender'["down"] = "done" /\ sent' = sent
          BY Zenon, <2>0, <3>4 DEF StreamerEnd, Goto, TypeOK
      <4>4. LastOut("down") = sent["down"] /\ LastOut("down")' = sent["down"]
          BY Zenon, <4>3 DEF LastOut
      <4>5. LET f == Frame("StreamEnd", n)
            IN  /\ f \in Frames /\ f.type \notin DataTypes /\ f.n \in {0, sent["down"] + 1}
          BY <4>1, <4>2, FrameType DEF FrameTypes, DataTypes
      <4> QED BY Zenon, <2>0, <2>3, <4>2, <4>4, <4>5, CarriesOther
    <3>5. CASE HandlerOk
      <4>1. sender["down"] = "off" /\ sent["down"] = 0 /\ sent' = sent
          BY Zenon, <2>0, <3>5 DEF HandlerOk, StreamerInv
      <4>2. CASE HasDown
        <5>1. sender'["down"] = "ready" /\ wire' = wire
            BY Zenon, <2>0, <3>5, <4>2 DEF HandlerOk, Goto, TypeOK
        <5> QED BY Zenon, <2>3, <4>1, <5>1 DEF LastOut
      <4>3. CASE ~HasDown
        <5>1. /\ sender'["down"] = "done"
              /\ wire'["down"] = Append(wire["down"], Frame("StreamReady", 0))
            BY Zenon, <2>0, <3>5, <4>3, WireStep DEF HandlerOk, Goto, TypeOK
        <5> QED BY Zenon, <3>1, <4>1, <5>1 DEF LastOut
      <4> QED BY Zenon, <4>2, <4>3
    <3> QED BY Zenon, <3>2, <3>3, <3>4, <3>5 DEF DownSends
  <2> QED BY Zenon, <2>1, <2>2, <2>3 DEF OrderInv
\* StreamReady arrives: through the pump, or straight into a put-stream's resultCh.
<1>RecvReadyOrdered.
    ASSUME TypeOK, TypeOK', ControlInv, OrderInv("down"), [Next]_vars, RecvReady
    PROVE  OrderInv("down")'
  <2> USE <1>RecvReadyOrdered
  <2>0. /\ "up" \in Dirs /\ "down" \in Dirs /\ PutInv
        /\ wire["down"] \in Seq(Frames) /\ got["down"] \in Int
        /\ chan["down"] \in Seq(Int) /\ pump["down"] \in Pump
        /\ LastIn("down") \in Int /\ LastOut("down") \in Int
        /\ wire \in [Dirs -> Seq(Frames)] /\ ChanCap["down"] \in Nat
        /\ ChanCap["down"] >= 1
      BY Zenon, OrderTypes DEF Dirs, ControlInv, TypeOK
  <2>1. /\ wire["down"] # << >> /\ Head(wire["down"]).type = "StreamReady" /\ rc.inMap
        /\ wire'["down"] = Tail(wire["down"]) /\ got' = got
        /\ UNCHANGED <<sent, sender, client>>
      BY Zenon, <2>0, WireStep DEF RecvReady, ClientReads, Arrives
  <2>2. Mapped("down") /\ LastOut("down")' = LastOut("down")
      BY Zenon, <2>1 DEF Mapped, LastOut
  <2>3. ASSUME Accepts(pump["down"])
        PROVE  /\ Head(wire["down"]).n = 0 /\ LastIn("down") = -1
               /\ Carries(Tail(wire["down"]), 0, LastOut("down"))
    <3>1. Carries(wire["down"], LastIn("down"), LastOut("down"))
        BY Zenon, <2>2, <2>3 DEF OrderInv, Live
    <3>2. /\ Head(wire["down"]).n = 0 /\ Head(wire["down"]).n = LastIn("down") + 1
          /\ Carries(Tail(wire["down"]), LastIn("down") + 1, LastOut("down"))
        BY Zenon, <2>0, <2>1, <3>1, CarriesTail DEF DataTypes
    <3>3. LastIn("down") = -1
        BY <2>0, <3>2
    <3> QED BY Zenon, <3>2, <3>3
  <2>4. CASE HasDown
    <3> DEFINE p == Push(pump["down"], Window["down"], 0)
    <3>1. pump'["down"] = p /\ chan' = chan
        BY Zenon, <2>0, <2>4 DEF RecvReady, TypeOK
    <3>2. /\ Ordered(got["down"], chan["down"], p)
          /\ Accepts(p) => Accepts(pump["down"]) /\ Last(got["down"], chan["down"], p) = 0
      <4>1. Ordered(got["down"], chan["down"], pump["down"])
          BY Zenon DEF OrderInv
      <4>2. Window["down"] \in Nat /\ 0 \in Int
          BY <2>0, OrderTypes
      <4>3. Accepts(pump["down"]) => 0 = Last(got["down"], chan["down"], pump["down"]) + 1
          BY <2>3 DEF LastIn
      <4> QED BY <2>0, <4>1, <4>2, <4>3, PushOrdered
    <3> HIDE DEF p
    <3> QED BY Zenon, <2>1, <2>2, <2>3, <3>1, <3>2 DEF OrderInv, Live, LastIn
  <2>5. CASE ~HasDown /\ rc.done
    <3>1. /\ pump'["down"] = pump["down"] /\ chan'["down"] = chan["down"]
          /\ pump["down"].inputEnd
      <4>1. kind = "put"
          BY Zenon, <2>5, KindsAssumption DEF HasDown, kind, TypeOK, RequestContexts,
             StreamKinds
      <4>2. rc.done = pump["down"].inputEnd
          BY Zenon, <2>0, <4>1 DEF PutInv
      <4> QED BY Zenon, <2>5, <4>2 DEF RecvReady
    <3> QED BY Zenon, <2>1, <3>1 DEF OrderInv, Live, Accepts
  <2>6. CASE ~HasDown /\ ~rc.done
    <3>1. pump'["down"] = pump["down"] /\ chan'["down"] = Append(chan["down"], 0)
        BY Zenon, <2>0, <2>6 DEF RecvReady, TypeOK
    <3>2. kind = "put"
        BY Zenon, <2>6, KindsAssumption DEF HasDown, kind, TypeOK, RequestContexts,
           StreamKinds
    <3>3. /\ pump["down"].queue = << >> /\ pump["down"].hand = << >>
          /\ Accepts(pump["down"])
      <4>1. rc.done = pump["down"].inputEnd
          BY <2>0, <3>2 DEF PutInv
      <4>2. ~pump["down"].inputEnd
          BY Zenon, <2>6, <4>1
      <4> QED BY Zenon, <2>0, <3>2, <4>2 DEF PutInv, Accepts
    <3>4. Held(pump["down"]) = 0 /\ LastIn("down") = got["down"] + Len(chan["down"])
      <4>1. Held(pump["down"]) = 0 /\ Len(pump["down"].queue) = 0
          BY Zenon, <3>3 DEF Held
      <4>2. Len(chan["down"]) \in Int
          BY <2>0
      <4> QED BY <2>0, <4>1, <4>2 DEF LastIn, Last
    <3>5. got["down"] = -1 /\ Len(chan["down"]) = 0
      <4>1. got["down"] >= -1 /\ Len(chan["down"]) \in Nat
          BY SMTT(20), <2>0 DEF OrderInv
      <4> QED BY SMTT(20), <2>0, <2>3, <3>3, <3>4, <4>1
    <3>6. /\ chan["down"] \in Seq(Int) /\ Continues(chan["down"], got["down"])
          /\ 0 = got["down"] + Len(chan["down"]) + 1
        BY <2>0, <3>5 DEF OrderInv, Ordered
    <3>7. Continues(chan'["down"], got["down"]) /\ Len(chan'["down"]) = 1
        BY <3>1, <3>5, <3>6, ContinuesAppend
    <3>8. Ordered(got["down"], chan'["down"], pump["down"])
      <4>1. Ordered(got["down"], chan["down"], pump["down"])
          BY DEF OrderInv
      <4>2. got["down"] + Len(chan'["down"]) + Held(pump["down"]) \in Int
          BY <2>0, <3>4, <3>7
      <4>3. Continues(pump["down"].queue, got["down"] + Len(chan'["down"]) + Held(pump["down"]))
          BY Zenon, <3>3, <4>2, ContinuesEmpty
      <4> QED BY Zenon, <3>3, <3>7, <4>1, <4>3 DEF Ordered
    <3>9. LastIn("down")' = 0
      <4>1. Held(pump["down"]) = 0 /\ Len(pump["down"].queue) = 0
          BY <3>3 DEF Held
      <4> QED BY SMTT(20), <2>1, <3>1, <3>5, <3>7, <4>1 DEF LastIn, Last
    <3>10. Carries(wire'["down"], LastIn("down")', LastOut("down")')
        BY Zenon, <2>1, <2>2, <2>3, <3>3, <3>9
    <3>11. got'["down"] >= -1 /\ Len(chan'["down"]) <= ChanCap["down"]
        BY <2>0, <2>1, <3>5, <3>7
    <3> QED BY Zenon, <2>1, <3>1, <3>8, <3>10, <3>11 DEF OrderInv
  <2> QED BY Zenon, <2>4, <2>5, <2>6
\* A value, or the end with its final value, arrives at the client.
<1>RecvDataOrdered.
    ASSUME TypeOK, TypeOK', OrderInv("down"), RecvValue \/ RecvEnd
    PROVE  OrderInv("down")'
  <2> USE <1>RecvDataOrdered
  <2> DEFINE n == Head(wire["down"]).n
             p == Push(pump["down"], Window["down"], n)
  <2>0. /\ "up" \in Dirs /\ "down" \in Dirs /\ got["down"] \in Int
        /\ chan["down"] \in Seq(Int) /\ pump["down"] \in Pump
        /\ wire \in [Dirs -> Seq(Frames)] /\ Ordered(got["down"], chan["down"], pump["down"])
      BY Zenon, OrderTypes DEF Dirs, TypeOK, OrderInv
  <2>1. /\ wire["down"] # << >> /\ Head(wire["down"]).type \in {"StreamValue", "StreamEnd"}
        /\ Mapped("down") /\ wire'["down"] = Tail(wire["down"])
        /\ got' = got /\ chan' = chan /\ UNCHANGED <<sent, sender>>
      BY Zenon, <2>0, WireStep DEF RecvValue, RecvEnd, ClientReads, Arrives, Mapped
  <2>2. LastOut("down")' = LastOut("down")
      BY <2>1 DEF LastOut
  <2>3. CASE RecvValue
    <3>1. Head(wire["down"]).type \in DataTypes /\ pump'["down"] = p
        BY Zenon, <2>0, <2>3 DEF RecvValue, ClientReads, Arrives, DataTypes, TypeOK
    <3>2. /\ Ordered(got["down"], chan["down"], p)
          /\ Accepts(p) => Accepts(pump["down"]) /\ Last(got["down"], chan["down"], p) = n
          /\ Accepts(pump["down"]) => Carries(Tail(wire["down"]), n, LastOut("down"))
        BY Zenon, <2>0, <2>1, <3>1, ArrivalOrdered
    <3> HIDE DEF p, n
    <3> QED BY Zenon, <2>1, <2>2, <3>1, <3>2 DEF OrderInv, Live, LastIn
  <2>4. CASE RecvEnd
    <3>1. /\ Head(wire["down"]).type = "StreamEnd"
          /\ pump'["down"] = ClosePump(IF n = 0 THEN pump["down"] ELSE p)
        BY Zenon, <2>0, <2>4 DEF RecvEnd, ClientReads, Arrives, TypeOK
    <3>2. n # 0 => p \in Pump /\ Ordered(got["down"], chan["down"], p)
        BY Zenon, <2>0, <2>1, <3>1, ArrivalOrdered
    <3> HIDE DEF p, n
    <3>3. Ordered(got["down"], chan["down"], pump'["down"]) /\ ~Accepts(pump'["down"])
        BY Zenon, <2>0, <3>1, <3>2, CloseOrdered
    <3> QED BY Zenon, <2>1, <3>3 DEF OrderInv, Live
  <2> QED BY Zenon, <2>3, <2>4
<1> SUFFICES ASSUME TypeOK, TypeOK', ControlInv, OrderInv("down"), [Next]_vars
             PROVE  OrderInv("down")'
    OBVIOUS
<1>0. "up" \in Dirs /\ "down" \in Dirs /\ IdleInv /\ EarlyInv
    BY Zenon DEF Dirs, ControlInv
<1>1. ~DownSends /\ ~DownRecvs /\ Kept("down") => OrderInv("down")'
    BY Zenon, <1>0, MappedDown, <1>DownLastOut, <1>DownWirePlain, OrderKept DEF Live
<1>2. CASE DownSends
    BY Zenon, <1>2, <1>DownSendsOrdered
<1>3. CASE DownRecvs
    BY Zenon, <1>3, <1>RecvReadyOrdered, <1>RecvDataOrdered DEF DownRecvs
<1> QED BY Zenon, <1>1, <1>2, <1>3, DownIn

\* Nothing is held and nothing is under way before the call.
LEMMA InitOrder == Init => OrderInv("up") /\ OrderInv("down")
<1> SUFFICES ASSUME Init, NEW d \in Dirs PROVE OrderInv(d)
    BY Zenon DEF Dirs
<1>1. /\ got[d] = (IF d = "down" THEN -1 ELSE 0) /\ chan[d] = << >>
      /\ pump[d] = NewStreamPump /\ wire[d] = << >> /\ sent[d] = 0
      /\ sender["down"] = "off"
    BY Zenon DEF Init, Dirs
<1>2. /\ pump[d].queue = << >> /\ pump[d].hand = << >> /\ ~pump[d].exited
    BY <1>1 DEF NewStreamPump
<1>3. Held(pump[d]) = 0 /\ Len(chan[d]) = 0 /\ Len(pump[d].queue) = 0
    BY Zenon, <1>1, <1>2 DEF Held
<1>4. got[d] \in Int /\ got[d] + Len(chan[d]) + Held(pump[d]) = got[d]
    BY <1>1, <1>3 DEF Dirs
<1>5. Ordered(got[d], chan[d], pump[d])
    BY Zenon, <1>1, <1>2, <1>4, ContinuesEmpty DEF Ordered
<1>6. LastIn(d) = got[d] /\ LastOut(d) = got[d]
    BY <1>1, <1>3, <1>4 DEF LastIn, Last, LastOut, Dirs
<1>7. Carries(wire[d], LastIn(d), LastOut(d))
    BY <1>1, <1>4, <1>6, CarriesNothing
<1>8. Len(chan[d]) <= ChanCap[d]
    BY <1>3, ChanCapAssumption
<1>9. got[d] >= (IF d = "down" THEN -1 ELSE 0)
    BY <1>1
<1> QED BY Zenon, <1>5, <1>7, <1>8, <1>9 DEF OrderInv

\* Values reach the application in the order they were sent, none missing and
\* none twice (StreamPump's FIFO, valuerpc/pump.go, between outgoingStreamer or
\* streamOut and the application), for every window and capacity.
THEOREM NoGapCorrect == Spec => []NoGap
\* Everything the receiver holds continues what the application took last.
<1>OrderedNoGap.
    ASSUME TypeOK, OrderInv("up"), OrderInv("down") PROVE NoGap
  <2> USE <1>OrderedNoGap
  <2> SUFFICES ASSUME NEW d \in Dirs PROVE Continues(Backlog(d), got[d])
      BY Zenon DEF NoGap, Continues
  <2> DEFINE c == chan[d]
             h == pump[d].hand
             q == pump[d].queue
             n == got[d]
  <2>1. Ordered(n, c, pump[d])
      BY Zenon DEF OrderInv, Dirs
  <2>2. n \in Int /\ c \in Seq(Int) /\ h \in Seq(Int) /\ q \in Seq(Int)
      BY Zenon DEF TypeOK, Pump
  <2>3. Continues(c, n)
      BY Zenon, <2>1 DEF Ordered
  <2>4. CASE pump[d].exited
    <3>1. Backlog(d) = c \o << >>
        BY Zenon, <2>4 DEF Backlog
    <3>2. Continues(<< >>, n + Len(c)) /\ << >> \in Seq(Int)
        BY DEF Continues
    <3> QED BY Zenon, <2>2, <2>3, <3>1, <3>2, ContinuesConcat
  <2>5. CASE ~pump[d].exited
    <3>1. Backlog(d) = c \o (h \o q)
        BY Zenon, <2>5 DEF Backlog
    <3>2. Continues(h, n + Len(c)) /\ Continues(q, n + Len(c) + Len(h))
      <4>1. CASE h = << >>
          BY SMTT(20), <2>1, <2>2, <2>5, <4>1 DEF Ordered, Held, Continues
      <4>2. CASE h # << >>
        <5>1. h = <<n + Len(c) + 1>> /\ Len(h) = 1 /\ Held(pump[d]) = 1
            BY Zenon, <2>1, <2>2, <4>2 DEF Ordered, Held
        <5> QED BY <2>1, <2>2, <2>5, <5>1 DEF Ordered, Continues
      <4> QED BY Zenon, <4>1, <4>2
    <3>3. n + Len(c) \in Int /\ h \o q \in Seq(Int)
        BY <2>2
    <3>4. Continues(h \o q, n + Len(c))
        BY Zenon, <2>2, <3>2, <3>3, ContinuesConcat
    <3> QED BY Zenon, <2>2, <2>3, <3>1, <3>3, <3>4, ContinuesConcat
  <2> QED BY Zenon, <2>4, <2>5
<1>1. Init => OrderInv("up") /\ OrderInv("down")
    BY Zenon, InitOrder
<1>2. TypeOK /\ TypeOK' /\ ControlInv /\ OrderInv("up") /\ OrderInv("down") /\ [Next]_vars
        => OrderInv("up")' /\ OrderInv("down")'
    BY Zenon, NextOrderUp, NextOrderDown
<1>3. TypeOK /\ OrderInv("up") /\ OrderInv("down") => NoGap
    BY <1>OrderedNoGap
<1> QED BY <1>1, <1>2, <1>3, TypeCorrect, ControlCorrect, PTL DEF Spec
=============================================================================

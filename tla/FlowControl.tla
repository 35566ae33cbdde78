---------------------------- MODULE FlowControl ----------------------------
(***************************************************************************)
(* The two flow-control objects every stream is built from, as values and  *)
(* operators on them:                                                      *)
(*                                                                         *)
(*   - CreditGate (valuerpc/credit.go), the sender's half: one credit is   *)
(*     consumed per stream value, credits are granted by the receiver;     *)
(*   - StreamPump (valuerpc/pump.go), the receiver's half: an unbounded-   *)
(*     looking queue, bounded by maxPending, that a goroutine of its own   *)
(*     drains into the channel the application reads;                      *)
(*                                                                         *)
(* and the frames that carry values and grants between them.               *)
(*                                                                         *)
(* Each operator is one critical section of the Go code (the body of a     *)
(* method that holds the object's mutex, or one step of the pump's         *)
(* goroutine), so a module that uses them gets the code's atomicity.       *)
(***************************************************************************)
EXTENDS Integers, Sequences, FiniteSets

-----------------------------------------------------------------------------
(* Frames of one request *)

\* n is the granted credit, or the number of the value carried (0: none).  A
\* StreamValue whose value field is Null or absent is told apart as NullValue.
Frames == [type : {"Open", "Cancel", "StreamReady", "StreamValue", "NullValue",
                   "StreamEnd", "StreamCredit", "Result", "Error"},
           n    : Nat]

Frame(t, n) == [type |-> t, n |-> n]

\* Number of frames of type t on s, and the single credits the grants on s carry.
Count(s, t) == Cardinality({i \in 1..Len(s) : s[i].type = t})
Credits(s)  ==
    UNION {{i} \X (1..s[i].n) : i \in {k \in 1..Len(s) : s[k].type = "StreamCredit"}}
CreditOn(s) == Cardinality(Credits(s))

-----------------------------------------------------------------------------
(* CreditGate *)

Gate == [credit : Nat, closed : BOOLEAN]

NewCreditGate == [credit |-> 0, closed |-> FALSE]

\* Wrong: a sender that does not wait for credit; one that does not pay for it.
AcquireGrantedUnpaid(g) == ~g.closed
AcquireFree(g)          == g

\* Acquire waits while there is no credit and the gate is open.  A closed gate
\* refuses even when credit is left.
AcquireRefused(g) == g.closed
AcquireGranted(g) == ~g.closed /\ g.credit > 0
Acquire(g)        == [g EXCEPT !.credit = @ - 1]

\* A grant of zero or less is ignored; a closed gate still adds up its credit.
Grant(g, n) == IF n <= 0 THEN g ELSE [g EXCEPT !.credit = @ + n]

\* Wrong: closing the gate does not wake the sender waiting at it.
CloseGateSilent(g) == g

CloseGate(g) == [g EXCEPT !.closed = TRUE]

-----------------------------------------------------------------------------
(* StreamPump.  "hand" is the value the goroutine has popped and is about to *)
(* put into the channel, "acking" that it is between that put and the end of *)
(* the onDeliver hook, "exited" that it has closed the channel.              *)

Pump == [queue    : Seq(Int),
         hand     : Seq(Int),
         acking   : BOOLEAN,
         inputEnd : BOOLEAN,
         overflow : BOOLEAN,
         stopped  : BOOLEAN,
         exited   : BOOLEAN]

NewStreamPump == [queue    |-> << >>, hand    |-> << >>,  acking |-> FALSE,
                  inputEnd |-> FALSE, overflow |-> FALSE, stopped |-> FALSE,
                  exited   |-> FALSE]

\* Push returns false on an ended or stopped pump, and when the pending bound is
\* hit; in that case the pump also ends its input.
PushAccepted(p, maxPending) ==
    ~p.inputEnd /\ ~p.stopped /\ Len(p.queue) < maxPending

Push(p, maxPending, v) ==
    IF p.inputEnd \/ p.stopped
    THEN p
    ELSE IF Len(p.queue) >= maxPending
         THEN [p EXCEPT !.overflow = TRUE, !.inputEnd = TRUE]
         ELSE [p EXCEPT !.queue = Append(@, v)]

ClosePump(p) == [p EXCEPT !.inputEnd = TRUE]
StopPump(p)  == [p EXCEPT !.stopped = TRUE]

\* The goroutine: at the top of its loop it exits when stopped, or when its
\* input has ended and everything queued was delivered; otherwise it pops.
PumpIdle(p) == ~p.exited /\ p.hand = << >> /\ ~p.acking

\* Wrong: the newest value is delivered first.
PumpPopNewest(p) == [p EXCEPT !.queue = SubSeq(@, 1, Len(@) - 1),
                              !.hand = <<p.queue[Len(p.queue)]>>]

PumpMayPop(p) == PumpIdle(p) /\ ~p.stopped /\ p.queue # << >>
PumpPop(p)    == [p EXCEPT !.queue = Tail(@), !.hand = <<Head(p.queue)>>]

\* Wrong: the end of the input drops what is still queued.
PumpMayExitUndrained(p) ==
    \/ PumpIdle(p) /\ (p.stopped \/ p.inputEnd)
    \/ p.hand # << >> /\ p.stopped

\* Stop also interrupts a send the consumer does not take.
PumpMayExit(p) ==
    \/ PumpIdle(p) /\ (p.stopped \/ (p.queue = << >> /\ p.inputEnd))
    \/ p.hand # << >> /\ p.stopped
PumpExit(p)    == [p EXCEPT !.exited = TRUE, !.hand = << >>]

PumpSent(p)  == [p EXCEPT !.hand = << >>, !.acking = TRUE]
PumpAcked(p) == [p EXCEPT !.acking = FALSE]

-----------------------------------------------------------------------------
(* Credit batching, shared by grantRecv (initiator) and grantInbound         *)
(* (responder): a delivery counts towards the next grant, and a grant is     *)
(* sent once half a window (at least one value) has been delivered.          *)

\* Wrong: the receiver grants only after more than a window was delivered.
CreditBatchTooLarge(window) == window + 1

CreditBatch(window) == IF window \div 2 < 1 THEN 1 ELSE window \div 2

GrantDue(delivered, window) == delivered + 1 >= CreditBatch(window)
=============================================================================

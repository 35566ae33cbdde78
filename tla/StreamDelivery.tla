--------------------------- MODULE StreamDelivery ---------------------------
(***************************************************************************)
(* What the steps of Stream keep, for every kind of call, window and       *)
(* capacity.                                                               *)
(*                                                                         *)
(* The credit ledger: what the sender of a direction has been given or has *)
(* used up, together with the grants still under way, never exceeds what   *)
(* the receiver has granted, which is its window and one credit per        *)
(* delivery, and equals it while both ends know the request.  So a value   *)
(* that arrives finds room, and credit is neither lost nor invented.       *)
(*                                                                         *)
(* Completeness: a pump whose input ended without being stopped was given  *)
(* everything that was sent, so a drained channel is a complete stream.    *)
(***************************************************************************)
EXTENDS StreamProofs

\* The credit a frame grants.
Credit(f) == IF f.type = "StreamCredit" THEN f.n ELSE 0

\* What the ledger needs to know of the credit on a connection; StreamCorrect
\* proves it by counting.
CreditLaws ==
    /\ CreditOn(<< >>) = 0
    /\ \A w \in Seq(Frames) :
          /\ CreditOn(w) \in Nat
          /\ \A f \in Frames : CreditOn(Append(w, f)) = CreditOn(w) + Credit(f)
          /\ w # << >> => CreditOn(Tail(w)) = CreditOn(w) - Credit(Head(w))

\* A grant that is sent adds its credits to those under way.
LEMMA CreditAppend ==
    ASSUME CreditLaws, NEW w \in Seq(Frames), NEW f \in Frames
    PROVE  CreditOn(Append(w, f)) = CreditOn(w) + Credit(f)
    BY Zenon DEF CreditLaws

\* A grant that is received takes them away again.
LEMMA CreditTail ==
    ASSUME CreditLaws, NEW w \in Seq(Frames), w # << >>
    PROVE  CreditOn(Tail(w)) = CreditOn(w) - Credit(Head(w))
    BY Zenon DEF CreditLaws

-----------------------------------------------------------------------------
(* Credit *)

\* Credits at the gate or taken from it.
Obtained(d) == gate[d].credit + sent[d] + nulls[d]
                 + (IF sender[d] = "send" THEN 1 ELSE 0)

\* The number of the last delivery counted by the pump's hook.
Acked(d) == got[d] + Len(chan[d]) - Hooked(pump[d])

WindowGranted(d) == IF d = "down" THEN opener = "open"
                                  ELSE handler \in {"running", "returned"}

\* What the receiver has given: its window, and one credit for each delivery that
\* was granted back.
Granted(d) == (IF WindowGranted(d) THEN Window[d] ELSE 0) + Acked(d) - delivered[d]

\* The credit that was given and has been lost on the way.
Slack(d) == Granted(d) - Obtained(d) - CreditOn(wire[Opposite(d)])

Has(d) == IF d = "down" THEN HasDown ELSE HasUp

\* No credit is invented, and none is lost while both ends know the request.
CreditInv(d) == /\ Slack(d) >= 0
                /\ Has(d) /\ Mapped("down") /\ Mapped("up") => Slack(d) = 0

\* recvDelivered starts below zero so that StreamReady is not granted back.
DeliveredInv(d) ==
    (d = "up" \/ HasDown) => \/ delivered[d] >= 0
                             \/ delivered[d] = -1 /\ Acked(d) = -1

\* The application has the stream once StreamReady was taken from the channel.
EstablishedInv == IF opener = "open" THEN got["down"] >= 0
                  ELSE opener # "failed" => got["down"] = -1

CreditsInv == /\ \A d \in Dirs : CreditInv(d) /\ DeliveredInv(d)
              /\ EstablishedInv

-----------------------------------------------------------------------------
(* What a step does to the ledger *)

\* The types the arithmetic on the ledger needs.
LEMMA LedgerTypes ==
    TypeOK => \A d \in Dirs :
        /\ Obtained(d) \in Int /\ Acked(d) \in Int /\ Granted(d) \in Int
        /\ delivered[d] \in Int /\ gate[d].credit \in Nat
        /\ Len(chan[d]) \in Nat /\ Hooked(pump[d]) \in {0, 1}
<1> SUFFICES ASSUME TypeOK, NEW d \in Dirs
             PROVE  /\ Obtained(d) \in Int /\ Acked(d) \in Int /\ Granted(d) \in Int
                    /\ delivered[d] \in Int /\ gate[d].credit \in Nat
                    /\ Len(chan[d]) \in Nat /\ Hooked(pump[d]) \in {0, 1}
    BY Zenon
<1>1. /\ gate[d] \in Gate /\ sent[d] \in Nat /\ got[d] \in Int /\ chan[d] \in Seq(Int)
      /\ delivered[d] \in Int /\ Window[d] \in Nat /\ nulls[d] \in Nat
    BY Zenon, OrderTypes DEF TypeOK
<1>2. gate[d].credit \in Nat
    BY Zenon, <1>1 DEF Gate
<1>3. Obtained(d) \in Int
    BY <1>1, <1>2 DEF Obtained
<1>4. Len(chan[d]) \in Nat
    BY <1>1
<1>5. Hooked(pump[d]) \in {0, 1}
    BY Zenon DEF Hooked
<1>6. Acked(d) \in Int
    BY <1>1, <1>4, <1>5 DEF Acked
<1>7. Granted(d) \in Int
    BY <1>1, <1>6 DEF Granted
<1> QED BY Zenon, <1>1, <1>2, <1>3, <1>4, <1>5, <1>6, <1>7

\* The credit under way included.
LEMMA CreditTypes ==
    CreditLaws /\ TypeOK => \A d \in Dirs :
        /\ Obtained(d) \in Int /\ Acked(d) \in Int /\ Granted(d) \in Int
        /\ Slack(d) \in Int /\ CreditOn(wire[Opposite(d)]) \in Nat
        /\ delivered[d] \in Int /\ gate[d].credit \in Nat
        /\ Len(chan[d]) \in Nat /\ Hooked(pump[d]) \in {0, 1}
<1> SUFFICES ASSUME CreditLaws, TypeOK, NEW d \in Dirs
             PROVE  Slack(d) \in Int /\ CreditOn(wire[Opposite(d)]) \in Nat
    BY Zenon, LedgerTypes
<1>1. Obtained(d) \in Int /\ Granted(d) \in Int
    BY Zenon, LedgerTypes
<1>2. CreditOn(wire[Opposite(d)]) \in Nat
  <2>1. wire[Opposite(d)] \in Seq(Frames)
      BY Zenon, OppositeDir DEF TypeOK
  <2> QED BY Zenon, <2>1 DEF CreditLaws
<1>3. Slack(d) \in Int
    BY <1>1, <1>2 DEF Slack
<1> QED BY Zenon, <1>2, <1>3

\* The same in the next state.
LEMMA CreditTypesNext ==
    CreditLaws /\ TypeOK' => \A d \in Dirs : Slack(d)' \in Int
<1>1. CreditLaws /\ TypeOK => \A d \in Dirs : Slack(d) \in Int
    BY Zenon, CreditTypes
<1>2. (CreditLaws /\ TypeOK => \A d \in Dirs : Slack(d) \in Int)'
    BY <1>1, PTL
<1> QED BY Zenon, <1>2

\* Outside its hook a pump's goroutine, and its owner, leave the hook alone.
LEMMA HookSteps ==
    ASSUME TypeOK, [Next]_vars, NEW d \in Dirs, ~PumpDeliver(d), ~PumpAck(d)
    PROVE  Hooked(pump'[d]) = Hooked(pump[d])
<1>0. /\ pump \in [Dirs -> Pump] /\ wire \in [Dirs -> Seq(Frames)]
      /\ "up" \in Dirs /\ "down" \in Dirs
      /\ \A e \in Dirs : pump[e] \in Pump /\ Window[e] \in Nat
    BY Zenon, WindowAssumption DEF TypeOK, Dirs
<1>1. \A e \in Dirs :
        /\ Hooked(ClosePump(pump[e])) = Hooked(pump[e])
        /\ Hooked(StopPump(pump[e])) = Hooked(pump[e])
        /\ Hooked(ClosePump(StopPump(pump[e]))) = Hooked(pump[e])
        /\ Hooked(PumpPop(pump[e])) = Hooked(pump[e])
        /\ Hooked(PumpExit(pump[e])) = Hooked(pump[e])
        /\ \A m, v : Hooked(Push(pump[e], m, v)) = Hooked(pump[e])
  <2>1. \A e \in Dirs : StopPump(pump[e]) \in Pump
      BY Zenon, <1>0, PumpTypes
  <2> QED BY Zenon, <1>0, <2>1, PumpHook
<1>2. CASE \E e \in Dirs : PumpStep(e)
  <2>1. PICK e \in Dirs : PumpStep(e)
      BY Zenon, <1>2
  <2>2. e # d => pump'[d] = pump[d]
      BY Zenon, <1>0, <2>1 DEF PumpStep, PumpTake, PumpDeliver, PumpAck, PumpClose
  <2>3. e = d => pump'[d] = PumpPop(pump[d]) \/ pump'[d] = PumpExit(pump[d])
      BY Zenon, <1>0, <2>1 DEF PumpStep, PumpTake, PumpClose
  <2> QED BY Zenon, <1>1, <2>2, <2>3
<1>3. CASE RecvReady \/ RecvValue \/ RecvEnd
  <2> DEFINE n == Head(wire["down"]).n
             p == Push(pump["down"], Window["down"], n)
             r == Push(pump["down"], Window["down"], 0)
  <2>1. n \in Int
      BY <1>0, <1>3, WireTypes
        DEF RecvReady, RecvValue, RecvEnd, ClientReads, Arrives, Frames
  <2>2. Hooked(p) = Hooked(pump["down"])
      BY Zenon, <1>0, <1>1
  <2>a. p \in Pump
      BY Zenon, <1>0, <2>1, PumpTypes
  <2>3. Hooked(r) = Hooked(pump["down"])
      BY Zenon, <1>0, <1>1
  <2>4. Hooked(ClosePump(p)) = Hooked(pump["down"])
      BY Zenon, <2>2, <2>a, PumpHook
  <2>5. pump'["up"] = pump["up"]
      BY Zenon, <1>0, <1>3 DEF RecvReady, RecvValue, RecvEnd
  <2>6. pump'["down"] \in {pump["down"], r, p, ClosePump(p), ClosePump(pump["down"])}
      BY Zenon, <1>0, <1>3 DEF RecvReady, RecvValue, RecvEnd
  <2> QED BY Zenon, <1>0, <1>1, <2>2, <2>3, <2>4, <2>5, <2>6 DEF Dirs
<1>4. CASE ServeValue
  <2> DEFINE n == Head(wire["up"]).n
             p == Push(pump["up"], Window["up"], n)
  <2>1. n \in Int
      BY <1>0, <1>4, WireTypes DEF ServeValue, Arrives, Frames
  <2>2. Hooked(p) = Hooked(pump["up"])
      BY Zenon, <1>0, <1>1
  <2>a. p \in Pump
      BY Zenon, <1>0, <2>1, PumpTypes
  <2>3. Hooked(StopPump(p)) = Hooked(pump["up"])
      BY Zenon, <2>2, <2>a, PumpHook
  <2>4. pump'["down"] = pump["down"] /\ pump'["up"] \in {p, StopPump(p)}
      BY Zenon, <1>4, ServeValueEffect
  <2> QED BY Zenon, <2>2, <2>3, <2>4 DEF Dirs
<1> QED BY Zenon, <1>0, <1>1, <1>2, <1>3, <1>4, PumpSteps DEF Dirs

\* A delivery is counted by the pump's hook; a put-stream's acknowledgement is put
\* into resultCh without one.
LEMMA AckedStep ==
    ASSUME TypeOK, [Next]_vars, NEW d \in Dirs, OrderInv(d)
    PROVE  \/ PumpAck(d) /\ Acked(d)' = Acked(d) + 1
           \/ ~PumpAck(d) /\ Acked(d)' = Acked(d)
           \/ ~PumpAck(d) /\ d = "down" /\ ~HasDown /\ Acked(d)' = Acked(d) + 1
<1> DEFINE g == got[d]
           c == Len(chan[d])
           h == Hooked(pump[d])
<1>0. /\ g \in Int /\ c \in Int /\ h \in Int /\ chan[d] \in Seq(Int)
      /\ "up" \in Dirs /\ "down" \in Dirs /\ pump[d] \in Pump
  <2>1. g \in Int /\ chan[d] \in Seq(Int) /\ pump[d] \in Pump
      BY Zenon, OrderTypes
  <2>2. c \in Int /\ h \in Int
      BY LedgerTypes
  <2> QED BY Zenon, <2>1, <2>2 DEF Dirs
<1>a. Acked(d) = g + c - h /\ Acked(d)' = got'[d] + Len(chan'[d]) - Hooked(pump'[d])
    BY Zenon DEF Acked
<1>b. \A n, m, x \in Int : got'[d] = n /\ Len(chan'[d]) = m /\ Hooked(pump'[d]) = x
                             => Acked(d)' = n + m - x
    BY Zenon, <1>a
<1>1. CASE PumpDeliver(d)
  <2>1. /\ got'[d] = g /\ pump'[d] = PumpSent(pump[d]) /\ ~PumpAck(d)
        /\ pump[d].hand # << >> /\ chan'[d] = Append(chan[d], Head(pump[d].hand))
    <3>1. pump[d].hand # << >> /\ ~pump[d].acking
        BY Zenon, <1>1 DEF PumpDeliver, OrderInv, Ordered
    <3> QED BY Zenon, <1>1, <3>1 DEF PumpDeliver, PumpAck, TypeOK
  <2>2. h = 0 /\ Hooked(pump'[d]) = 1
    <3>1. ~pump[d].acking
        BY Zenon, <2>1 DEF OrderInv, Ordered
    <3> QED BY <1>0, <2>1, <3>1, PumpHook DEF Hooked
  <2>3. Len(chan'[d]) = c + 1
      BY <1>0, <2>1
  <2> HIDE DEF g, c, h
  <2> QED BY <1>0, <1>a, <1>b, <2>1, <2>2, <2>3
<1>2. CASE PumpAck(d)
  <2>1. got'[d] = g /\ chan'[d] = chan[d] /\ pump'[d] = PumpAcked(pump[d]) /\ pump[d].acking
      BY Zenon, <1>2 DEF PumpAck, TypeOK
  <2>2. h = 1 /\ Hooked(pump'[d]) = 0
      BY <1>0, <2>1, PumpHook DEF Hooked
  <2> HIDE DEF h
  <2> QED BY <1>0, <1>2, <1>a, <1>b, <2>1, <2>2
<1>3. CASE ~PumpDeliver(d) /\ ~PumpAck(d)
  <2>1. Hooked(pump'[d]) = h
      BY Zenon, <1>3, HookSteps
  <2>2. ASSUME got'[d] = g, chan'[d] = chan[d] PROVE Acked(d)' = Acked(d)
      BY Zenon, <1>a, <2>1, <2>2
  <2>3. ASSUME chan[d] # << >>, got'[d] = Head(chan[d]), chan'[d] = Tail(chan[d])
        PROVE  Acked(d)' = Acked(d)
    <3>1. Head(chan[d]) = g + 1 /\ Len(Tail(chan[d])) = c - 1
        BY Zenon, <1>0, <2>3, TakeOrdered DEF OrderInv
    <3>2. Acked(d)' = (g + 1) + (c - 1) - h
        BY Zenon, <1>a, <2>1, <2>3, <3>1
    <3> HIDE DEF g, c, h
    <3>3. (g + 1) + (c - 1) - h = g + c - h
        BY <1>0
    <3> QED BY Zenon, <1>a, <3>2, <3>3
  <2>4. CASE Establish \/ AppReceive
    <3>1. /\ chan["down"] # << >> /\ got'["down"] = Head(chan["down"])
          /\ chan'["down"] = Tail(chan["down"])
          /\ got'["up"] = got["up"] /\ chan'["up"] = chan["up"]
        BY Zenon, <1>0, <2>4 DEF Establish, AppReceive, TypeOK
    <3> QED BY Zenon, <1>3, <2>2, <2>3, <3>1 DEF Dirs
  <2>5. CASE HandlerReceive
    <3>1. /\ chan["up"] # << >> /\ got'["up"] = Head(chan["up"])
          /\ chan'["up"] = Tail(chan["up"])
          /\ got'["down"] = got["down"] /\ chan'["down"] = chan["down"]
        BY Zenon, <1>0, <2>5 DEF HandlerReceive, TypeOK
    <3> QED BY Zenon, <1>3, <2>2, <2>3, <3>1 DEF Dirs
  <2>6. CASE RecvReady
    <3>1. /\ got' = got /\ chan'["up"] = chan["up"]
          /\ HasDown => chan'["down"] = chan["down"]
          /\ chan'["down"] = chan["down"] \/ chan'["down"] = Append(chan["down"], 0)
        BY Zenon, <1>0, <2>6 DEF RecvReady, TypeOK
    <3>2. CASE chan'[d] = chan[d]
        BY Zenon, <1>3, <2>2, <3>1, <3>2
    <3>3. CASE chan'[d] # chan[d]
      <4>1. d = "down" /\ ~HasDown /\ chan'[d] = Append(chan[d], 0)
          BY Zenon, <3>1, <3>3 DEF Dirs
      <4>2. Len(chan'[d]) = c + 1
          BY <1>0, <4>1
      <4> HIDE DEF c, h
      <4>3. Acked(d)' = Acked(d) + 1
          BY <1>0, <1>a, <1>b, <2>1, <3>1, <4>2
      <4> QED BY Zenon, <1>3, <4>1, <4>3
    <3> QED BY Zenon, <3>2, <3>3
  <2>7. CASE \E e \in Dirs : PumpDeliver(e)
    <3>1. got'[d] = g /\ chan'[d] = chan[d]
        BY Zenon, <1>3, <2>7 DEF PumpDeliver, TypeOK
    <3> QED BY Zenon, <1>3, <2>2, <3>1
  <2>8. CASE chan' = chan /\ got' = got
      BY Zenon, <1>3, <2>2, <2>8
  <2> QED BY Zenon, <2>4, <2>5, <2>6, <2>7, <2>8, ChannelSteps
<1> QED BY Zenon, <1>1, <1>2, <1>3

\* The deliveries since the last grant are counted by the same hook.
LEMMA DeliveredStep ==
    ASSUME TypeOK, [Next]_vars, NEW d \in Dirs
    PROVE  IF PumpAck(d)
           THEN delivered'[d] = IF GrantDue(delivered[d], Window[d]) THEN 0
                                                        ELSE delivered[d] + 1
           ELSE delivered'[d] = delivered[d]
<1>1. CASE PumpAck(d)
    BY <1>1, PumpAckEffect DEF TypeOK
<1>2. CASE ~PumpAck(d)
  <2>1. ASSUME NEW e \in Dirs, PumpAck(e) PROVE delivered'[d] = delivered[d]
      BY Zenon, <1>2, <2>1 DEF PumpAck, TypeOK
  <2> QED BY Zenon, <1>2, <2>1, CountSteps
<1> QED BY Zenon, <1>1, <1>2

\* The request arrives once.
LEMMA ServedOnce ==
    ASSUME TypeOK, OpenInv, ServeOpen \/ ServeBusy PROVE handler = "none"
<1>1. wire["up"] # << >> /\ Head(wire["up"]).type = "Open" /\ wire["up"] \in Seq(Frames)
    BY Zenon DEF ServeOpen, ServeBusy, Arrives, TypeOK, Dirs
<1>2. Head(wire["up"]) = wire["up"][1] /\ 1 \in 1..Len(wire["up"])
    BY <1>1
<1> QED BY Zenon, <1>1, <1>2 DEF OpenInv, NoOpen

-----------------------------------------------------------------------------
(* The ledger is kept *)

\* The ledger is kept by every step.
LEMMA NextCredit ==
    ASSUME CreditLaws
    PROVE  TypeOK /\ TypeOK' /\ ControlInv /\ [Next]_vars
              => \A d \in Dirs : OrderInv(d) /\ CreditInv(d) => CreditInv(d)'
\* The ledger after a step, entry by entry.
<1>SlackStep.
    ASSUME TypeOK, NEW d \in Dirs, NEW x \in Int, NEW y \in Int, NEW z \in Int,
           Granted(d)' = Granted(d) + x, Obtained(d)' = Obtained(d) + y,
           CreditOn(wire'[Opposite(d)]) = CreditOn(wire[Opposite(d)]) + z
    PROVE  Slack(d)' = Slack(d) + (x - y - z)
  <2> USE <1>SlackStep
  <2> DEFINE g == Granted(d)
             o == Obtained(d)
             c == CreditOn(wire[Opposite(d)])
  <2>1. g \in Int /\ o \in Int /\ c \in Int
      BY CreditTypes
  <2>2. Slack(d) = g - o - c /\ Slack(d)' = (g + x) - (o + y) - (c + z)
      BY Zenon DEF Slack
  <2> HIDE DEF g, o, c
  <2>3. (g + x) - (o + y) - (c + z) = (g - o - c) + (x - y - z)
      BY <2>1
  <2> QED BY Zenon, <2>2, <2>3
\* The window is granted once: when the stream is established, and when the
\* handler goroutine has registered the request or turned it down.
<1>WindowStep.
    ASSUME TypeOK, OpenInv, [Next]_vars, NEW d \in Dirs
    PROVE  /\ WindowGranted(d) => WindowGranted(d)'
           /\ ~WindowGranted(d) /\ WindowGranted(d)' =>
                 IF d = "down" THEN Establish ELSE HandlerGrant \/ ServeBusy \/ HandlerReject
  <2> USE <1>WindowStep
  <2>1. CASE d = "down"
      BY Zenon, <2>1, OpenerSteps DEF WindowGranted, Opener, OpenStream, Establish,
         EstablishFailed, EstablishTimeout, Abandon
  <2>2. CASE d = "up"
    <3>1. ServeOpen \/ ServeBusy => handler = "none"
        BY Zenon, ServedOnce
    <3>2. ServeOpen => handler' = "spawned"
        BY Zenon DEF ServeOpen
    <3>3. \/ HandlerGrant /\ handler = "stored"
          \/ HandlerReject /\ handler = "spawned"
          \/ handler = "spawned" /\ handler' = "stored"
          \/ handler = "running" /\ handler' = "returned"
          \/ ServeBusy \/ ServeOpen \/ handler' = handler
        BY Zenon, HandlerSteps DEF Handler, HandlerReject, HandlerStore, HandlerGrant,
           HandlerOk, HandlerError, HandlerPanic
    <3> QED BY Zenon, <2>2, <3>1, <3>2, <3>3 DEF WindowGranted
  <2> QED BY Zenon, <2>1, <2>2 DEF Dirs
\* A gate's credit changes where its sender pays and where a grant arrives.
<1>GateStep.
    ASSUME TypeOK, [Next]_vars
    PROVE  /\ StreamerAcquire \/ ServeCredit \/ gate'["down"].credit = gate["down"].credit
           /\ OutAcquire \/ RecvCredit \/ gate'["up"].credit = gate["up"].credit
  <2> USE <1>GateStep
  <2>1. gate \in [Dirs -> Gate] /\ \A d \in Dirs : CloseGate(gate[d]).credit = gate[d].credit
      BY Zenon DEF TypeOK, Gate, CloseGate
  <2>2. CASE OutAcquire \/ RecvCredit
      BY Zenon, <2>1, <2>2 DEF OutAcquire, RecvCredit, Dirs
  <2>3. CASE StreamerAcquire \/ ServeCredit
      BY Zenon, <2>1, <2>3 DEF StreamerAcquire, ServeCredit, Dirs
  <2>4. CASE \/ gate' = gate \/ gate' = [gate EXCEPT !["up"] = CloseGate(@)]
             \/ gate' = [gate EXCEPT !["down"] = CloseGate(@)]
      BY Zenon, <2>1, <2>4 DEF Dirs
  <2> QED BY Zenon, <2>2, <2>3, <2>4, GateSteps
\* What a sender has obtained changes with an arriving grant and nothing else: it
\* pays for a value before it sends it, and pays once.
<1>ObtainedStep.
    ASSUME TypeOK, NEW d \in Dirs, NEW n \in Nat,
           \/ /\ gate'[d].credit = gate[d].credit + n
              /\ sent'[d] = sent[d] /\ nulls'[d] = nulls[d]
              /\ sender'[d] = "send" <=> sender[d] = "send"
           \/ /\ gate'[d].credit = gate[d].credit - 1 /\ n = 0
              /\ sent'[d] = sent[d] /\ nulls'[d] = nulls[d]
              /\ sender'[d] = "send" /\ sender[d] # "send"
           \/ /\ gate'[d].credit = gate[d].credit /\ n = 0
              /\ \/ sent'[d] = sent[d] + 1 /\ nulls'[d] = nulls[d]
                 \/ sent'[d] = sent[d] /\ nulls'[d] = nulls[d] + 1
              /\ sender'[d] # "send" /\ sender[d] = "send"
    PROVE  Obtained(d)' = Obtained(d) + n
  <2> USE <1>ObtainedStep
  <2> DEFINE a == gate[d].credit
             s == sent[d]
             u == nulls[d]
             x == IF sender[d] = "send" THEN 1 ELSE 0
  <2>1. a \in Nat /\ s \in Nat /\ u \in Nat /\ x \in Nat
      BY Zenon, CreditTypes, OrderTypes DEF TypeOK
  <2>2. Obtained(d) = a + s + u + x
      BY Zenon DEF Obtained
  <2>3. Obtained(d)' = gate'[d].credit + sent'[d] + nulls'[d]
                         + (IF sender'[d] = "send" THEN 1 ELSE 0)
      BY Zenon DEF Obtained
  <2> HIDE DEF a, s, u
  <2> QED BY <2>1, <2>2, <2>3 DEF a, s, u
\* The credit a gate has after a grant.
<1>GrantCredit.
    ASSUME NEW g \in Gate, NEW n \in Nat PROVE Grant(g, n).credit = g.credit + n
  BY DEF Gate, Grant
\* The streamer's side,
<1>ObtainedDown.
    ASSUME TypeOK, StreamerInv, [Next]_vars
    PROVE  /\ ServeCredit => Obtained("down")' = Obtained("down") + Head(wire["up"]).n
           /\ ~ServeCredit => Obtained("down")' = Obtained("down") + 0
  <2> USE <1>ObtainedDown
  <2>0. "down" \in Dirs /\ "up" \in Dirs /\ 0 \in Nat /\ gate["down"].credit \in Nat
      BY Zenon, CreditTypes DEF Dirs
  <2>1. CASE ServeCredit
    <3>1. /\ gate'["down"] = Grant(gate["down"], Head(wire["up"]).n)
          /\ sent' = sent /\ nulls' = nulls /\ sender' = sender
        BY Zenon, <2>0, <2>1 DEF ServeCredit, TypeOK
    <3>2. Head(wire["up"]).n \in Nat /\ gate["down"] \in Gate
        BY Zenon, <2>0, <2>1, WireTypes DEF ServeCredit, Arrives, TypeOK, Frames
    <3>3. gate'["down"].credit = gate["down"].credit + Head(wire["up"]).n
        BY Zenon, <3>1, <3>2, <1>GrantCredit
    <3> QED BY <2>0, <2>1, <3>1, <3>2, <3>3, <1>ObtainedStep
  <2>2. CASE StreamerAcquire
    <3>1. /\ gate'["down"].credit = gate["down"].credit - 1 /\ sent' = sent /\ nulls' = nulls
          /\ sender["down"] = "gate" /\ sender'["down"] = "send"
        BY Zenon, <2>0, <2>2 DEF StreamerAcquire, Acquire, Goto, TypeOK, Gate
    <3>2. ~ServeCredit
        BY Zenon, <2>2, <3>1 DEF ServeCredit
    <3> QED BY Zenon, <2>0, <3>1, <3>2, <1>ObtainedStep
  <2>3. CASE StreamerSend \/ StreamerSendNull
    <3>1. /\ gate' = gate
          /\ \/ sent'["down"] = sent["down"] + 1 /\ nulls' = nulls
             \/ sent' = sent /\ nulls'["down"] = nulls["down"] + 1
          /\ sender["down"] = "send" /\ sender'["down"] = "take"
        BY Zenon, <2>0, <2>3 DEF StreamerSend, StreamerSendNull, flow, Goto, TypeOK
    <3>2. ~ServeCredit
        BY Zenon, <2>3, <3>1 DEF ServeCredit
    <3> QED BY Zenon, <2>0, <3>1, <3>2, <1>ObtainedStep
  <2>4. CASE ~ServeCredit /\ ~StreamerAcquire /\ ~StreamerSend /\ ~StreamerSendNull
    <3>1. gate'["down"].credit = gate["down"].credit + 0
        BY <2>0, <2>4, <1>GateStep
    <3>2. sent'["down"] = sent["down"] /\ (sender'["down"] = "send" <=> sender["down"] = "send")
      <4>1. CASE HandlerOk
          BY Zenon, <2>0, <4>1 DEF HandlerOk, StreamerInv, Goto, TypeOK
      <4>2. CASE StreamerReady \/ StreamerTake \/ StreamerEnd \/ StreamerRefused
          BY Zenon, <2>0, <4>2 DEF StreamerReady, StreamerTake, StreamerEnd,
             StreamerRefused, Goto, TypeOK
      <4>3. CASE ~HandlerOk /\ ~Streamer
          BY Zenon, <4>3, DownSender
      <4> QED BY Zenon, <2>4, <4>1, <4>2, <4>3 DEF Streamer
    <3>3. nulls'["down"] = nulls["down"]
        BY Zenon, <2>0, <2>4, CountSteps DEF OutSendNull, TypeOK
    <3> QED BY Zenon, <2>0, <2>4, <3>1, <3>2, <3>3, <1>ObtainedStep
  <2> QED BY Zenon, <2>1, <2>2, <2>3, <2>4
\* and streamOut's.
<1>ObtainedUp.
    ASSUME TypeOK, OffInv, [Next]_vars
    PROVE  /\ RecvCredit => Obtained("up")' = Obtained("up") + Head(wire["down"]).n
           /\ ~RecvCredit => Obtained("up")' = Obtained("up") + 0
  <2> USE <1>ObtainedUp
  <2>0. "down" \in Dirs /\ "up" \in Dirs /\ 0 \in Nat /\ gate["up"].credit \in Nat
      BY Zenon, CreditTypes DEF Dirs
  <2>1. CASE RecvCredit
    <3>1. /\ gate'["up"] = Grant(gate["up"], Head(wire["down"]).n)
          /\ sent' = sent /\ nulls' = nulls /\ sender' = sender
        BY Zenon, <2>0, <2>1 DEF RecvCredit, TypeOK
    <3>2. Head(wire["down"]).n \in Nat /\ gate["up"] \in Gate
        BY Zenon, <2>0, <2>1, WireTypes DEF RecvCredit, ClientReads, Arrives, TypeOK,
           Frames
    <3>3. gate'["up"].credit = gate["up"].credit + Head(wire["down"]).n
        BY Zenon, <3>1, <3>2, <1>GrantCredit
    <3> QED BY Zenon, <2>0, <2>1, <3>1, <3>2, <3>3, <1>ObtainedStep
  <2>2. CASE OutAcquire
    <3>1. /\ gate'["up"].credit = gate["up"].credit - 1 /\ sent' = sent /\ nulls' = nulls
          /\ sender["up"] = "gate" /\ sender'["up"] = "send"
        BY Zenon, <2>0, <2>2 DEF OutAcquire, Acquire, Goto, TypeOK, Gate
    <3>2. ~RecvCredit
        BY Zenon, <2>2, <3>1 DEF RecvCredit
    <3> QED BY Zenon, <2>0, <3>1, <3>2, <1>ObtainedStep
  <2>3. CASE OutSend \/ OutSendNull
    <3>1. /\ gate' = gate
          /\ \/ sent'["up"] = sent["up"] + 1 /\ nulls' = nulls
             \/ sent' = sent /\ nulls'["up"] = nulls["up"] + 1
          /\ sender["up"] = "send" /\ sender'["up"] = "loop"
        BY Zenon, <2>0, <2>3 DEF OutSend, OutSendNull, flow, Goto, TypeOK
    <3>2. ~RecvCredit
        BY Zenon, <2>3, <3>1 DEF RecvCredit
    <3> QED BY Zenon, <2>0, <3>1, <3>2, <1>ObtainedStep
  <2>4. CASE ~RecvCredit /\ ~OutAcquire /\ ~OutSend /\ ~OutSendNull
    <3>1. gate'["up"].credit = gate["up"].credit + 0
        BY <2>0, <2>4, <1>GateStep
    <3>2. sent'["up"] = sent["up"] /\ nulls'["up"] = nulls["up"]
        BY Zenon, <2>0, <2>4, UpSent, CountSteps DEF StreamerSendNull, TypeOK
    <3>3. sender'["up"] = "send" <=> sender["up"] = "send"
      <4>1. CASE Establish
          BY Zenon, <2>0, <4>1 DEF Establish, OffInv, TypeOK
      <4>2. CASE OutLoop \/ OutTake \/ OutEnd \/ OutRefused \/ OutFinish \/ OutRetire
          BY Zenon, <2>0, <4>2 DEF OutLoop, OutTake, OutEnd, OutRefused, OutFinish,
             OutRetire, Goto, TypeOK
      <4>3. CASE ~Establish /\ ~StreamOut
          BY Zenon, <4>3, UpSender
      <4> QED BY Zenon, <2>4, <4>1, <4>2, <4>3 DEF StreamOut
    <3> QED BY Zenon, <2>0, <2>4, <3>1, <3>2, <3>3, <1>ObtainedStep
  <2> QED BY Zenon, <2>1, <2>2, <2>3, <2>4
\* The receiver grants back in its hook, and its window where it starts.
<1>GrantedStep.
    ASSUME TypeOK, OpenInv, [Next]_vars, NEW d \in Dirs, OrderInv(d), ~PumpAck(d)
    PROVE  \/ Granted(d)' = Granted(d) + 0
           \/ /\ ~WindowGranted(d) /\ WindowGranted(d)'
              /\ Granted(d)' = Granted(d) + Window[d]
           \/ d = "down" /\ ~HasDown /\ \E x \in Nat : Granted(d)' = Granted(d) + x
  <2> USE <1>GrantedStep
  <2> DEFINE a == Acked(d)
             e == delivered[d]
             m == Window[d]
  <2>1. a \in Int /\ e \in Int /\ m \in Nat
      BY Zenon, CreditTypes, OrderTypes
  <2>2. delivered'[d] = e /\ (WindowGranted(d) => WindowGranted(d)')
      BY Zenon, DeliveredStep, <1>WindowStep
  <2>3. \/ Acked(d)' = a
        \/ d = "down" /\ ~HasDown /\ Acked(d)' = a + 1
      BY Zenon, AckedStep
  <2>4. /\ Granted(d) = (IF WindowGranted(d) THEN m ELSE 0) + a - e
        /\ Granted(d)' = (IF WindowGranted(d)' THEN m ELSE 0) + Acked(d)' - delivered'[d]
      BY Zenon DEF Granted
  <2> HIDE DEF a, e, m
  <2>5. CASE Acked(d)' = a
    <3>1. CASE WindowGranted(d)' = WindowGranted(d)
      <4>1. Granted(d)' = Granted(d)
          BY Zenon, <2>2, <2>4, <2>5, <3>1
      <4>2. Granted(d) \in Int
          BY Zenon, CreditTypes
      <4> QED BY <4>1, <4>2
    <3>2. CASE ~WindowGranted(d) /\ WindowGranted(d)'
      <4>1. Granted(d)' = Granted(d) + m
          BY <2>1, <2>2, <2>4, <2>5, <3>2
      <4> QED BY Zenon, <3>2, <4>1 DEF m
    <3> QED BY <2>2, <3>1, <3>2 DEF WindowGranted
  <2>6. CASE d = "down" /\ ~HasDown /\ Acked(d)' = a + 1
    <3>1. Granted(d)' = Granted(d) + 1 \/ Granted(d)' = Granted(d) + (m + 1)
        BY <2>1, <2>2, <2>4, <2>6
    <3>2. 1 \in Nat /\ m + 1 \in Nat
        BY <2>1
    <3> QED BY Zenon, <2>6, <3>1, <3>2
  <2> QED BY Zenon, <2>3, <2>5, <2>6
\* The pump's hook sends what it takes out of the account.
<1>CreditHook.
    ASSUME TypeOK, [Next]_vars, NEW d \in Dirs, OrderInv(d), PumpAck(d)
    PROVE  Slack(d)' = Slack(d)
  <2> USE <1>CreditHook
  <2> DEFINE a == Acked(d)
             e == delivered[d]
             f == Frame("StreamCredit", delivered[d] + 1)
             g == Granted(d)
             o == Opposite(d)
             v == IF WindowGranted(d) THEN Window[d] ELSE 0
  <2>1. a \in Int /\ e \in Int /\ g \in Int /\ Obtained(d) \in Int /\ Slack(d) \in Int
      BY Zenon, CreditTypes
  <2>2. v \in Int /\ wire[o] \in Seq(Frames) /\ CreditOn(wire[o]) \in Int
    <3>1. Window[d] \in Int /\ wire[o] \in Seq(Frames)
        BY OrderTypes, OppositeDir
    <3>2. CreditOn(wire[o]) \in Int
        BY CreditTypes
    <3> QED BY <3>1, <3>2
  <2>3. /\ gate' = gate /\ sent' = sent /\ nulls' = nulls /\ sender' = sender
        /\ WindowGranted(d)' = WindowGranted(d)
      BY Zenon, PumpAckEffect DEF client, server, WindowGranted
  <2>4. Obtained(d)' = Obtained(d) + 0
    <3>1. Obtained(d)' = Obtained(d)
        BY Zenon, <2>3 DEF Obtained
    <3> QED BY <2>1, <3>1
  <2>5. Acked(d)' = a + 1
      BY Zenon, AckedStep
  <2>6. g = v + a - e /\ Granted(d)' = v + (a + 1) - delivered'[d]
      BY Zenon, <2>3, <2>5 DEF Granted
  <2>7. CASE GrantDue(e, Window[d])
    <3>1. delivered'[d] = 0 /\ wire'[o] = Append(wire[o], f)
        BY Zenon, <2>7, PumpAckEffect DEF TypeOK
    <3>2. f \in Frames /\ Credit(f) = e + 1
        BY Zenon, <2>7, GrantFrame DEF Credit
    <3>3. CreditOn(wire'[o]) = CreditOn(wire[o]) + (e + 1)
        BY Zenon, <2>2, <3>1, <3>2, CreditAppend
    <3> HIDE DEF a, e, g, v, f
    <3>4. Granted(d)' = g + (e + 1)
        BY <2>1, <2>2, <2>6, <3>1
    <3>5. e + 1 \in Int /\ 0 \in Int
        BY <2>1
    <3>6. Slack(d)' = Slack(d) + ((e + 1) - 0 - (e + 1))
        BY Zenon, <2>4, <3>3, <3>4, <3>5, <1>SlackStep DEF g
    <3> QED BY <2>1, <3>6
  <2>8. CASE ~GrantDue(e, Window[d])
    <3>1. delivered'[d] = e + 1 /\ wire' = wire
        BY Zenon, <2>8, PumpAckEffect DEF TypeOK
    <3> HIDE DEF a, e, g, v
    <3>2. Granted(d)' = g + 0
        BY <2>1, <2>2, <2>6, <3>1
    <3>3. CreditOn(wire'[o]) = CreditOn(wire[o]) + 0 /\ 0 \in Int
        BY <2>2, <3>1
    <3>4. Slack(d)' = Slack(d) + (0 - 0 - 0)
        BY Zenon, <2>4, <3>2, <3>3, <1>SlackStep DEF g
    <3> QED BY <2>1, <3>4
  <2> QED BY Zenon, <2>7, <2>8
\* The credit a frame grants is in its number.
<1>FrameCredit.
    ASSUME NEW f \in Frames
    PROVE  /\ Credit(f) \in Nat /\ f.n \in Nat
           /\ f.type = "StreamCredit" => Credit(f) = f.n
           /\ f.type # "StreamCredit" => Credit(f) = 0
  BY Zenon DEF Credit, Frames
\* Every other step: what is granted, what arrives and what is under way.
<1>CreditMove.
    ASSUME TypeOK, NEW d \in Dirs, NEW o, o = Opposite(d), NEW x \in Nat,
           Granted(d)' = Granted(d) + x,
           \/ wire'[o] = wire[o] /\ Obtained(d)' = Obtained(d) + 0
           \/ /\ \E f \in Frames : wire'[o] = Append(wire[o], f) /\ Credit(f) = 0
              /\ Obtained(d)' = Obtained(d) + 0
           \/ /\ wire[o] # << >> /\ wire'[o] = Tail(wire[o])
              /\ \/ Obtained(d)' = Obtained(d) + Credit(Head(wire[o]))
                 \/ Obtained(d)' = Obtained(d) + 0
    PROVE  /\ Slack(d)' >= Slack(d)
           /\ \/ x # 0 \/ Slack(d)' = Slack(d)
              \/ /\ wire[o] # << >> /\ wire'[o] = Tail(wire[o])
                 /\ Head(wire[o]).type = "StreamCredit"
                 /\ Obtained(d)' # Obtained(d) + Credit(Head(wire[o]))
  <2> USE <1>CreditMove
  <2>1. wire[o] \in Seq(Frames) /\ CreditOn(wire[o]) \in Int /\ Slack(d) \in Int /\ 0 \in Int
    <3>1. wire[o] \in Seq(Frames) /\ Slack(d) \in Int /\ CreditOn(wire[o]) \in Nat
        BY Zenon, OrderTypes, OppositeDir, CreditTypes
    <3> QED BY <3>1
  <2>2. ASSUME CreditOn(wire'[o]) = CreditOn(wire[o]) + 0, Obtained(d)' = Obtained(d) + 0
        PROVE  Slack(d)' >= Slack(d) /\ (x # 0 \/ Slack(d)' = Slack(d))
    <3>1. Slack(d)' = Slack(d) + (x - 0 - 0)
        BY <2>1, <2>2, <1>SlackStep
    <3> QED BY <2>1, <3>1
  <2>3. CASE wire'[o] = wire[o] /\ Obtained(d)' = Obtained(d) + 0
      BY <2>1, <2>2, <2>3
  <2>4. CASE /\ \E f \in Frames : wire'[o] = Append(wire[o], f) /\ Credit(f) = 0
             /\ Obtained(d)' = Obtained(d) + 0
      BY Zenon, <2>1, <2>2, <2>4, CreditAppend
  <2>5. CASE /\ wire[o] # << >> /\ wire'[o] = Tail(wire[o])
             /\ \/ Obtained(d)' = Obtained(d) + Credit(Head(wire[o]))
                \/ Obtained(d)' = Obtained(d) + 0
    <3> DEFINE n == Credit(Head(wire[o]))
    <3>1. Head(wire[o]) \in Frames
        BY <2>1, <2>5
    <3>2. n \in Nat /\ (Head(wire[o]).type # "StreamCredit" => n = 0)
        BY Zenon, <3>1, <1>FrameCredit
    <3>3. CreditOn(wire'[o]) = CreditOn(wire[o]) - n
        BY Zenon, <2>1, <2>5, CreditTail
    <3> HIDE DEF n
    <3>4. CreditOn(wire'[o]) = CreditOn(wire[o]) + (0 - n) /\ 0 - n \in Int
        BY SMTT(20), <2>1, <3>2, <3>3
    <3>5. ASSUME Obtained(d)' = Obtained(d) + n
          PROVE  Slack(d)' = Slack(d) + (x - n - (0 - n))
        BY SMTT(20), <2>1, <3>2, <3>4, <3>5, <1>SlackStep
    <3>6. ASSUME Obtained(d)' = Obtained(d) + 0
          PROVE  Slack(d)' = Slack(d) + (x - 0 - (0 - n))
        BY SMTT(20), <2>1, <3>2, <3>4, <3>6, <1>SlackStep
    <3>7. CASE Obtained(d)' = Obtained(d) + n
        BY SMTT(20), <2>1, <3>2, <3>5, <3>7
    <3>8. CASE Obtained(d)' = Obtained(d) + 0 /\ Obtained(d)' # Obtained(d) + n
      <4>1. Slack(d)' = Slack(d) + (x + n)
          BY <2>1, <3>2, <3>6, <3>8
      <4> QED BY SMTT(20), <2>1, <2>5, <3>2, <3>8, <4>1 DEF n
    <3> QED BY Zenon, <2>5, <3>7, <3>8 DEF n
  <2> QED BY Zenon, <2>3, <2>4, <2>5
\* Towards the client: a grant is lost only on its way to a request the server no
\* longer knows.
<1>SlackDown.
    ASSUME TypeOK, NoEarlyFrame, OpenInv, StreamerInv, OrderInv("down"), [Next]_vars
    PROVE  /\ Slack("down")' >= Slack("down")
           /\ HasDown /\ Mapped("up") => Slack("down")' = Slack("down")
  <2> USE <1>SlackDown
  <2>0. /\ "down" \in Dirs /\ Opposite("down") = "up" /\ wire["up"] \in Seq(Frames)
        /\ wire \in [Dirs -> Seq(Frames)] /\ Slack("down") \in Int
        /\ Window["down"] \in Nat /\ 0 \in Nat /\ CreditOn(wire["up"]) \in Int
    <3>1. /\ "down" \in Dirs /\ Opposite("down") = "up" /\ wire["up"] \in Seq(Frames)
          /\ wire \in [Dirs -> Seq(Frames)]
        BY Zenon DEF Dirs, Opposite, TypeOK
    <3>2. /\ Slack("down") \in Int /\ Window["down"] \in Nat
          /\ CreditOn(wire["up"]) \in Nat
        BY Zenon, <3>1, CreditTypes, OrderTypes
    <3> QED BY <3>1, <3>2
  <2>1. CASE PumpAck("down")
      BY <2>0, <2>1, <1>CreditHook
  <2>2. CASE Establish /\ HasDown /\ ~PumpAck("down")
    <3> DEFINE f == Frame("StreamCredit", Window["down"])
    <3>1. wire'["up"] = Append(wire["up"], f)
        BY Zenon, <2>0, <2>2, WireStep DEF Establish
    <3>2. f \in Frames /\ Credit(f) = Window["down"]
        BY <2>0, FrameType DEF FrameTypes, Credit
    <3>3. CreditOn(wire'["up"]) = CreditOn(wire["up"]) + Window["down"]
        BY Zenon, <2>0, <3>1, <3>2, CreditAppend
    <3>4. Granted("down")' = Granted("down") + Window["down"]
      <4>1. ~WindowGranted("down") /\ WindowGranted("down")'
          BY Zenon, <2>2 DEF Establish, WindowGranted
      <4>2. Acked("down")' = Acked("down") /\ delivered'["down"] = delivered["down"]
          BY Zenon, <2>0, <2>2, AckedStep, DeliveredStep
      <4>3. /\ Granted("down") = 0 + Acked("down") - delivered["down"]
            /\ Granted("down")' = Window["down"] + Acked("down") - delivered["down"]
          BY Zenon, <4>1, <4>2 DEF Granted
      <4>4. Acked("down") \in Int /\ delivered["down"] \in Int
          BY Zenon, <2>0, CreditTypes
      <4> QED BY <2>0, <4>3, <4>4
    <3>5. Obtained("down")' = Obtained("down") + 0
      <4>1. ~ServeCredit
          BY Zenon, <2>2 DEF Establish, ServeCredit, client
      <4> QED BY Zenon, <4>1, <1>ObtainedDown
    <3>6. Slack("down")' = Slack("down") + (Window["down"] - 0 - Window["down"])
        BY <2>0, <3>3, <3>4, <3>5, <1>SlackStep
    <3> QED BY <2>0, <3>6
  <2>3. CASE ~PumpAck("down") /\ ~(Establish /\ HasDown)
    <3>1. PICK x \in Nat : /\ Granted("down")' = Granted("down") + x
                           /\ HasDown => x = 0
        BY Zenon, <2>0, <2>3, <1>GrantedStep, <1>WindowStep
    <3>2. CASE ServeCredit
      <4>1. /\ wire["up"] # << >> /\ Head(wire["up"]).type = "StreamCredit"
            /\ wire'["up"] = Tail(wire["up"])
          BY Zenon, <2>0, <3>2, WireStep DEF ServeCredit, Arrives
      <4>2. Credit(Head(wire["up"])) = Head(wire["up"]).n /\ Head(wire["up"]).n \in Nat
          BY <2>0, <4>1, <1>FrameCredit
      <4>3. Obtained("down")' = Obtained("down") + Head(wire["up"]).n
          BY Zenon, <3>2, <1>ObtainedDown
      <4> QED BY Zenon, <2>0, <3>1, <4>1, <4>2, <4>3, <1>CreditMove
    <3>3. CASE ~ServeCredit
      <4>1. Obtained("down")' = Obtained("down") + 0
          BY Zenon, <3>3, <1>ObtainedDown
      <4>2. \/ wire'["up"] = wire["up"]
            \/ \E f \in Frames : wire'["up"] = Append(wire["up"], f) /\ Credit(f) = 0
            \/ wire["up"] # << >> /\ wire'["up"] = Tail(wire["up"])
          BY Zenon, <2>3, UpFrames, <1>FrameCredit DEF UpFrame, SentUp
      <4>3. Mapped("up") => ~(/\ wire["up"] # << >> /\ wire'["up"] = Tail(wire["up"])
                              /\ Head(wire["up"]).type = "StreamCredit")
        <5> SUFFICES ASSUME Mapped("up"), wire["up"] # << >>, wire'["up"] = Tail(wire["up"]),
                            Head(wire["up"]).type = "StreamCredit"
                     PROVE  FALSE
            BY Zenon
        <5>1. ReadUp(Head(wire["up"]))
          <6>1. /\ Len(Tail(wire["up"])) # Len(wire["up"])
                /\ \A f \in Frames : Len(Append(wire["up"], f)) # Len(Tail(wire["up"]))
              BY <2>0
          <6> QED BY Zenon, <6>1, UpFrames DEF UpFrame
        <5>2. ServeUnknown
            BY Zenon, <3>3, <5>1 DEF ReadUp
        <5>3. handler \in {"none", "spawned"}
            BY Zenon, <5>2 DEF ServeUnknown, Mapped
        <5>4. Head(wire["up"]) = wire["up"][1] /\ 1 \in 1..Len(wire["up"])
            BY <2>0
        <5> QED BY Zenon, <5>3, <5>4 DEF NoEarlyFrame
      <4> QED BY Zenon, <2>0, <3>1, <4>1, <4>2, <4>3, <1>CreditMove
    <3> QED BY Zenon, <3>2, <3>3
  <2> QED BY Zenon, <2>0, <2>1, <2>2, <2>3
\* Towards the server: a grant is lost only on its way to a request the client no
\* longer knows, and a request turned down is granted nothing.
<1>SlackUp.
    ASSUME TypeOK, IdleInv, EarlyInv, OpenInv, OffInv, OrderInv("up"), [Next]_vars
    PROVE  /\ Slack("up")' >= Slack("up")
           /\ HasUp /\ Mapped("down") /\ Mapped("up")' => Slack("up")' = Slack("up")
  <2> USE <1>SlackUp
  <2>0. /\ "up" \in Dirs /\ Opposite("up") = "down" /\ wire["down"] \in Seq(Frames)
        /\ wire \in [Dirs -> Seq(Frames)] /\ Slack("up") \in Int
        /\ Window["up"] \in Nat /\ 0 \in Nat /\ CreditOn(wire["down"]) \in Int
    <3>1. /\ "up" \in Dirs /\ Opposite("up") = "down" /\ wire["down"] \in Seq(Frames)
          /\ wire \in [Dirs -> Seq(Frames)]
        BY Zenon DEF Dirs, Opposite, TypeOK
    <3>2. /\ Slack("up") \in Int /\ Window["up"] \in Nat
          /\ CreditOn(wire["down"]) \in Nat
        BY Zenon, <3>1, CreditTypes, OrderTypes
    <3> QED BY <3>1, <3>2
  <2>1. CASE PumpAck("up")
      BY <2>0, <2>1, <1>CreditHook
  <2>2. CASE HandlerGrant /\ HasUp /\ ~PumpAck("up")
    <3> DEFINE f == Frame("StreamCredit", Window["up"])
    <3>1. wire'["down"] = Append(wire["down"], f)
        BY Zenon, <2>0, <2>2, WireStep DEF HandlerGrant
    <3>2. f \in Frames /\ Credit(f) = Window["up"]
        BY <2>0, FrameType DEF FrameTypes, Credit
    <3>3. CreditOn(wire'["down"]) = CreditOn(wire["down"]) + Window["up"]
        BY Zenon, <2>0, <3>1, <3>2, CreditAppend
    <3>4. Granted("up")' = Granted("up") + Window["up"]
      <4>1. ~WindowGranted("up") /\ WindowGranted("up")'
          BY Zenon, <2>2 DEF HandlerGrant, WindowGranted
      <4>2. Acked("up")' = Acked("up") /\ delivered'["up"] = delivered["up"]
          BY Zenon, <2>0, <2>2, AckedStep, DeliveredStep
      <4>3. /\ Granted("up") = 0 + Acked("up") - delivered["up"]
            /\ Granted("up")' = Window["up"] + Acked("up") - delivered["up"]
          BY Zenon, <4>1, <4>2 DEF Granted
      <4>4. Acked("up") \in Int /\ delivered["up"] \in Int
          BY Zenon, <2>0, CreditTypes
      <4> QED BY <2>0, <4>3, <4>4
    <3>5. Obtained("up")' = Obtained("up") + 0
      <4>1. ~RecvCredit
          BY Zenon, <2>2 DEF HandlerGrant, RecvCredit, server
      <4> QED BY Zenon, <4>1, <1>ObtainedUp
    <3>6. Slack("up")' = Slack("up") + (Window["up"] - 0 - Window["up"])
        BY <2>0, <3>3, <3>4, <3>5, <1>SlackStep
    <3> QED BY <2>0, <3>6
  <2>3. CASE ~PumpAck("up") /\ ~(HandlerGrant /\ HasUp)
    <3>1. PICK x \in Nat : /\ Granted("up")' = Granted("up") + x
                           /\ x # 0 => ~WindowGranted("up") /\ WindowGranted("up")'
        BY Zenon, <2>0, <2>3, <1>GrantedStep
    <3>2. HasUp /\ Mapped("up")' => x = 0
      <4> SUFFICES ASSUME HasUp, Mapped("up")', x # 0 PROVE FALSE
          BY Zenon
      <4>1. ServeBusy \/ HandlerReject
          BY Zenon, <2>0, <2>3, <3>1, <1>WindowStep
      <4>2. handler' = "returned" /\ sr' = sr
          BY Zenon, <4>1 DEF ServeBusy, HandlerReject
      <4>3. handler \in {"none", "spawned"}
          BY Zenon, <4>1, ServedOnce DEF HandlerReject
      <4> QED BY Zenon, <4>2, <4>3 DEF EarlyInv, Mapped
    <3>3. CASE RecvCredit
      <4>1. /\ wire["down"] # << >> /\ Head(wire["down"]).type = "StreamCredit"
            /\ wire'["down"] = Tail(wire["down"])
          BY Zenon, <2>0, <3>3, WireStep DEF RecvCredit, ClientReads, Arrives
      <4>2. Credit(Head(wire["down"])) = Head(wire["down"]).n /\ Head(wire["down"]).n \in Nat
          BY <2>0, <4>1, <1>FrameCredit
      <4>3. Obtained("up")' = Obtained("up") + Head(wire["down"]).n
          BY Zenon, <3>3, <1>ObtainedUp
      <4> QED BY Zenon, <2>0, <3>1, <3>2, <4>1, <4>2, <4>3, <1>CreditMove
    <3>4. CASE ~RecvCredit
      <4>1. Obtained("up")' = Obtained("up") + 0
          BY Zenon, <3>4, <1>ObtainedUp
      <4>2. \/ wire'["down"] = wire["down"]
            \/ \E f \in Frames : wire'["down"] = Append(wire["down"], f) /\ Credit(f) = 0
            \/ wire["down"] # << >> /\ wire'["down"] = Tail(wire["down"])
          BY Zenon, <2>3, DownFrames, <1>FrameCredit DEF DownFrame, SentDown
      <4>3. Mapped("down") => ~(/\ wire["down"] # << >> /\ wire'["down"] = Tail(wire["down"])
                                /\ Head(wire["down"]).type = "StreamCredit")
        <5> SUFFICES ASSUME Mapped("down"), wire["down"] # << >>,
                            wire'["down"] = Tail(wire["down"]),
                            Head(wire["down"]).type = "StreamCredit"
                     PROVE  FALSE
            BY Zenon
        <5>1. ReadDown(Head(wire["down"]))
          <6>1. /\ Len(Tail(wire["down"])) # Len(wire["down"])
                /\ \A f \in Frames : Len(Append(wire["down"], f)) # Len(Tail(wire["down"]))
              BY <2>0
          <6> QED BY Zenon, <6>1, DownFrames DEF DownFrame
        <5>2. RecvUnknown
            BY Zenon, <3>4, <5>1 DEF ReadDown
        <5>3. opener = "idle"
            BY Zenon, <5>2 DEF RecvUnknown, Mapped
        <5> QED BY Zenon, <5>3 DEF IdleInv, EarlyInv
      <4> QED BY Zenon, <2>0, <3>1, <3>2, <4>1, <4>2, <4>3, <1>CreditMove
    <3> QED BY Zenon, <3>3, <3>4
  <2> QED BY Zenon, <2>0, <2>1, <2>2, <2>3
<1> SUFFICES ASSUME TypeOK, TypeOK', ControlInv, [Next]_vars, NEW d \in Dirs,
                    OrderInv(d), CreditInv(d)
             PROVE  CreditInv(d)'
    BY Zenon
<1>1. Slack(d) \in Int /\ Slack(d)' \in Int /\ 0 \in Int
    BY CreditTypes, CreditTypesNext
<1>2. Has(d)' = Has(d)
    BY Zenon, KindFixed DEF Has, HasDown, HasUp
<1>3. /\ Mapped("down")' => Mapped("down")
      /\ Mapped("up")' => Mapped("up")
    BY Zenon, MappedDown, MappedUp DEF ControlInv
<1>4. /\ Slack(d)' >= Slack(d)
      /\ Has(d) /\ Mapped("down") /\ Mapped("up") /\ Mapped("up")' => Slack(d)' = Slack(d)
    BY Zenon, <1>SlackDown, <1>SlackUp DEF ControlInv, Dirs, Has
<1> QED BY <1>1, <1>2, <1>3, <1>4 DEF CreditInv

\* An application takes the values one by one, the first with the established stream.
LEMMA GotStep ==
    ASSUME TypeOK, [Next]_vars, NEW d \in Dirs, OrderInv(d)
    PROVE  \/ got'[d] = got[d] /\ (d = "down" => ~Establish /\ ~AppReceive)
           \/ /\ got'[d] = got[d] + 1 /\ chan[d] # << >>
              /\ IF d = "down" THEN Establish \/ AppReceive ELSE HandlerReceive
<1>0. /\ "up" \in Dirs /\ "down" \in Dirs /\ got[d] \in Int /\ chan[d] \in Seq(Int)
      /\ pump[d] \in Pump
    BY Zenon, OrderTypes DEF Dirs
<1>1. ASSUME chan[d] # << >>, got'[d] = Head(chan[d]) PROVE got'[d] = got[d] + 1
    BY Zenon, <1>0, <1>1, TakeOrdered DEF OrderInv
<1>2. CASE Establish \/ AppReceive
  <2>1. /\ chan["down"] # << >> /\ got'["down"] = Head(chan["down"])
        /\ got'["up"] = got["up"]
      BY Zenon, <1>0, <1>2 DEF Establish, AppReceive, TypeOK
  <2> QED BY Zenon, <1>1, <1>2, <2>1 DEF Dirs
<1>3. CASE HandlerReceive /\ ~Establish /\ ~AppReceive
  <2>1. /\ chan["up"] # << >> /\ got'["up"] = Head(chan["up"])
        /\ got'["down"] = got["down"]
      BY Zenon, <1>0, <1>3 DEF HandlerReceive, TypeOK
  <2> QED BY Zenon, <1>1, <1>3, <2>1 DEF Dirs
<1>4. CASE got' = got /\ ~Establish /\ ~AppReceive
    BY Zenon, <1>4
<1> QED BY Zenon, <1>2, <1>3, <1>4, ChannelSteps DEF RecvReady, PumpDeliver

\* The channel's numbers only go up, and StreamReady is number 0.
LEMMA NextEstablished ==
    ASSUME TypeOK, OrderInv("down"), EstablishedInv, [Next]_vars
    PROVE  EstablishedInv'
<1>0. "down" \in Dirs /\ got["down"] \in Int
    BY Zenon, OrderTypes DEF Dirs
<1>1. CASE Establish
  <2>1. opener' = "open" /\ opener = "establishing" /\ got'["down"] = got["down"] + 1
      BY Zenon, <1>0, <1>1, GotStep DEF Establish
  <2> QED BY <1>0, <2>1 DEF EstablishedInv
<1>2. CASE AppReceive /\ ~Establish
  <2>1. opener' = "open" /\ opener = "open" /\ got'["down"] = got["down"] + 1
      BY Zenon, <1>0, <1>2, GotStep DEF AppReceive, client
  <2> QED BY <1>0, <2>1 DEF EstablishedInv
<1>3. CASE ~Establish /\ ~AppReceive
  <2>1. got'["down"] = got["down"]
      BY Zenon, <1>0, <1>3, GotStep
  <2>2. opener' = opener \/ opener' \in {"establishing", "abandoning", "failed"}
      BY Zenon, <1>3, OpenerSteps DEF Opener, OpenStream, EstablishFailed,
         EstablishTimeout, Abandon
  <2>3. opener' # opener => opener \in {"idle", "establishing", "abandoning"}
      BY Zenon, <1>3, OpenerSteps DEF Opener, OpenStream, EstablishFailed,
         EstablishTimeout, Abandon
  <2> QED BY Zenon, <1>0, <2>1, <2>2, <2>3 DEF EstablishedInv
<1> QED BY Zenon, <1>1, <1>2, <1>3

\* The count of deliveries leaves -1 with the acknowledgement's own delivery.
LEMMA NextDelivered ==
    ASSUME TypeOK, [Next]_vars, NEW d \in Dirs, OrderInv(d), DeliveredInv(d)
    PROVE  DeliveredInv(d)'
<1>0. /\ delivered[d] \in Int /\ Acked(d) \in Int /\ HasDown' = HasDown
    BY Zenon, LedgerTypes, KindFixed DEF HasDown
<1> SUFFICES ASSUME d = "up" \/ HasDown
             PROVE  delivered'[d] >= 0 \/ (delivered'[d] = -1 /\ Acked(d)' = -1)
    BY Zenon, <1>0 DEF DeliveredInv
<1>1. delivered[d] >= 0 \/ (delivered[d] = -1 /\ Acked(d) = -1)
    BY Zenon DEF DeliveredInv
<1>2. \/ delivered'[d] = 0 \/ delivered'[d] = delivered[d] + 1
      \/ delivered'[d] = delivered[d] /\ Acked(d)' = Acked(d)
    BY Zenon, DeliveredStep, AckedStep
<1> QED BY <1>0, <1>1, <1>2

\* The ledger at the start: nothing granted, nothing obtained.
LEMMA InitCredit == ASSUME CreditLaws, Init, TypeOK PROVE CreditsInv
<1>1. ASSUME NEW d \in Dirs PROVE CreditInv(d) /\ DeliveredInv(d)
  <2>1. /\ wire[Opposite(d)] = << >> /\ gate[d].credit = 0 /\ sent[d] = 0 /\ nulls[d] = 0
        /\ sender[d] = "off" /\ got[d] = delivered[d] /\ chan[d] = << >>
        /\ ~pump[d].acking /\ opener = "idle" /\ handler = "none"
        /\ delivered[d] = (IF d = "down" THEN -1 ELSE 0)
      BY Zenon, OppositeDir DEF Init, NewCreditGate, NewStreamPump
  <2>2. Acked(d) = delivered[d] /\ delivered[d] \in Int
    <3>1. Len(chan[d]) = 0 /\ Hooked(pump[d]) = 0
        BY Zenon, <2>1 DEF Hooked
    <3>2. Acked(d) = got[d] + 0 - 0
        BY Zenon, <3>1, Zenon DEF Acked
    <3>3. got[d] \in Int
        BY Zenon, OrderTypes
    <3>4. got[d] = delivered[d]
        BY Zenon, <2>1
    <3> QED BY <3>2, <3>3, <3>4
  <2>3. Obtained(d) = 0
      BY <2>1 DEF Obtained
  <2>4. Granted(d) = 0
      BY <2>1, <2>2 DEF Granted, WindowGranted
  <2>5. Slack(d) = 0
    <3>1. CreditOn(wire[Opposite(d)]) = 0
        BY Zenon, <2>1 DEF CreditLaws
    <3> QED BY <2>3, <2>4, <3>1 DEF Slack
  <2>6. DeliveredInv(d)
      BY <2>1, <2>2 DEF DeliveredInv
  <2> QED BY <2>5, <2>6 DEF CreditInv
<1>2. EstablishedInv
    BY Zenon DEF Init, EstablishedInv, Dirs
<1> QED BY Zenon, <1>1, <1>2 DEF CreditsInv

-----------------------------------------------------------------------------
(* What the ledger means *)

Sending(d) == IF sender[d] = "send" THEN 1 ELSE 0

\* What the receiver and the sender of d have counted.
LEMMA Counted ==
    ASSUME CreditLaws, TypeOK, NEW d \in Dirs
    PROVE  /\ got[d] \in Int /\ Len(chan[d]) \in Nat /\ Held(pump[d]) \in {0, 1}
           /\ Len(pump[d].queue) \in Nat /\ Hooked(pump[d]) \in {0, 1}
           /\ delivered[d] \in Int /\ Window[d] \in Nat /\ Window[d] >= 1
           /\ sent[d] \in Nat /\ nulls[d] \in Nat /\ Sending(d) \in {0, 1}
           /\ gate[d].credit \in Nat
           /\ CreditOn(wire[Opposite(d)]) \in Nat
           /\ LastIn(d) = got[d] + Len(chan[d]) + Held(pump[d]) + Len(pump[d].queue)
           /\ Acked(d) = got[d] + Len(chan[d]) - Hooked(pump[d])
           /\ Obtained(d) = gate[d].credit + sent[d] + nulls[d] + Sending(d)
           /\ Slack(d) = ((IF WindowGranted(d) THEN Window[d] ELSE 0) + Acked(d)
                           - delivered[d]) - Obtained(d) - CreditOn(wire[Opposite(d)])
<1>1. /\ got[d] \in Int /\ Window[d] \in Nat /\ Window[d] >= 1
      /\ sent[d] \in Nat /\ nulls[d] \in Nat
    BY Zenon, OrderTypes DEF TypeOK
<1>2. /\ Len(chan[d]) \in Nat /\ Hooked(pump[d]) \in {0, 1} /\ delivered[d] \in Int
      /\ gate[d].credit \in Nat /\ CreditOn(wire[Opposite(d)]) \in Nat
    BY Zenon, CreditTypes
<1>3. Held(pump[d]) \in {0, 1} /\ Sending(d) \in {0, 1}
    BY Zenon DEF Held, Sending
<1>4. Len(pump[d].queue) \in Nat
  <2>1. pump[d].queue \in Seq(Int)
      BY Zenon, OrderTypes DEF Pump
  <2> QED BY <2>1
<1>5. /\ LastIn(d) = got[d] + Len(chan[d]) + Held(pump[d]) + Len(pump[d].queue)
      /\ Acked(d) = got[d] + Len(chan[d]) - Hooked(pump[d])
      /\ Obtained(d) = gate[d].credit + sent[d] + nulls[d] + Sending(d)
      /\ Slack(d) = ((IF WindowGranted(d) THEN Window[d] ELSE 0) + Acked(d)
                      - delivered[d]) - Obtained(d) - CreditOn(wire[Opposite(d)])
    BY Zenon DEF LastIn, Last, Acked, Obtained, Sending, Slack, Granted
<1> QED BY Zenon, <1>1, <1>2, <1>3, <1>4, <1>5

\* A value is sent for a credit of the window or of a delivery that was counted.
LEMMA PaidFor ==
    ASSUME CreditLaws, TypeOK, NEW d \in Dirs, CreditInv(d), DeliveredInv(d), d = "up" \/ HasDown
    PROVE  sent[d] + Sending(d) <= (IF WindowGranted(d) THEN Window[d] ELSE 0)
                                     + (IF Acked(d) < 0 THEN 0 ELSE Acked(d))
<1> DEFINE s == sent[d]
           u == nulls[d]
           x == Sending(d)
           b == gate[d].credit
           w == CreditOn(wire[Opposite(d)])
           e == delivered[d]
           a == Acked(d)
           v == IF WindowGranted(d) THEN Window[d] ELSE 0
<1>1. /\ s \in Nat /\ u \in Nat /\ x \in {0, 1} /\ b \in Nat /\ w \in Nat /\ e \in Int
      /\ Window[d] \in Nat /\ Slack(d) = (v + a - e) - Obtained(d) - w
      /\ Obtained(d) = b + s + u + x
    BY Zenon, Counted
<1>2. a \in Int
    BY Zenon, CreditTypes
<1>3. v \in Nat
    BY Zenon, <1>1
<1>4. e >= 0 \/ (e = -1 /\ a = -1)
    BY Zenon DEF DeliveredInv
<1>5. (v + a - e) - (b + s + u + x) - w >= 0
    BY Zenon, <1>1 DEF CreditInv
<1> HIDE DEF s, u, x, b, w, e, a, v
<1>6. s + x <= v + (IF a < 0 THEN 0 ELSE a)
    BY <1>1, <1>2, <1>3, <1>4, <1>5
<1> QED BY Zenon, <1>6 DEF s, x, a, v

\* A value under way was paid for with a credit, and the credits granted are
\* the window and one for each delivery counted, so the queue is not full.
LEMMA CreditedFits ==
    ASSUME CreditLaws, TypeOK, PutInv, NEW d \in Dirs, OrderInv(d), CreditInv(d),
           DeliveredInv(d), EstablishedInv, Arrives(d, "StreamValue"), InMap(d),
           ~pump[d].inputEnd, ~pump[d].stopped
    PROVE  Len(pump[d].queue) < Window[d]
<1> DEFINE n == Head(wire[d]).n
           g == got[d]
           c == Len(chan[d])
           h == Held(pump[d])
           q == Len(pump[d].queue)
           k == Hooked(pump[d])
           m == Window[d]
           s == sent[d]
           x == Sending(d)
           a == Acked(d)
           v == IF WindowGranted(d) THEN m ELSE 0
<1>1. /\ g \in Int /\ c \in Nat /\ h \in {0, 1} /\ q \in Nat /\ k \in {0, 1}
      /\ m \in Nat /\ m >= 1 /\ s \in Nat /\ x \in {0, 1}
      /\ LastIn(d) = g + c + h + q /\ a = g + c - k
    BY Zenon, Counted
<1>2. /\ wire[d] # << >> /\ wire[d] \in Seq(Frames) /\ Head(wire[d]).type = "StreamValue"
    BY Zenon, OrderTypes DEF Arrives
<1>3. d = "up" \/ HasDown
  <2>1. CASE kind = "put" /\ d = "down"
    <3>1. Head(wire["down"]) = wire["down"][1] /\ 1 \in 1..Len(wire["down"])
        BY <1>2, <2>1
    <3> QED BY Zenon, <1>2, <2>1, <3>1 DEF PutInv
  <2>2. kind \in StreamKinds
      BY Zenon, KindsAssumption DEF TypeOK, RequestContexts, kind
  <2> QED BY Zenon, <2>1, <2>2 DEF Dirs, StreamKinds, HasDown
<1>4. n = LastIn(d) + 1 /\ n <= LastOut(d) /\ n \in Nat
  <2>1. Mapped(d) /\ Accepts(pump[d])
      BY Zenon DEF InMap, Mapped, Accepts
  <2>2. Head(wire[d]) \in Frames /\ Head(wire[d]).type \in DataTypes
      BY <1>2 DEF DataTypes
  <2>3. n \in Nat
      BY Zenon, <2>2 DEF Frames
  <2> QED BY Zenon, <1>2, <2>1, <2>2, <2>3, ArrivalOrdered
<1>5. LastOut(d) = s
    BY SMTT(20), <1>1, <1>4 DEF LastOut
<1>6. s + x <= v + (IF a < 0 THEN 0 ELSE a)
    BY Zenon, <1>3, PaidFor
<1>7. g >= -1 /\ (g < 0 => v = 0)
  <2>1. g >= -1 /\ (d = "up" => g >= 0)
      BY <1>1 DEF OrderInv, Dirs
  <2>2. WindowGranted(d) /\ d = "down" => g >= 0
      BY Zenon DEF WindowGranted, EstablishedInv
  <2> QED BY <1>1, <2>1, <2>2 DEF Dirs
<1>8. v = m \/ v = 0
    BY Zenon
<1>9. g + c + h + q + 1 <= s
    BY Zenon, <1>1, <1>4, <1>5
<1> HIDE DEF n, g, c, h, q, k, m, s, x, a, v
<1>10. q < m
    BY <1>1, <1>6, <1>7, <1>8, <1>9
<1> QED BY Zenon, <1>10 DEF q, m

\* The credit part of the inductive invariant is kept.
LEMMA NextCredits ==
    ASSUME CreditLaws, TypeOK, TypeOK', ControlInv, OrderInv("up"), OrderInv("down"),
           CreditsInv, [Next]_vars
    PROVE  CreditsInv'
<1>1. ASSUME NEW d \in Dirs PROVE CreditInv(d)' /\ DeliveredInv(d)'
  <2>1. OrderInv(d) /\ CreditInv(d) /\ DeliveredInv(d)
      BY Zenon DEF Dirs, CreditsInv
  <2> QED BY Zenon, <2>1, NextCredit, NextDelivered
<1>2. EstablishedInv'
    BY Zenon, NextEstablished DEF CreditsInv
<1> QED BY Zenon, <1>1, <1>2 DEF CreditsInv

StreamInv == /\ TypeOK /\ ControlInv /\ OrderInv("up") /\ OrderInv("down")
             /\ CreditsInv

-----------------------------------------------------------------------------
(* Completeness *)

\* The client has given the stream up, or is about to.
GivenUp == \/ cancelled \/ watcher = "cancelling" \/ opener = "abandoning"
           \/ pump["down"].stopped

\* A cancel is sent by a client that gives up, or for a value refused after the end.
CancelInv ==
    HasDown => \A f \in Under(wire["up"]) :
                  f.type = "Cancel" => GivenUp \/ sender["down"] = "done"

\* The serving request is closed by a cancel, by a failing handler or at the end.
ClosedInv ==
    HasDown /\ sr.closed => \/ GivenUp \/ sender["down"] = "done"
                            \/ sender["down"] = "off" /\ handler = "returned"

\* A final value travels in the StreamEnd of a stream that was given up.
FinalInv ==
    \A f \in Under(wire["down"]) :
        f.type = "StreamEnd" => sr.closed /\ (f.n # 0 => GivenUp)

\* A pump whose input has ended was given everything that was sent.
DrainedInv ==
    /\ HasDown /\ pump["down"].inputEnd /\ ~pump["down"].stopped
         => /\ sender["down"] = "done" /\ LastIn("down") >= 0
            /\ GivenUp \/ LastIn("down") = sent["down"]
    /\ pump["up"].inputEnd /\ ~pump["up"].stopped
         => EndedOut("up") /\ LastIn("up") = sent["up"]

\* The server never sees its inbound queue overrun.
RoomInv == ~pump["up"].overflow

\* watchContext runs for an established stream.
WatchInv == opener # "open" => watcher = "off"

CompleteInv == WatchInv /\ CancelInv /\ ClosedInv /\ FinalInv /\ DrainedInv /\ RoomInv

-----------------------------------------------------------------------------
(* How the input of a pump ends *)

\* The parts of the invariant by name.
LEMMA StreamParts ==
    ASSUME StreamInv
    PROVE  /\ TypeOK /\ IdleInv /\ EarlyInv /\ NoEarlyFrame /\ OpenInv /\ StreamerInv
           /\ PutInv /\ OffInv /\ EndInv
           /\ \A d \in Dirs : OrderInv(d) /\ CreditInv(d) /\ DeliveredInv(d)
           /\ EstablishedInv /\ "up" \in Dirs /\ "down" \in Dirs
    BY Zenon DEF StreamInv, ControlInv, CreditsInv, Dirs

\* A frame with a number reaches the receiver of d.
ArriveStep(d) == IF d = "down" THEN DownRecvs ELSE ServeValue

\* A value that arrives is not refused for lack of room.
LEMMA NoOverrun ==
    ASSUME CreditLaws, StreamInv, NEW d \in Dirs, wire[d] # << >>,
           Head(wire[d]).type = "StreamValue", InMap(d), Accepts(pump[d])
    PROVE  PushAccepted(pump[d], Window[d])
<1>1. /\ TypeOK /\ PutInv /\ OrderInv(d) /\ CreditInv(d) /\ DeliveredInv(d)
      /\ EstablishedInv
    BY Zenon, StreamParts
<1>2. Len(pump[d].queue) < Window[d]
    BY Zenon, <1>1, CreditedFits DEF Arrives, Accepts
<1> QED BY Zenon, <1>2 DEF PushAccepted, Accepts

\* A streamer that is done stays done.
LEMMA DoneKept ==
    ASSUME StreamInv, [Next]_vars, sender["down"] = "done"
    PROVE  sender'["down"] = "done" /\ sent'["down"] = sent["down"]
<1>1. TypeOK /\ StreamerInv /\ OffInv /\ "down" \in Dirs
    BY Zenon, StreamParts
<1>2. EndedOut("down")
    BY Zenon DEF EndedOut
<1>3. EndedOut("down")' /\ sent'["down"] = sent["down"]
    BY Zenon, <1>1, <1>2, EndedKept
<1> QED BY Zenon, <1>3 DEF EndedOut

\* A value that reaches the server is queued, or dropped by a pump that has ended;
\* it does not end the stream.
LEMMA ServedValue ==
    ASSUME CreditLaws, StreamInv, RoomInv, ServeValue
    PROVE  /\ sr' = sr /\ ~pump'["up"].overflow
           /\ pump'["up"] = Push(pump["up"], Window["up"], Head(wire["up"]).n)
           /\ pump'["up"].inputEnd => pump["up"].inputEnd \/ pump["up"].stopped
<1> DEFINE p == Push(pump["up"], Window["up"], Head(wire["up"]).n)
<1>0. /\ TypeOK /\ "up" \in Dirs /\ pump["up"] \in Pump /\ Window["up"] \in Nat
      /\ wire["up"] \in Seq(Frames)
    BY Zenon, StreamParts, OrderTypes
<1>1. /\ wire["up"] # << >> /\ Head(wire["up"]).type = "StreamValue" /\ InMap("up")
      /\ ~p.overflow => sr' = sr /\ pump'["up"] = p
    BY Zenon, <1>0, ServeValueEffect DEF InMap
<1>2. Head(wire["up"]).n \in Int
  <2>1. Head(wire["up"]) \in Frames
      BY <1>0, <1>1
  <2> QED BY <2>1 DEF Frames
<1>3. \/ PushAccepted(pump["up"], Window["up"])
      \/ pump["up"].inputEnd \/ pump["up"].stopped
    BY Zenon, <1>0, <1>1, NoOverrun DEF Accepts
<1>4. p.inputEnd = pump["up"].inputEnd /\ p.overflow = pump["up"].overflow
    BY Zenon, <1>0, <1>2, <1>3, PumpFlags
<1> HIDE DEF p
<1>5. ~p.overflow
    BY Zenon, <1>4 DEF RoomInv
<1>6. sr' = sr /\ pump'["up"] = p
    BY Zenon, <1>1, <1>5
<1> QED BY Zenon, <1>4, <1>5, <1>6 DEF p

\* A closed serving request stays closed.
LEMMA TornKept == ASSUME TypeOK, [Next]_vars, sr.closed PROVE sr'.closed
<1>1. CASE ServeEnd \/ HandlerStore
    BY Zenon, <1>1 DEF ServeEnd, HandlerStore, TypeOK, ServingRequests
<1>2. CASE ServeValue
    BY <1>2 DEF ServeValue
<1>3. CASE ServeCancel \/ HandlerError \/ StreamerEnd \/ StreamerRefused
    BY <1>3 DEF ServeCancel, HandlerError, StreamerEnd, StreamerRefused, ServerClose
<1> QED BY Zenon, <1>1, <1>2, <1>3, ServingSteps

-----------------------------------------------------------------------------
(* A pump whose input has ended was given everything *)

\* Where a StreamEnd arrives, everything sent before it has arrived.
LEMMA EndArrives ==
    ASSUME StreamInv, NEW d \in Dirs, Live(d), wire[d] # << >>,
           Head(wire[d]).type = "StreamEnd"
    PROVE  /\ EndedOut(d) /\ LastIn(d) = sent[d] /\ LastIn(d) >= 0
           /\ Head(wire[d]).n \in {0, sent[d] + 1}
<1>0. TypeOK /\ OrderInv(d) /\ EndInv
    BY Zenon, StreamParts
<1>1. /\ wire[d] \in Seq(Frames) /\ LastIn(d) \in Int /\ LastOut(d) \in Int
      /\ sent[d] \in Nat
    BY Zenon, <1>0, OrderTypes
<1>2. Carries(wire[d], LastIn(d), LastOut(d))
    BY Zenon, <1>0 DEF OrderInv
<1>3. LastIn(d) = LastOut(d) /\ Head(wire[d]).n \in {0, LastIn(d) + 1}
    BY Zenon, <1>1, <1>2, CarriesTail
<1>4. EndedOut(d)
    BY Zenon, <1>0, <1>1, UnderWay DEF EndInv
<1>5. LastOut(d) = sent[d]
    BY Zenon, <1>4 DEF EndedOut, LastOut
<1> QED BY <1>1, <1>3, <1>4, <1>5

\* The end of a stream hands over its final value, if it carries one, to a pump
\* that still takes it.
LEMMA EndTaken ==
    ASSUME TypeOK, OrderInv("down"), RecvEnd
    PROVE  /\ wire["down"] # << >> /\ Head(wire["down"]).type = "StreamEnd"
           /\ Mapped("down")
           /\ \/ LastIn("down")' = LastIn("down")
              \/ /\ Head(wire["down"]).n # 0 /\ Live("down")
                 /\ LastIn("down")' = Head(wire["down"]).n
<1> DEFINE n == Head(wire["down"]).n
           p == Push(pump["down"], Window["down"], n)
<1>0. /\ "down" \in Dirs /\ pump \in [Dirs -> Pump] /\ pump["down"] \in Pump
      /\ got["down"] \in Int /\ chan["down"] \in Seq(Int)
    BY Zenon, OrderTypes DEF TypeOK, Dirs
<1>1. wire["down"] # << >> /\ Head(wire["down"]).type = "StreamEnd" /\ Mapped("down")
    BY Zenon DEF RecvEnd, ClientReads, Arrives, Mapped
<1>2. /\ got' = got /\ chan' = chan
      /\ pump'["down"] = ClosePump(IF n = 0 THEN pump["down"] ELSE p)
    BY Zenon, <1>0 DEF RecvEnd
<1>3. CASE n = 0
  <2>1. Last(got["down"], chan["down"], ClosePump(pump["down"])) = LastIn("down")
      BY Zenon, <1>0, CloseOrdered DEF OrderInv, LastIn
  <2> QED BY Zenon, <1>1, <1>2, <1>3, <2>1 DEF LastIn
<1>4. CASE n # 0
  <2>1. /\ p \in Pump /\ Ordered(got["down"], chan["down"], p)
        /\ PushAccepted(pump["down"], Window["down"])
             => Accepts(pump["down"]) /\ Last(got["down"], chan["down"], p) = n
        /\ ~PushAccepted(pump["down"], Window["down"])
             => Last(got["down"], chan["down"], p) = LastIn("down")
      BY Zenon, <1>0, <1>1, <1>4, ArrivalOrdered
  <2> HIDE DEF p
  <2>2. Last(got["down"], chan["down"], ClosePump(p)) = Last(got["down"], chan["down"], p)
      BY Zenon, <1>0, <2>1, CloseOrdered
  <2>3. LastIn("down")' = Last(got["down"], chan["down"], p)
      BY Zenon, <1>2, <1>4, <2>2 DEF LastIn
  <2> QED BY Zenon, <1>1, <1>4, <2>1, <2>3 DEF Live
<1> QED BY Zenon, <1>3, <1>4

\* The completeness part of the invariant is kept ...
LEMMA NextComplete ==
    ASSUME CreditLaws, StreamInv, CompleteInv, [Next]_vars PROVE CompleteInv'
\* Otherwise only the end of the client's input, and a put-stream's own end,
\* close a pump without stopping it; and no flag of a pump is ever lowered.
<1>EndSteps.
    ASSUME TypeOK, [Next]_vars, NEW d \in Dirs, ~ArriveStep(d)
    PROVE  /\ pump'[d].overflow => pump[d].overflow
           /\ pump[d].stopped => pump'[d].stopped
           /\ pump[d].inputEnd => pump'[d].inputEnd
           /\ pump'[d].inputEnd => \/ pump[d].inputEnd \/ pump'[d].stopped
                                   \/ d = "down" /\ kind = "put"
                                   \/ d = "up" /\ ServeEnd
  <2> USE <1>EndSteps
  <2>0. pump[d] \in Pump /\ "up" \in Dirs /\ "down" \in Dirs /\ pump \in [Dirs -> Pump]
      BY Zenon DEF TypeOK, Dirs
  <2>1. CASE pump'[d] = pump[d]
      BY Zenon, <2>1
  <2>2. CASE pump'[d] = StopPump(pump[d])
      BY Zenon, <2>0, <2>2, PumpFlags
  <2>3. CASE pump'[d] = ClosePump(pump[d]) /\ ((d = "up" /\ ServeEnd) \/ (d = "down" /\ kind = "put"))
      BY ZenonT(30), <2>0, <2>3, PumpFlags
  <2>4. CASE pump'[d] = ClosePump(StopPump(pump[d]))
    <3>1. StopPump(pump[d]) \in Pump
        BY Zenon, <2>0, PumpTypes
    <3> QED BY <2>0, <2>4, <3>1, PumpFlags
  <2>5. CASE pump'[d] \in {PumpPop(pump[d]), PumpSent(pump[d]), PumpAcked(pump[d]),
                           PumpExit(pump[d])}
      BY <2>0, <2>5, PumpFlags
  <2>6. ASSUME NEW e \in Dirs, PumpStep(e)
        PROVE  \/ pump'[d] = pump[d]
               \/ pump'[d] \in {PumpPop(pump[d]), PumpSent(pump[d]), PumpAcked(pump[d]),
                                PumpExit(pump[d])}
      BY Zenon, <2>0, <2>6 DEF PumpStep, PumpTake, PumpDeliver, PumpAck, PumpClose
  <2>7. ASSUME RecvReady \/ RecvValue \/ RecvEnd PROVE pump'[d] = pump[d]
    <3>1. d = "up"
        BY Zenon, <2>7 DEF ArriveStep, DownRecvs, Dirs
    <3> QED BY Zenon, <2>0, <2>7, <3>1 DEF RecvReady, RecvValue, RecvEnd
  <2>8. ASSUME ServeValue PROVE pump'[d] = pump[d]
    <3>1. d = "down"
        BY Zenon, <2>8 DEF ArriveStep, Dirs
    <3> QED BY Zenon, <2>8, <3>1, ServeValueEffect
  <2> QED BY SMTT(20), <2>0, <2>1, <2>2, <2>3, <2>4, <2>5, <2>6, <2>7, <2>8, PumpSteps DEF Dirs
\* What arrives does not lower a pump's flags either.
<1>FlagsKept.
    ASSUME TypeOK, [Next]_vars, NEW d \in Dirs
    PROVE  /\ pump[d].stopped => pump'[d].stopped
           /\ pump[d].inputEnd => pump'[d].inputEnd
  <2> USE <1>FlagsKept
  <2>0. pump[d] \in Pump /\ "up" \in Dirs /\ "down" \in Dirs /\ pump \in [Dirs -> Pump]
        /\ wire \in [Dirs -> Seq(Frames)] /\ Window[d] \in Nat
      BY Zenon, OrderTypes DEF TypeOK, Dirs
  <2> DEFINE p(n) == Push(pump[d], Window[d], n)
  <2>1. ASSUME NEW n \in Int
        PROVE  /\ p(n) \in Pump /\ p(n).stopped = pump[d].stopped
               /\ pump[d].inputEnd => p(n).inputEnd
      BY Zenon, <2>0, PumpFlags, PumpTypes
  <2>2. ASSUME wire[d] # << >> PROVE Head(wire[d]).n \in Int
    <3>1. Head(wire[d]) \in Frames
        BY <2>0, <2>2
    <3> QED BY <3>1 DEF Frames
  <2> HIDE DEF p
  <2>3. CASE ServeValue /\ d = "up"
    <3>1. /\ wire[d] # << >>
          /\ pump'[d] = p(Head(wire[d]).n) \/ pump'[d] = StopPump(p(Head(wire[d]).n))
        BY Zenon, <2>3, ServeValueEffect DEF p
    <3>2. p(Head(wire[d]).n) \in Pump
        BY Zenon, <2>1, <2>2, <3>1
    <3> QED BY Zenon, <2>1, <2>2, <3>1, <3>2, PumpFlags
  <2>4. CASE (RecvReady \/ RecvValue) /\ d = "down"
    <3>1. wire[d] # << >> /\ (\E n \in {0, Head(wire[d]).n} : pump'[d] = p(n) \/ pump'[d] = pump[d])
        BY Zenon, <2>0, <2>4 DEF RecvReady, RecvValue, ClientReads, Arrives, p
    <3> QED BY <2>1, <2>2, <3>1
  <2>5. CASE RecvEnd /\ d = "down"
    <3>1. /\ wire[d] # << >>
          /\ \/ pump'[d] = ClosePump(pump[d]) \/ pump'[d] = ClosePump(p(Head(wire[d]).n))
        BY Zenon, <2>0, <2>5 DEF RecvEnd, ClientReads, Arrives, p
    <3>2. p(Head(wire[d]).n) \in Pump
        BY Zenon, <2>1, <2>2, <3>1
    <3> QED BY Zenon, <2>0, <2>1, <2>2, <3>1, <3>2, PumpFlags
  <2>6. CASE ~ArriveStep(d)
      BY Zenon, <2>6, <1>EndSteps
  <2> QED BY Zenon, <2>3, <2>4, <2>5, <2>6 DEF ArriveStep, DownRecvs, Dirs
\* A client that has given up stays so: closing the context stops the pump.
<1>GivenUpKept.
    ASSUME TypeOK, WatchInv, [Next]_vars, GivenUp PROVE GivenUp'
  <2> USE <1>GivenUpKept
  <2>0. "down" \in Dirs /\ pump \in [Dirs -> Pump] /\ pump["down"] \in Pump
      BY Zenon DEF TypeOK, Dirs
  <2>1. CASE cancelled
      BY Zenon, <2>1, FlagSteps DEF AppCancel, GivenUp
  <2>2. CASE pump["down"].stopped
      BY Zenon, <2>0, <2>2, <1>FlagsKept DEF GivenUp
  <2>3. CASE watcher = "cancelling"
    <3>1. CASE WatchClose
      <4>1. pump'["down"] = ClosePump(StopPump(pump["down"]))
          BY Zenon, <2>0, <3>1 DEF WatchClose, ClientClose
      <4>2. StopPump(pump["down"]) \in Pump /\ StopPump(pump["down"]).stopped
          BY Zenon, <2>0, PumpTypes, PumpFlags
      <4> QED BY Zenon, <4>1, <4>2, PumpFlags DEF GivenUp
    <3> QED BY Zenon, <2>3, <3>1, WatcherSteps DEF Establish, WatchInv, Watcher,
               WatchCancel, WatchExit, GivenUp
  <2>4. CASE opener = "abandoning"
    <3>1. CASE Abandon
      <4>1. pump'["down"] = ClosePump(StopPump(pump["down"]))
          BY Zenon, <2>0, <3>1 DEF Abandon, ClientClose
      <4>2. StopPump(pump["down"]) \in Pump /\ StopPump(pump["down"]).stopped
          BY Zenon, <2>0, PumpTypes, PumpFlags
      <4> QED BY Zenon, <4>1, <4>2, PumpFlags DEF GivenUp
    <3> QED BY Zenon, <2>4, <3>1, OpenerSteps DEF Opener, OpenStream, Establish,
               EstablishFailed, EstablishTimeout, GivenUp
  <2> QED BY Zenon, <2>1, <2>2, <2>3, <2>4 DEF GivenUp
\* The watcher is started with the stream, which stays open.
<1>NextWatch. ASSUME WatchInv, [Next]_vars PROVE WatchInv'
  <2> USE <1>NextWatch
  <2>1. CASE Establish
      BY Zenon, <2>1 DEF Establish, WatchInv
  <2>2. CASE ~Establish
    <3>1. opener = "open" => opener' = "open"
        BY Zenon, OpenerSteps DEF Opener, OpenStream, Establish, EstablishFailed,
           EstablishTimeout, Abandon
    <3>2. watcher = "off" => watcher' = "off"
        BY Zenon, <2>2, WatcherSteps DEF Watcher, WatchCancel, WatchClose, WatchExit
    <3> QED BY Zenon, <3>1, <3>2 DEF WatchInv
  <2> QED BY Zenon, <2>1, <2>2
\* A Cancel on its way has its reason.
<1>NextCancel.
    ASSUME StreamInv, CompleteInv, [Next]_vars PROVE CancelInv'
  <2> USE <1>NextCancel
  <2> SUFFICES ASSUME HasDown', NEW f \in Under(wire'["up"]), f.type = "Cancel"
               PROVE  GivenUp' \/ sender'["down"] = "done"
      BY Zenon DEF CancelInv
  <2>0. /\ TypeOK /\ "up" \in Dirs /\ "down" \in Dirs /\ HasDown /\ WatchInv
        /\ wire \in [Dirs -> Seq(Frames)]
      BY Zenon, StreamParts, KindFixed DEF HasDown, CompleteInv, TypeOK
  <2>1. CASE GivenUp \/ sender["down"] = "done"
      BY Zenon, <2>0, <2>1, <1>GivenUpKept, DoneKept
  <2>2. CASE f \in Under(wire["up"])
      BY Zenon, <2>0, <2>1, <2>2 DEF CompleteInv, CancelInv
  <2>3. CASE EstablishTimeout \/ WatchCancel \/ AppCancel
      BY Zenon, <2>3 DEF EstablishTimeout, WatchCancel, AppCancel, GivenUp
  <2>4. CASE RecvValue
    <3>1. wire["down"] # << >> /\ Head(wire["down"]).type = "StreamValue" /\ InMap("down")
        BY Zenon, <2>4 DEF RecvValue, ClientReads, Arrives, InMap
    <3>2. CASE PushAccepted(pump["down"], Window["down"])
      <4>1. wire' = Dequeue("down")
          BY Zenon, <2>4, <3>2 DEF RecvValue
      <4>2. wire'["up"] = wire["up"]
          BY Zenon, <2>0, <4>1, WireStep
      <4> QED BY Zenon, <2>2, <4>2
    <3>3. CASE ~Accepts(pump["down"])
        BY Zenon, <2>0, <2>1, <3>3 DEF Accepts, GivenUp, CompleteInv, DrainedInv
    <3> QED BY <2>0, <3>1, <3>2, <3>3, NoOverrun
  <2> QED BY SMTT(20), <2>0, <2>2, <2>3, <2>4, UnderNew DEF SentUp
\* The serving request is closed for one of the three reasons.
<1>NextClosed.
    ASSUME StreamInv, CompleteInv, [Next]_vars PROVE ClosedInv'
  <2> USE <1>NextClosed
  <2> SUFFICES ASSUME HasDown', sr'.closed
               PROVE  \/ GivenUp' \/ sender'["down"] = "done"
                      \/ sender'["down"] = "off" /\ handler' = "returned"
      BY Zenon DEF ClosedInv
  <2>0. /\ TypeOK /\ "up" \in Dirs /\ "down" \in Dirs /\ HasDown /\ WatchInv
        /\ wire \in [Dirs -> Seq(Frames)] /\ OpenInv /\ StreamerInv
        /\ sender \in [Dirs -> SenderStates]
      BY Zenon, StreamParts, KindFixed DEF HasDown, CompleteInv, TypeOK
  <2>1. CASE GivenUp \/ sender["down"] = "done"
      BY Zenon, <2>0, <2>1, <1>GivenUpKept, DoneKept
  <2>2. CASE sender["down"] = "off" /\ handler = "returned"
    <3>1. handler' = "returned"
        BY Zenon, <2>0, <2>2, HandlerSteps, ServedOnce DEF Handler, HandlerReject,
           HandlerStore, HandlerGrant, HandlerOk, HandlerError, HandlerPanic
    <3>2. ~HandlerOk /\ ~Streamer
        BY Zenon, <2>2 DEF HandlerOk, Streamer, StreamerReady, StreamerTake,
           StreamerEnd, StreamerRefused, StreamerAcquire, StreamerSend, StreamerSendNull
    <3> QED BY <2>0, <2>2, <3>1, <3>2, DownSender
  <2>3. CASE sr.closed
      BY Zenon, <2>0, <2>1, <2>2, <2>3 DEF CompleteInv, ClosedInv
  <2>4. CASE ServeCancel
    <3>1. wire["up"] # << >> /\ Head(wire["up"]).type = "Cancel"
        BY Zenon, <2>4 DEF ServeCancel, Arrives
    <3>2. Head(wire["up"]) \in Under(wire["up"])
        BY Zenon, <2>0, <3>1, UnderWay
    <3> QED BY Zenon, <2>0, <2>1, <3>1, <3>2 DEF CompleteInv, CancelInv
  <2>5. CASE HandlerError
      BY Zenon, <2>5, <2>0 DEF HandlerError, StreamerInv
  <2>6. CASE StreamerEnd \/ StreamerRefused
      BY Zenon, <2>0, <2>6 DEF StreamerEnd, StreamerRefused, Goto
  <2>7. CASE ServeValue
      BY Zenon, <2>3, <2>7, ServedValue DEF CompleteInv
  <2>8. CASE ServeEnd \/ HandlerStore
      BY Zenon, <2>0, <2>3, <2>8 DEF ServeEnd, HandlerStore, TypeOK, ServingRequests
  <2> QED BY SMTT(20), <2>3, <2>4, <2>5, <2>6, <2>7, <2>8, ServingSteps
\* A StreamEnd with a value in it belongs to a stream that was given up.
<1>NextFinal.
    ASSUME StreamInv, CompleteInv, [Next]_vars PROVE FinalInv'
  <2> USE <1>NextFinal
  <2> SUFFICES ASSUME NEW f \in Under(wire'["down"]), f.type = "StreamEnd"
               PROVE  sr'.closed /\ (f.n # 0 => GivenUp')
      BY Zenon DEF FinalInv
  <2>0. /\ TypeOK /\ WatchInv /\ PutInv
      BY Zenon, StreamParts DEF CompleteInv
  <2>1. CASE f \in Under(wire["down"])
      BY Zenon, <2>0, <2>1, TornKept, <1>GivenUpKept DEF CompleteInv, FinalInv
  <2>2. CASE StreamerEnd /\ (f.n # 0 => sr.closed)
    <3>1. sr'.closed
        BY Zenon, <2>2 DEF StreamerEnd, ServerClose
    <3>2. ASSUME f.n # 0 PROVE GivenUp
      <4>1. sender["down"] = "take" /\ sr.closed
          BY Zenon, <2>2, <3>2 DEF StreamerEnd
      <4>2. HasDown
          BY Zenon, <2>0, <4>1, KindsAssumption DEF PutInv, HasDown, TypeOK,
             RequestContexts, kind, StreamKinds
      <4> QED BY Zenon, <4>1, <4>2 DEF CompleteInv, ClosedInv
    <3> QED BY Zenon, <2>0, <3>1, <3>2, <1>GivenUpKept
  <2> QED BY SMTT(20), <2>0, <2>1, <2>2, UnderNew DEF SentDown
\* The inbound queue is not overrun.
<1>NextRoom.
    ASSUME StreamInv, CompleteInv, [Next]_vars PROVE RoomInv'
  <2> USE <1>NextRoom
  <2>1. TypeOK /\ "up" \in Dirs /\ RoomInv
      BY Zenon, StreamParts DEF CompleteInv
  <2>2. CASE ServeValue
      BY Zenon, <2>1, <2>2, ServedValue DEF RoomInv
  <2>3. CASE ~ServeValue
      BY Zenon, <2>1, <2>3, <1>EndSteps DEF RoomInv, ArriveStep
  <2> QED BY Zenon, <2>2, <2>3
\* A pump that has ended takes nothing in.
<1>EndedTakesNothing.
    ASSUME TypeOK, [Next]_vars, NEW d \in Dirs, OrderInv(d), pump[d].inputEnd,
           ~pump'[d].stopped, ArriveStep(d), d = "down" => HasDown
    PROVE  LastIn(d)' = LastIn(d)
  <2> USE <1>EndedTakesNothing
  <2>0. /\ "up" \in Dirs /\ "down" \in Dirs /\ pump \in [Dirs -> Pump] /\ pump[d] \in Pump
        /\ got[d] \in Int /\ chan[d] \in Seq(Int)
      BY Zenon, OrderTypes DEF TypeOK, Dirs
  <2>1. \A n : Push(pump[d], Window[d], n) = pump[d]
      BY Zenon DEF Push
  <2>2. CASE ServeValue /\ d = "up"
    <3>1. \/ pump'[d] = pump[d] \/ pump'[d] = StopPump(pump[d])
        BY Zenon, <2>1, <2>2, ServeValueEffect
    <3>2. pump'[d] = pump[d]
        BY Zenon, <2>0, <3>1, PumpFlags
    <3>3. got' = got /\ chan' = chan
        BY Zenon, <2>2, ServeValueEffect
    <3> QED BY Zenon, <3>2, <3>3 DEF LastIn
  <2>3. CASE (RecvReady \/ RecvValue) /\ d = "down"
    <3>1. pump'[d] = pump[d] /\ got' = got /\ chan' = chan
        BY Zenon, <2>0, <2>1, <2>3 DEF RecvReady, RecvValue
    <3> QED BY Zenon, <3>1 DEF LastIn
  <2>4. CASE RecvEnd /\ d = "down"
    <3>1. pump'[d] = ClosePump(pump[d]) /\ got' = got /\ chan' = chan
        BY Zenon, <2>0, <2>1, <2>4 DEF RecvEnd
    <3>2. Last(got[d], chan[d], ClosePump(pump[d])) = Last(got[d], chan[d], pump[d])
        BY Zenon, <2>0, CloseOrdered DEF OrderInv
    <3> QED BY Zenon, <3>1, <3>2 DEF LastIn
  <2> QED BY <2>2, <2>3, <2>4 DEF ArriveStep, DownRecvs, Dirs
\* Once a pump has ended, unless it is stopped, nothing changes what it was given.
<1>LastInKept.
    ASSUME TypeOK, [Next]_vars, NEW d \in Dirs, OrderInv(d), pump[d].inputEnd,
           ~pump'[d].stopped, d = "down" => HasDown
    PROVE  LastIn(d)' = LastIn(d)
  <2> USE <1>LastInKept
  <2>1. CASE ArriveStep(d)
      BY Zenon, <2>1, <1>EndedTakesNothing
  <2>2. CASE ~ArriveStep(d)
    <3>1. Kept(d)
        BY Zenon, <2>2, UpIn, DownIn DEF ArriveStep, Dirs
    <3> QED BY Zenon, <3>1 DEF Kept
  <2> QED BY Zenon, <2>1, <2>2
\* Towards the server, the StreamEnd ends the input.
<1>DrainedUp.
    ASSUME StreamInv, CompleteInv, [Next]_vars, pump'["up"].inputEnd, ~pump'["up"].stopped
    PROVE  EndedOut("up")' /\ LastIn("up")' = sent'["up"]
  <2> USE <1>DrainedUp
  <2>0. TypeOK /\ "up" \in Dirs /\ OrderInv("up") /\ StreamerInv /\ OffInv /\ RoomInv
      BY Zenon, StreamParts DEF CompleteInv
  <2>1. ~pump["up"].stopped
      BY Zenon, <2>0, <1>FlagsKept
  <2>2. CASE pump["up"].inputEnd
    <3>1. EndedOut("up") /\ LastIn("up") = sent["up"]
        BY Zenon, <2>1, <2>2 DEF CompleteInv, DrainedInv
    <3>2. EndedOut("up")' /\ sent'["up"] = sent["up"]
        BY Zenon, <2>0, <3>1, EndedKept
    <3>3. LastIn("up")' = LastIn("up")
        BY SMTT(20), <2>0, <2>2, <1>LastInKept
    <3> QED BY Zenon, <3>1, <3>2, <3>3
  <2>3. CASE ~pump["up"].inputEnd
    <3>1. ~ServeValue
        BY Zenon, <2>1, <2>3, ServedValue DEF CompleteInv
    <3>2. ServeEnd
        BY Zenon, <2>0, <2>3, <3>1, <1>EndSteps DEF ArriveStep
    <3>3. Live("up") /\ wire["up"] # << >> /\ Head(wire["up"]).type = "StreamEnd"
        BY Zenon, <2>1, <2>3, <3>2 DEF ServeEnd, Arrives, Live, Accepts, Mapped
    <3>4. EndedOut("up") /\ LastIn("up") = sent["up"]
        BY SMTT(20), <2>0, <3>3, EndArrives
    <3>5. EndedOut("up")' /\ sent'["up"] = sent["up"]
        BY Zenon, <2>0, <3>4, EndedKept
    <3>6. LastIn("up")' = LastIn("up")
        BY Zenon, <2>0, <3>1, UpIn DEF Kept
    <3> QED BY Zenon, <3>4, <3>5, <3>6
  <2> QED BY Zenon, <2>2, <2>3
\* The acknowledgement and the values that follow it find room.
<1>DataFits.
    ASSUME StreamInv, HasDown, RecvReady \/ RecvValue, Accepts(pump["down"])
    PROVE  ~pump'["down"].inputEnd
  <2> USE <1>DataFits
  <2>0. /\ TypeOK /\ "down" \in Dirs /\ OrderInv("down")
      BY Zenon, StreamParts
  <2>1. /\ pump["down"] \in Pump /\ Window["down"] \in Nat /\ Window["down"] >= 1
        /\ got["down"] \in Int /\ got["down"] >= -1 /\ chan["down"] \in Seq(Int)
        /\ pump["down"].queue \in Seq(Int) /\ pump \in [Dirs -> Pump]
      BY Zenon, <2>0, OrderTypes DEF OrderInv, Pump, TypeOK
  <2>2. ASSUME NEW v \in Int, PushAccepted(pump["down"], Window["down"]),
               pump'["down"] = Push(pump["down"], Window["down"], v)
        PROVE  ~pump'["down"].inputEnd
      BY SMTT(20), <2>1, <2>2, PumpFlags DEF Accepts
  <2>3. CASE RecvReady
    <3>1. /\ wire["down"] # << >> /\ Head(wire["down"]).type = "StreamReady"
          /\ Mapped("down") /\ pump'["down"] = Push(pump["down"], Window["down"], 0)
        BY Zenon, <2>0, <2>1, <2>3 DEF RecvReady, ClientReads, Arrives, Mapped
    <3>2. Carries(wire["down"], LastIn("down"), LastOut("down"))
        BY Zenon, <2>0, <3>1 DEF OrderInv, Live
    <3>3. LastIn("down") = -1
        BY SMTT(20), <2>0, <3>1, <3>2, OrderTypes, CarriesTail DEF DataTypes
    <3>4. Len(pump["down"].queue) = 0
        BY SMTT(20), <2>1, <3>3 DEF LastIn, Last, Held
    <3> QED BY <2>1, <2>2, <3>1, <3>4 DEF PushAccepted, Accepts
  <2>4. CASE RecvValue
    <3>1. /\ wire["down"] # << >> /\ Head(wire["down"]).type = "StreamValue"
          /\ InMap("down")
          /\ pump'["down"] = Push(pump["down"], Window["down"], Head(wire["down"]).n)
        BY Zenon, <2>1, <2>4, <2>0 DEF RecvValue, ClientReads, Arrives, InMap
    <3>2. Head(wire["down"]).n \in Int
        BY Zenon, <2>0, <3>1, ArrivalOrdered DEF DataTypes, InMap, Mapped
    <3> QED BY Zenon, <2>0, <2>2, <3>1, <3>2, NoOverrun
  <2> QED BY Zenon, <2>3, <2>4
\* Towards the client, the StreamEnd ends the input.
<1>DrainedDown.
    ASSUME StreamInv, CompleteInv, [Next]_vars, HasDown', pump'["down"].inputEnd,
           ~pump'["down"].stopped
    PROVE  /\ sender'["down"] = "done" /\ LastIn("down")' >= 0
           /\ GivenUp' \/ LastIn("down")' = sent'["down"]
  <2> USE <1>DrainedDown
  <2>0. /\ TypeOK /\ "down" \in Dirs /\ OrderInv("down") /\ HasDown /\ WatchInv
        /\ LastIn("down") \in Int /\ sent["down"] \in Nat /\ wire["down"] \in Seq(Frames)
      BY Zenon, StreamParts, KindFixed, OrderTypes DEF CompleteInv, HasDown
  <2>1. ~pump["down"].stopped
      BY Zenon, <2>0, <1>FlagsKept
  <2>2. CASE pump["down"].inputEnd
    <3>1. /\ sender["down"] = "done" /\ LastIn("down") >= 0
          /\ GivenUp \/ LastIn("down") = sent["down"]
        BY Zenon, <2>0, <2>1, <2>2 DEF CompleteInv, DrainedInv
    <3>2. LastIn("down")' = LastIn("down")
        BY Zenon, <2>0, <2>2, <1>LastInKept
    <3> QED BY Zenon, <2>0, <3>1, <3>2, DoneKept, <1>GivenUpKept
  <2>3. CASE ~pump["down"].inputEnd
    <3>1. RecvEnd
      <4>1. ~RecvReady /\ ~RecvValue
          BY Zenon, <2>0, <2>1, <2>3, <1>DataFits DEF Accepts
      <4>2. kind # "put"
          BY Zenon, <2>0 DEF HasDown
      <4> QED BY Zenon, <2>0, <2>3, <4>1, <4>2, <1>EndSteps DEF ArriveStep, DownRecvs
    <3>2. wire["down"] # << >> /\ Head(wire["down"]).type = "StreamEnd" /\ Live("down")
        BY Zenon, <2>0, <2>1, <2>3, <3>1, EndTaken DEF Live, Accepts
    <3>3. sender["down"] = "done" /\ LastIn("down") = sent["down"] /\ LastIn("down") >= 0
        BY Zenon, <2>0, <3>2, EndArrives DEF EndedOut
    <3>4. sender'["down"] = "done" /\ sent'["down"] = sent["down"]
        BY Zenon, <3>3, DoneKept
    <3>5. CASE LastIn("down")' = LastIn("down")
        BY Zenon, <3>3, <3>4, <3>5
    <3>6. CASE Head(wire["down"]).n # 0 /\ LastIn("down")' = Head(wire["down"]).n
      <4>1. GivenUp'
        <5>1. Head(wire["down"]) \in Under(wire["down"])
            BY Zenon, <2>0, <3>2, UnderWay
        <5> QED BY Zenon, <2>0, <3>2, <3>6, <5>1, <1>GivenUpKept DEF CompleteInv,
                   FinalInv
      <4>2. Head(wire["down"]).n \in {0, sent["down"] + 1}
          BY Zenon, <2>0, <3>2, EndArrives
      <4> QED BY SMTT(20), <2>0, <3>4, <3>6, <4>1, <4>2
    <3> QED BY Zenon, <2>0, <3>1, <3>5, <3>6, EndTaken
  <2> QED BY Zenon, <2>2, <2>3
<1>1. WatchInv' /\ CancelInv' /\ ClosedInv' /\ FinalInv' /\ RoomInv'
    BY <1>NextWatch, <1>NextCancel, <1>NextClosed, <1>NextFinal, <1>NextRoom
       DEF CompleteInv
<1>2. DrainedInv'
    BY Zenon, <1>DrainedUp, <1>DrainedDown DEF DrainedInv
<1> QED BY Zenon, <1>1, <1>2 DEF CompleteInv

\* ... and holds before the call.
LEMMA InitComplete == ASSUME Init PROVE CompleteInv
<1>1. Under(wire["up"]) = {} /\ Under(wire["down"]) = {}
  <2>1. wire["up"] = << >> /\ wire["down"] = << >>
      BY Zenon DEF Init, Dirs
  <2>2. Under(<< >>) = {}
      BY DEF Under
  <2> QED BY Zenon, <2>1, <2>2
<1>2. /\ ~pump["up"].inputEnd /\ ~pump["down"].inputEnd /\ ~pump["up"].overflow
      /\ ~sr.closed /\ watcher = "off"
    BY Zenon DEF Init, Dirs, NewStreamPump
<1> QED BY Zenon, <1>1, <1>2 DEF CompleteInv, WatchInv, CancelInv, ClosedInv, FinalInv,
       DrainedInv, RoomInv

DeliveryInv == StreamInv /\ CompleteInv

=============================================================================

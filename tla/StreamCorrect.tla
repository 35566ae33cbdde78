---------------------------- MODULE StreamCorrect ---------------------------
(***************************************************************************)
(* What Stream promises, for every kind of call, window and capacity: flow *)
(* control is sound, credit is conserved, a stream is complete when its    *)
(* channel closes, and each direction implements BoundedStream.            *)
(***************************************************************************)
EXTENDS StreamDelivery, StreamService, FiniteSetTheorems

-----------------------------------------------------------------------------
(* Counting the frames of a FIFO *)

\* What is counted is a finite set.
LEMMA CountFinite ==
    ASSUME NEW w \in Seq(Frames), NEW t
    PROVE  IsFiniteSet({i \in 1..Len(w) : w[i].type = t}) /\ Count(w, t) \in Nat
<1>1. Len(w) \in Int /\ IsFiniteSet(1..Len(w))
    BY FS_Interval
<1>2. {i \in 1..Len(w) : w[i].type = t} \in SUBSET (1..Len(w))
    BY Zenon
<1> QED BY Zenon, <1>1, <1>2, FS_Subset, FS_CardinalityType DEF Count

\* The credits that are under way are finitely many.
LEMMA CreditsFinite ==
    ASSUME NEW w \in Seq(Frames)
    PROVE  IsFiniteSet(Credits(w)) /\ CreditOn(w) \in Nat
<1> DEFINE K == {k \in 1..Len(w) : w[k].type = "StreamCredit"}
           f == [i \in K |-> {i} \X (1..w[i].n)]
           F == {{i} \X (1..w[i].n) : i \in K}
<1>1. IsFiniteSet(K)
    BY Zenon, CountFinite
<1>2. f \in Surjection(K, F)
    BY Zenon DEF Surjection
<1>3. IsFiniteSet(F)
    BY <1>1, <1>2, FS_Surjection
<1>4. ASSUME NEW T \in F PROVE IsFiniteSet(T)
  <2>1. PICK i \in K : T = {i} \X (1..w[i].n)
      BY Zenon
  <2>2. w[i] \in Frames
      OBVIOUS
  <2>3. w[i].n \in Int
      BY <2>2 DEF Frames
  <2>4. IsFiniteSet({i})
      BY Zenon, FS_Singleton
  <2>5. IsFiniteSet(1..w[i].n)
    <3>1. \A b \in Int : IsFiniteSet(1..b)
        BY FS_Interval
    <3> QED BY Zenon, <2>3, <3>1
  <2> QED BY Zenon, <2>1, <2>4, <2>5, FS_Product
<1>5. IsFiniteSet(UNION F)
    BY Zenon, <1>3, <1>4, FS_UNION
<1> QED BY Zenon, <1>5, FS_CardinalityType DEF Credits, CreditOn

\* Nothing is counted on an empty connection.
LEMMA CountNothing == CreditOn(<< >>) = 0 /\ \A t : Count(<< >>, t) = 0
<1>1. Credits(<< >>) = {}
    BY DEF Credits
<1>2. ASSUME NEW t PROVE {i \in 1..Len(<< >>) : << >>[i].type = t} = {}
    OBVIOUS
<1> QED BY Zenon, <1>1, <1>2, FS_EmptySet DEF CreditOn, Count

\* A grant that is sent adds its credits to those under way.
LEMMA CreditOfAppend ==
    ASSUME NEW w \in Seq(Frames), NEW f \in Frames
    PROVE  CreditOn(Append(w, f)) = CreditOn(w) + Credit(f)
<1> DEFINE v == Append(w, f)
           N == {Len(w) + 1} \X (1..Credit(f))
<1>1. /\ Len(w) \in Nat /\ Len(v) = Len(w) + 1 /\ v[Len(w) + 1] = f
      /\ \A i \in 1..Len(w) : v[i] = w[i]
    OBVIOUS
<1>2. IsFiniteSet(Credits(w)) /\ CreditOn(w) \in Nat
    BY Zenon, CreditsFinite
<1>3. Credit(f) \in Nat
    BY Zenon DEF Credit, Frames
<1>4. IsFiniteSet(N) /\ Cardinality(N) = Credit(f)
  <2>1. IsFiniteSet({Len(w) + 1}) /\ Cardinality({Len(w) + 1}) = 1
      BY Zenon, FS_Singleton
  <2>2. IsFiniteSet(1..Credit(f)) /\ Cardinality(1..Credit(f)) = Credit(f)
      BY <1>3, FS_Interval
  <2>3. /\ IsFiniteSet(N)
        /\ Cardinality(N) = Cardinality({Len(w) + 1}) * Cardinality(1..Credit(f))
      BY Zenon, <2>1, <2>2, FS_Product
  <2>4. Cardinality(N) = 1 * Credit(f)
      BY Zenon, <2>1, <2>2, <2>3
  <2> QED BY SMTT(20), <1>3, <2>3, <2>4
<1>5. Credits(w) \cap N = {}
    BY <1>1 DEF Credits
<1>6. Credits(v) = Credits(w) \cup N
  <2>1. ASSUME NEW x \in Credits(v) PROVE x \in Credits(w) \cup N
    <3>1. PICK i \in 1..Len(v) : v[i].type = "StreamCredit" /\ x \in {i} \X (1..v[i].n)
        BY Zenon DEF Credits
    <3>2. CASE i \in 1..Len(w)
        BY SMTT(20), <1>1, <3>1, <3>2 DEF Credits
    <3>3. CASE i = Len(w) + 1
        BY Zenon, <1>1, <3>1, <3>3 DEF Credit
    <3> QED BY SMTT(20), <1>1, <3>2, <3>3
  <2>2. ASSUME NEW x \in Credits(w) PROVE x \in Credits(v)
    <3>1. PICK i \in 1..Len(w) : w[i].type = "StreamCredit" /\ x \in {i} \X (1..w[i].n)
        BY Zenon DEF Credits
    <3>2. i \in 1..Len(v) /\ v[i] = w[i]
        BY <1>1
    <3> QED BY Zenon, <3>1, <3>2 DEF Credits
  <2>3. ASSUME NEW x \in N PROVE x \in Credits(v)
    <3>1. Len(w) + 1 \in 1..Len(v)
        BY <1>1
    <3>2. f.type = "StreamCredit" /\ Credit(f) = f.n
        BY <1>3 DEF Credit
    <3> QED BY SMTT(20), <1>1, <3>1, <3>2 DEF Credits
  <2> QED BY Zenon, <2>1, <2>2, <2>3
<1>7. Cardinality(Credits(v)) = Cardinality(Credits(w)) + Cardinality(N) - Cardinality({})
    BY SMTT(20), <1>2, <1>4, <1>5, <1>6, FS_Union
<1> HIDE DEF v, N
<1> QED BY SMTT(20), <1>2, <1>3, <1>4, <1>7, FS_EmptySet DEF CreditOn, v

\* A grant that is received takes them away again.
LEMMA CreditOfTail ==
    ASSUME NEW w \in Seq(Frames), w # << >>
    PROVE  CreditOn(Tail(w)) = CreditOn(w) - Credit(Head(w))
<1> DEFINE v == Tail(w)
           N == {1} \X (1..Credit(Head(w)))
           S == Credits(w) \ N
           g == [x \in Credits(v) |-> <<x[1] + 1, x[2]>>]
<1>1. /\ Len(w) \in Nat /\ Len(w) >= 1 /\ Len(v) = Len(w) - 1 /\ Head(w) = w[1]
      /\ \A i \in 1..Len(v) : v[i] = w[i + 1]
      /\ v \in Seq(Frames) /\ Head(w) \in Frames
    OBVIOUS
<1>2. /\ IsFiniteSet(Credits(w)) /\ CreditOn(w) \in Nat
      /\ IsFiniteSet(Credits(v)) /\ CreditOn(v) \in Nat
    BY Zenon, <1>1, CreditsFinite
<1>3. Credit(Head(w)) \in Nat
    BY Zenon, <1>1 DEF Credit, Frames
<1>4. IsFiniteSet(N) /\ Cardinality(N) = Credit(Head(w))
  <2>1. IsFiniteSet({1}) /\ Cardinality({1}) = 1
      BY Zenon, FS_Singleton
  <2>2. IsFiniteSet(1..Credit(Head(w))) /\ Cardinality(1..Credit(Head(w))) = Credit(Head(w))
      BY <1>3, FS_Interval
  <2>3. /\ IsFiniteSet(N)
        /\ Cardinality(N) = Cardinality({1}) * Cardinality(1..Credit(Head(w)))
      BY Zenon, <2>1, <2>2, FS_Product
  <2>4. Cardinality(N) = 1 * Credit(Head(w))
      BY Zenon, <2>1, <2>2, <2>3
  <2> QED BY SMTT(20), <1>3, <2>3, <2>4
<1>5. \A x : x \in Credits(w) <=>
          \E i \in 1..Len(w) : w[i].type = "StreamCredit" /\ x \in {i} \X (1..w[i].n)
    BY Zenon DEF Credits
<1>6. \A x : x \in Credits(v) <=>
          \E i \in 1..Len(v) : v[i].type = "StreamCredit" /\ x \in {i} \X (1..v[i].n)
    BY Zenon DEF Credits
<1>7. Credits(w) \cap N = N
  <2>1. ASSUME NEW x \in N PROVE x \in Credits(w)
    <3>1. Head(w).type = "StreamCredit" /\ Credit(Head(w)) = w[1].n
        BY <1>1, <1>3 DEF Credit
    <3>2. 1 \in 1..Len(w)
        BY <1>1
    <3> QED BY Zenon, <1>1, <1>5, <3>1, <3>2
  <2> QED BY Zenon, <2>1
<1>8. IsFiniteSet(S) /\ Cardinality(S) = CreditOn(w) - Credit(Head(w))
  <2> HIDE DEF N, v
  <2>1. /\ IsFiniteSet(Credits(w) \ N)
        /\ Cardinality(Credits(w) \ N) = Cardinality(Credits(w)) - Cardinality(Credits(w) \cap N)
      BY Zenon, <1>2, FS_Difference
  <2> QED BY Zenon, <1>4, <1>7, <2>1 DEF CreditOn
<1>9. g \in Bijection(Credits(v), S)
  <2>1. ASSUME NEW x \in Credits(v) PROVE g[x] \in S
    <3>1. PICK i \in 1..Len(v) : v[i].type = "StreamCredit" /\ x \in {i} \X (1..v[i].n)
        BY Zenon, <1>6
    <3>2. i + 1 \in 1..Len(w) /\ w[i + 1] = v[i]
        BY <1>1
    <3>3. g[x] = <<i + 1, x[2]>> /\ x[2] \in 1..v[i].n
        BY Zenon, <3>1
    <3>4. g[x] \in Credits(w)
        BY SMTT(20), <1>5, <3>1, <3>2, <3>3
    <3>5. g[x] \notin N
        BY <3>1, <3>3
    <3> QED BY Zenon, <3>4, <3>5
  <2>2. ASSUME NEW y \in S PROVE \E x \in Credits(v) : g[x] = y
    <3>1. PICK i \in 1..Len(w) : w[i].type = "StreamCredit" /\ y \in {i} \X (1..w[i].n)
        BY Zenon, <1>5
    <3>2. i # 1
        BY Zenon, <1>1, <3>1 DEF Credit
    <3>3. i - 1 \in 1..Len(v) /\ v[i - 1] = w[i] /\ (i - 1) + 1 = i
        BY <1>1, <3>2
    <3>4. <<i - 1, y[2]>> \in Credits(v)
        BY Zenon, <1>6, <3>1, <3>3
    <3>5. g[<<i - 1, y[2]>>] = y
        BY SMTT(20), <3>1, <3>3, <3>4
    <3> QED BY Zenon, <3>4, <3>5
  <2>3. ASSUME NEW x \in Credits(v), NEW y \in Credits(v), g[x] = g[y] PROVE x = y
    <3>1. PICK i \in 1..Len(v) : x \in {i} \X (1..v[i].n)
        BY Zenon, <1>6
    <3>2. PICK j \in 1..Len(v) : y \in {j} \X (1..v[j].n)
        BY Zenon, <1>6
    <3>3. g[x] = <<i + 1, x[2]>> /\ g[y] = <<j + 1, y[2]>> /\ x = <<i, x[2]>> /\ y = <<j, y[2]>>
        BY <3>1, <3>2
    <3> QED BY <2>3, <3>3
  <2>4. g \in [Credits(v) -> S] /\ DOMAIN g = Credits(v)
      BY Zenon, <2>1
  <2> HIDE DEF g, S, v
  <2> QED BY Zenon, <2>2, <2>3, <2>4 DEF Bijection, Injection, Surjection, IsInjective
<1>10. Cardinality(S) = Cardinality(Credits(v))
    BY Zenon, <1>2, <1>9, FS_Bijection DEF ExistsBijection
<1> QED BY Zenon, <1>8, <1>10 DEF CreditOn

\* What the ledger takes for granted about the credit on a connection.
LEMMA CreditLawsHold == CreditLaws
    BY Zenon, CountNothing, CreditsFinite, CreditOfAppend, CreditOfTail DEF CreditLaws

-----------------------------------------------------------------------------
(* Flow control *)

\* Types, control, order and credit hold together in every reachable state.
LEMMA StreamInvariant == Spec => []StreamInv
<1>1. Init /\ TypeOK => OrderInv("up") /\ OrderInv("down") /\ CreditsInv
    BY Zenon, InitOrder, InitCredit, CreditLawsHold
<1>2. /\ TypeOK /\ TypeOK' /\ ControlInv
      /\ OrderInv("up") /\ OrderInv("down") /\ CreditsInv /\ [Next]_vars
      => OrderInv("up")' /\ OrderInv("down")' /\ CreditsInv'
    BY Zenon, NextOrderUp, NextOrderDown, NextCredits, CreditLawsHold
<1> QED BY <1>1, <1>2, TypeCorrect, ControlCorrect, PTL DEF Spec, StreamInv

\* Flow control is sound: for every window, channel capacity and number of
\* values, a stream value that reaches a request still taking input finds room
\* in the pump (valuerpc/credit.go and valuerpc/pump.go together), so a
\* cooperating peer never overruns it.
THEOREM FlowControlCorrect == Spec => []CreditedValueFits
<1>1. StreamInv => CreditedValueFits
    BY Zenon, CreditedFits, CreditLawsHold
       DEF StreamInv, CreditedValueFits, CreditsInv, ControlInv, Dirs
<1> QED BY <1>1, StreamInvariant, PTL

\* Credit is neither lost nor invented: while a stream runs, the gate of
\* valuerpc/credit.go, the frames under way, the pump of valuerpc/pump.go and the
\* batch not granted back yet hold the whole window between them.
THEOREM ConservedCorrect == Spec => []CreditConserved
\* While the numbers that are under way start after lo, the values on w are the
\* numbers from there to hi.
<1>CarriesCount.
    ASSUME NEW w \in Seq(Frames), NEW lo \in Int, NEW hi \in Int, lo >= 0,
           Carries(w, lo, hi)
    PROVE  Count(w, "StreamValue") = hi - lo
  <2> USE <1>CarriesCount
  <2> DEFINE S == {i \in 1..Len(w) : w[i].type = "StreamValue"}
             T == (lo + 1)..hi
             g == [i \in S |-> w[i].n]
  <2>1. S = Data(w)
    <3>1. ASSUME NEW i \in Data(w) PROVE w[i].type # "StreamReady"
      <4>1. i \in 1..Len(w) /\ lo < w[i].n /\ (w[i].type = "StreamReady" <=> w[i].n = 0)
          BY Zenon DEF Carries, Data
      <4>2. w[i].n \in Int
          BY Zenon, <4>1, FrameNumber
      <4> QED BY <4>1, <4>2
    <3> QED BY Zenon, <3>1 DEF Data, DataTypes
  <2>2. \A i \in S : w[i].n \in T /\ i \in Int
    <3>1. ASSUME NEW i \in S PROVE w[i].n \in T /\ i \in Int
      <4>1. lo < w[i].n /\ w[i].n <= hi
          BY Zenon, <2>1 DEF Carries
      <4>2. w[i].n \in Int
          BY Zenon, FrameNumber
      <4> QED BY <4>1, <4>2
    <3> QED BY Zenon, <3>1
  <2>3. \A k \in T : \E i \in S : w[i].n = k
      BY Zenon, <2>1 DEF Carries
  <2>4. \A i, j \in S : w[i].n = w[j].n => i = j
    <3>1. \A i, j \in S : i < j => w[i].n < w[j].n
        BY Zenon, <2>1 DEF Carries
    <3>2. \A i \in S : w[i].n \in Int
        BY <2>2
    <3> HIDE DEF S
    <3> QED BY SMTT(20), <2>2, <3>1, <3>2
  <2>5. g \in Bijection(S, T)
    <3>1. g \in [S -> T] /\ DOMAIN g = S /\ \A i \in S : g[i] = w[i].n
        BY Zenon, <2>2
    <3>2. \A k \in T : \E i \in S : g[i] = k
        BY Zenon, <2>3, <3>1
    <3>3. \A i, j \in S : g[i] = g[j] => i = j
        BY Zenon, <2>4, <3>1
    <3> HIDE DEF g, S, T
    <3> QED BY Zenon, <3>1, <3>2, <3>3 DEF Bijection, Injection, Surjection, IsInjective
  <2>6. IsFiniteSet(S) /\ Count(w, "StreamValue") = Cardinality(S)
      BY Zenon, CountFinite DEF Count
  <2>7. Cardinality(S) = Cardinality(T)
      BY SMTT(20), <2>5, <2>6, FS_Bijection DEF ExistsBijection
  <2>8. Cardinality(T) = IF lo + 1 > hi THEN 0 ELSE hi - (lo + 1) + 1
      BY FS_Interval
  <2>9. lo <= hi
      BY Zenon DEF Carries
  <2> HIDE DEF S, T
  <2> QED BY SMTT(20), <2>6, <2>7, <2>8, <2>9
\* While a stream runs its ledger is exact, and the values under way are those
\* between the last one pushed and the last one sent.
<1>CreditBalances.
    ASSUME TypeOK, NEW d \in Dirs, OrderInv(d), CreditInv(d), EstablishedInv, Running(d)
    PROVE  gate[d].credit + CreditOn(wire[Opposite(d)])
             + (IF sender[d] = "send" THEN 1 ELSE 0) + Count(wire[d], "StreamValue")
             + Len(pump[d].queue) + Len(pump[d].hand)
             + (IF pump[d].acking THEN 1 ELSE 0) + delivered[d] + nulls[d]
           = Window[d]
  <2> USE <1>CreditBalances
  <2> DEFINE g == got[d]
             c == Len(chan[d])
             h == Held(pump[d])
             q == Len(pump[d].queue)
             k == Hooked(pump[d])
             m == Window[d]
             s == sent[d]
             u == nulls[d]
             x == Sending(d)
             e == delivered[d]
             b == gate[d].credit
             w == CreditOn(wire[Opposite(d)])
             y == Count(wire[d], "StreamValue")
  <2>1. /\ g \in Int /\ c \in Nat /\ h \in {0, 1} /\ q \in Nat /\ k \in {0, 1}
        /\ e \in Int /\ m \in Nat /\ s \in Nat /\ x \in {0, 1} /\ b \in Nat /\ w \in Nat
        /\ LastIn(d) = g + c + h + q /\ Acked(d) = g + c - k /\ Obtained(d) = b + s + u + x
        /\ u \in Nat
      BY Zenon, Counted, CreditLawsHold
  <2>2. WindowGranted(d) /\ Has(d) /\ Mapped("down") /\ Mapped("up") /\ Live(d) /\ g >= 0
      BY Zenon, <2>1 DEF Running, WindowGranted, Has, Mapped, Live, Accepts,
         EstablishedInv, OrderInv, Dirs
  <2>3. m + (g + c - k) - e - (b + s + u + x) - w = 0
    <3>1. Slack(d) = 0
        BY Zenon, <2>2 DEF CreditInv
    <3>2. Slack(d) = (m + Acked(d) - e) - Obtained(d) - w
        BY Zenon, <2>2, Counted, CreditLawsHold
    <3> HIDE DEF g, c, k, m, s, u, x, e, b, w
    <3> QED BY SMTT(20), <2>1, <3>1, <3>2
  <2>4. LastIn(d) >= 0 /\ LastIn(d) \in Int
    <3> HIDE DEF g, c, h, q
    <3> QED BY <2>1, <2>2
  <2>5. Carries(wire[d], LastIn(d), LastOut(d)) /\ LastOut(d) \in Int
      BY Zenon, <2>2, OrderTypes DEF OrderInv
  <2>6. LastOut(d) = s
    <3>1. LastIn(d) <= LastOut(d)
        BY Zenon, <2>5 DEF Carries
    <3> QED BY SMTT(20), <2>4, <2>5, <3>1 DEF LastOut
  <2>7. y = s - (g + c + h + q)
    <3>1. y = LastOut(d) - LastIn(d)
        BY Zenon, <2>4, <2>5, OrderTypes, <1>CarriesCount
    <3> QED BY Zenon, <2>1, <2>6, <3>1
  <2>8. Len(pump[d].hand) = h
    <3>1. CASE pump[d].hand = << >>
        BY Zenon, <3>1 DEF Held
    <3>2. CASE pump[d].hand # << >>
      <4>1. pump[d].hand = <<g + c + 1>>
          BY Zenon, <3>2 DEF OrderInv, Ordered
      <4> QED BY Zenon, <3>2, <4>1 DEF Held
    <3> QED BY Zenon, <3>1, <3>2
  <2>9. (IF pump[d].acking THEN 1 ELSE 0) = k /\ (IF sender[d] = "send" THEN 1 ELSE 0) = x
      BY Zenon DEF Hooked, Sending
  <2> HIDE DEF g, c, h, q, k, m, s, u, x, e, b, w, y
  <2>10. b + w + x + y + q + h + k + e + u = m
      BY SMTT(20), <2>1, <2>3, <2>7
  <2> QED BY Zenon, <2>8, <2>9, <2>10 DEF q, h, k, m, u, x, e, b, w, y
<1>1. ASSUME StreamInv PROVE CreditConserved
  <2>1. ASSUME NEW d \in Dirs PROVE OrderInv(d) /\ CreditInv(d) /\ EstablishedInv /\ TypeOK
      BY Zenon, <1>1 DEF StreamInv, CreditsInv, Dirs
  <2> QED BY Zenon, <2>1, <1>CreditBalances DEF CreditConserved
<1> QED BY <1>1, StreamInvariant, PTL

-----------------------------------------------------------------------------
(* Completeness *)

\* Everything together holds in every reachable state.
LEMMA DeliveryInvariant == Spec => []DeliveryInv
<1>1. Init => CompleteInv
    BY Zenon, InitComplete
<1>2. StreamInv /\ CompleteInv /\ [Next]_vars => CompleteInv'
    BY Zenon, NextComplete, CreditLawsHold
<1> QED BY <1>1, <1>2, StreamInvariant, PTL DEF Spec, DeliveryInv

\* A stream nobody gave up on is complete when its channel closes (pump.go closes
\* the channel after draining its queue; TryGetClose and closeInbound end its
\* input): the application has every value that was sent, for every window,
\* channel capacity and number of values.
THEOREM CompleteCorrect == Spec => []CompleteAtClose
\* A pump that closed its channel by itself has handed over what it was given.
<1>DrainedChannel.
    ASSUME TypeOK, NEW d \in Dirs, OrderInv(d), pump[d].exited, ~pump[d].stopped,
           chan[d] = << >>
    PROVE  pump[d].inputEnd /\ LastIn(d) = got[d]
  <2> USE <1>DrainedChannel
  <2>1. got[d] \in Int
      BY Zenon, OrderTypes
  <2>2. pump[d].inputEnd /\ pump[d].queue = << >> /\ pump[d].hand = << >>
      BY Zenon DEF OrderInv, Ordered
  <2> QED BY SMTT(20), <2>1, <2>2 DEF LastIn, Last, Held
<1>1. ASSUME DeliveryInv PROVE CompleteAtClose
  <2>0. /\ TypeOK /\ "up" \in Dirs /\ "down" \in Dirs /\ OrderInv("up")
        /\ OrderInv("down") /\ EstablishedInv /\ DrainedInv
      BY Zenon, <1>1, StreamParts DEF DeliveryInv, CompleteInv
  <2>1. ASSUME HasDown, pump["down"].exited, ~pump["down"].stopped,
               chan["down"] = << >>, ~cancelled, watcher # "cancelling"
        PROVE  got["down"] = sent["down"] /\ sender["down"] = "done"
    <3>1. pump["down"].inputEnd /\ LastIn("down") = got["down"]
        BY Zenon, <2>0, <2>1, <1>DrainedChannel
    <3>2. /\ sender["down"] = "done" /\ got["down"] >= 0
          /\ GivenUp \/ got["down"] = sent["down"]
        BY Zenon, <2>0, <2>1, <3>1 DEF DrainedInv
    <3>3. opener # "abandoning"
        BY <2>0, <3>2 DEF EstablishedInv
    <3> QED BY Zenon, <2>1, <3>2, <3>3 DEF GivenUp
  <2>2. ASSUME pump["up"].exited, ~pump["up"].stopped, chan["up"] = << >>
        PROVE  got["up"] = sent["up"] /\ sender["up"] \in {"finish", "retire", "done"}
    <3>1. pump["up"].inputEnd /\ LastIn("up") = got["up"]
        BY Zenon, <2>0, <2>2, <1>DrainedChannel
    <3> QED BY Zenon, <2>0, <2>2, <3>1 DEF DrainedInv, EndedOut
  <2> QED BY Zenon, <2>1, <2>2 DEF CompleteAtClose
<1> QED BY <1>1, DeliveryInvariant, PTL

-----------------------------------------------------------------------------
(* Refinement *)

\* Nothing is pushed that was not sent; the final value of a closed stream is one
\* more than was paid for.
PushedInv ==
    /\ LastIn("up") <= sent["up"]
    /\ \/ LastIn("down") <= sent["down"]
       \/ /\ LastIn("down") = sent["down"] + 1
          /\ sr.closed /\ sender["down"] = "done"

\* The last number pushed is an integer.
LEMMA LastInInt == TypeOK => \A d \in Dirs : LastIn(d) \in Int /\ sent[d] \in Nat
    BY Zenon, OrderTypes

\* The same in the next state.
LEMMA LastInIntNext ==
    TypeOK' => \A d \in Dirs : LastIn(d)' \in Int /\ sent'[d] \in Nat
<1>1. TypeOK => \A d \in Dirs : LastIn(d) \in Int /\ sent[d] \in Nat
    BY Zenon, LastInInt
<1>2. (TypeOK => \A d \in Dirs : LastIn(d) \in Int /\ sent[d] \in Nat)'
    BY <1>1, PTL
<1> QED BY Zenon, <1>2

\* The last value pushed is not further than the last one sent: towards the server,
LEMMA PushedUp ==
    ASSUME DeliveryInv, PushedInv, [Next]_vars PROVE LastIn("up")' <= sent'["up"]
<1>0. /\ TypeOK /\ "up" \in Dirs /\ OrderInv("up") /\ StreamInv /\ RoomInv
      /\ LastIn("up") \in Int /\ sent["up"] \in Nat /\ LastIn("up") <= sent["up"]
    BY Zenon, StreamParts, OrderTypes DEF DeliveryInv, CompleteInv, PushedInv
<1>1. sent'["up"] \in {sent["up"], sent["up"] + 1}
  <2>1. CASE OutSend
      BY Zenon, <1>0, <2>1 DEF OutSend, TypeOK
  <2> QED BY Zenon, <1>0, <2>1, UpSent
<1>2. CASE ~ServeValue
  <2>1. LastIn("up")' <= LastIn("up") /\ LastIn("up")' \in Int
    <3>1. Kept("up") /\ TypeOK'
        BY Zenon, <1>0, <1>2, UpIn, NextTypeOK
    <3>2. LastIn("up")' \in Int
        BY Zenon, <1>0, <3>1, LastInIntNext
    <3> QED BY Zenon, <3>1, <3>2 DEF Kept
  <2> QED BY SMTT(20), <1>0, <1>1, <2>1
<1>3. CASE ServeValue
  <2>1. /\ wire["up"] # << >> /\ Head(wire["up"]).type \in DataTypes /\ Mapped("up")
        /\ got' = got /\ chan' = chan /\ sent' = sent
      BY Zenon, <1>0, <1>3, ServeValueEffect DEF DataTypes, Mapped
  <2>2. pump'["up"] = Push(pump["up"], Window["up"], Head(wire["up"]).n)
      BY Zenon, <1>0, <1>3, ServedValue, CreditLawsHold
  <2>3. LastIn("up")' = LastIn("up") \/ LastIn("up")' <= LastOut("up")
      BY Zenon, <1>0, <2>1, <2>2, ArrivalOrdered DEF LastIn
  <2> QED BY Zenon, <1>0, <2>1, <2>3 DEF LastOut
<1> QED BY Zenon, <1>2, <1>3

\* and towards the client, where the acknowledgement is pushed first.
LEMMA PushedData ==
    ASSUME DeliveryInv, [Next]_vars, RecvReady \/ RecvValue
    PROVE  LastIn("down")' = LastIn("down") \/ LastIn("down")' <= sent["down"]
<1>0. /\ TypeOK /\ "down" \in Dirs /\ OrderInv("down") /\ StreamInv /\ PutInv
      /\ chan["down"] \in Seq(Int) /\ got["down"] \in Int /\ pump \in [Dirs -> Pump]
      /\ wire["down"] \in Seq(Frames) /\ LastOut("down") \in Int
      /\ LastIn("down") \in Int /\ sent["down"] \in Nat /\ chan \in [Dirs -> Seq(Int)]
    BY Zenon, StreamParts, OrderTypes DEF DeliveryInv, TypeOK
<1>1. /\ wire["down"] # << >> /\ Head(wire["down"]).type \in DataTypes
      /\ Mapped("down") /\ got' = got
    BY Zenon DEF RecvReady, RecvValue, ClientReads, Arrives, Mapped, DataTypes
<1>2. LastOut("down") <= sent["down"]
    BY <1>0 DEF LastOut
<1>3. CASE RecvReady /\ ~HasDown
  <2>1. /\ pump' = pump
        /\ \/ chan'["down"] = chan["down"]
           \/ chan'["down"] = Append(chan["down"], 0) /\ ~rc.done
      BY Zenon, <1>0, <1>3 DEF RecvReady
  <2>2. CASE chan'["down"] = chan["down"]
      BY Zenon, <1>1, <2>1, <2>2 DEF LastIn
  <2>3. CASE chan'["down"] = Append(chan["down"], 0) /\ ~rc.done
    <3>1. kind = "put"
        BY Zenon, <1>0, <1>3, KindsAssumption DEF HasDown, TypeOK, RequestContexts,
           kind, StreamKinds
    <3>2. Live("down")
        BY Zenon, <1>0, <1>1, <2>3, <3>1 DEF PutInv, Live, Accepts
    <3>3. Carries(wire["down"], LastIn("down"), LastOut("down"))
        BY Zenon, <1>0, <3>2 DEF OrderInv
    <3>4. LastIn("down") + 1 <= LastOut("down")
        BY Zenon, <1>0, <1>1, <3>3, CarriesTail
    <3>5. LastIn("down")' = LastIn("down") + 1
      <4>1. Held(pump["down"]) \in Int /\ Len(pump["down"].queue) \in Int
          BY <1>0 DEF Held, Pump
      <4>2. Len(chan'["down"]) = Len(chan["down"]) + 1
          BY <1>0, <2>3
      <4>3. LastIn("down")' = Last(got["down"], chan'["down"], pump["down"])
          BY Zenon, <1>1, <2>1 DEF LastIn
      <4>4. Last(got["down"], chan'["down"], pump["down"])
              = Last(got["down"], chan["down"], pump["down"]) + 1
        <5> DEFINE g == got["down"]
                   c == Len(chan["down"])
                   h == Held(pump["down"])
                   q == Len(pump["down"].queue)
        <5>1. g \in Int /\ c \in Int /\ h \in Int /\ q \in Int
            BY SMTT(20), <1>0, <4>1
        <5> HIDE DEF g, c, h, q
        <5>2. g + (c + 1) + h + q = (g + c + h + q) + 1
            BY <5>1
        <5> QED BY Zenon, <4>2, <5>2 DEF Last, g, c, h, q
      <4>5. LastIn("down") = Last(got["down"], chan["down"], pump["down"])
          BY Zenon DEF LastIn
      <4> QED BY Zenon, <4>3, <4>4, <4>5
    <3> QED BY SMTT(20), <1>0, <1>2, <3>4, <3>5
  <2> QED BY Zenon, <2>1, <2>2, <2>3
<1>4. CASE ~(RecvReady /\ ~HasDown)
  <2>1. /\ chan' = chan
        /\ pump'["down"] = Push(pump["down"], Window["down"], Head(wire["down"]).n)
    <3>1. CASE RecvValue
        BY Zenon, <1>0, <3>1 DEF RecvValue
    <3>2. CASE RecvReady /\ Accepts(pump["down"])
      <4>1. Carries(wire["down"], LastIn("down"), LastOut("down"))
          BY Zenon, <1>0, <1>1, <3>2 DEF OrderInv, Live
      <4>2. Head(wire["down"]).n = 0
          BY Zenon, <1>0, <1>1, <3>2, <4>1, CarriesTail DEF RecvReady, ClientReads,
             Arrives
      <4> QED BY Zenon, <1>0, <1>4, <3>2, <4>2 DEF RecvReady
    <3>3. CASE RecvReady /\ ~Accepts(pump["down"])
      <4>1. \A n : Push(pump["down"], Window["down"], n) = pump["down"]
          BY Zenon, <3>3 DEF Push, Accepts
      <4> QED BY SMTT(20), <1>0, <1>4, <3>3, <4>1 DEF RecvReady
    <3> QED BY Zenon, <3>1, <3>2, <3>3
  <2>2. LastIn("down")' = LastIn("down") \/ LastIn("down")' <= LastOut("down")
      BY Zenon, <1>0, <1>1, <2>1, ArrivalOrdered DEF LastIn
  <2>3. CASE LastIn("down")' <= LastOut("down")
    <3>1. LastIn("down")' \in Int
        BY ZenonT(30), <1>0, NextTypeOK, LastInIntNext
    <3> QED BY SMTT(20), <1>0, <1>2, <2>3, <3>1
  <2> QED BY Zenon, <2>2, <2>3
<1> QED BY Zenon, <1>3, <1>4

\* The bound on what is pushed is kept.
LEMMA NextPushed ==
    ASSUME DeliveryInv, PushedInv, [Next]_vars PROVE PushedInv'
<1>0. /\ TypeOK /\ "down" \in Dirs /\ OrderInv("down") /\ StreamInv
      /\ LastIn("down") \in Int /\ sent["down"] \in Nat /\ LastIn("down")' \in Int
      /\ wire["down"] \in Seq(Frames)
    BY Zenon, StreamParts, OrderTypes, NextTypeOK, LastInIntNext DEF DeliveryInv
<1>1. LastIn("up")' <= sent'["up"]
    BY Zenon, PushedUp
<1>2. sent'["down"] \in {sent["down"], sent["down"] + 1}
  <2>1. CASE StreamerSend
      BY Zenon, <1>0, <2>1 DEF StreamerSend, TypeOK
  <2>2. CASE ~StreamerSend
      BY Zenon, <1>0, <2>2, CountSteps DEF OutSend, TypeOK, Dirs
  <2> QED BY Zenon, <2>1, <2>2
<1>3. CASE LastIn("down")' <= LastIn("down")
  <2>1. CASE LastIn("down") <= sent["down"]
      BY SMTT(20), <1>0, <1>1, <1>2, <1>3, <2>1 DEF PushedInv
  <2>2. CASE LastIn("down") = sent["down"] + 1 /\ sr.closed /\ sender["down"] = "done"
    <3>1. sr'.closed /\ sender'["down"] = "done" /\ sent'["down"] = sent["down"]
        BY Zenon, <1>0, <2>2, TornKept, DoneKept
    <3> QED BY SMTT(20), <1>0, <1>1, <1>3, <2>2, <3>1 DEF PushedInv
  <2> QED BY Zenon, <2>1, <2>2 DEF PushedInv
<1>4. CASE LastIn("down")' <= sent["down"]
    BY SMTT(20), <1>0, <1>1, <1>2, <1>4 DEF PushedInv
<1>5. CASE RecvEnd /\ Live("down") /\ LastIn("down")' = Head(wire["down"]).n
           /\ Head(wire["down"]).n # 0
  <2>1. wire["down"] # << >> /\ Head(wire["down"]).type = "StreamEnd"
      BY Zenon, <1>0, <1>5, EndTaken
  <2>2. sender["down"] = "done" /\ Head(wire["down"]).n \in {0, sent["down"] + 1}
      BY Zenon, <1>0, <1>5, <2>1, EndArrives DEF EndedOut
  <2>3. sr.closed
      BY Zenon, <1>0, <2>1, UnderWay DEF DeliveryInv, CompleteInv, FinalInv
  <2>4. sr'.closed /\ sender'["down"] = "done" /\ sent'["down"] = sent["down"]
      BY Zenon, <1>0, <2>2, <2>3, TornKept, DoneKept
  <2> QED BY Zenon, <1>1, <1>5, <2>2, <2>4 DEF PushedInv
<1>6. ~DownRecvs => LastIn("down")' <= LastIn("down")
    BY Zenon, <1>0, DownIn DEF Kept
<1>7. RecvReady \/ RecvValue =>
          LastIn("down")' = LastIn("down") \/ LastIn("down")' <= sent["down"]
    BY Zenon, PushedData
<1> QED BY SMTT(20), <1>0, <1>3, <1>4, <1>5, <1>6, <1>7, EndTaken DEF DownRecvs

\* What a step does to the two counters of a direction and to the tear-down.
LEMMA CountersStep ==
    ASSUME TypeOK, [Next]_vars, NEW d \in Dirs, OrderInv(d)
    PROVE  \/ got'[d] = got[d] /\ sent'[d] = sent[d] /\ sr'.closed = sr.closed
           \/ got'[d] = got[d] /\ sent'[d] = sent[d] /\ ~sr.closed /\ sr'.closed = TRUE
           \/ /\ got'[d] = got[d] /\ sent'[d] = sent[d] + 1 /\ sr' = sr
              /\ sender[d] = "send"
           \/ got'[d] = got[d] + 1 /\ sent'[d] = sent[d] /\ sr' = sr /\ chan[d] # << >>
<1>0. /\ "up" \in Dirs /\ "down" \in Dirs /\ sent \in [Dirs -> Nat]
      /\ got \in [Dirs -> Int] /\ sr \in ServingRequests
    BY Zenon DEF TypeOK, Dirs
<1>1. CASE got'[d] # got[d]
  <2>1. /\ got'[d] = got[d] + 1 /\ chan[d] # << >>
        /\ Establish \/ AppReceive \/ HandlerReceive
      BY Zenon, <1>1, GotStep
  <2>2. sent' = sent /\ sr' = sr
      BY Zenon, <2>1 DEF Establish, AppReceive, HandlerReceive, server
  <2> QED BY Zenon, <2>1, <2>2
<1>2. CASE sent'[d] # sent[d]
  <2>1. OutSend \/ StreamerSend
      BY Zenon, <1>2, CountSteps
  <2>2. /\ got' = got /\ sr' = sr
      BY Zenon, <2>1 DEF OutSend, StreamerSend, flow, server
  <2>3. sent'[d] = sent[d] + 1 /\ sender[d] = "send"
      BY Zenon, <1>0, <1>2, <2>1 DEF OutSend, StreamerSend, Dirs
  <2> QED BY Zenon, <2>2, <2>3
<1>3. CASE got'[d] = got[d] /\ sent'[d] = sent[d]
  <2>1. \/ sr'.closed = sr.closed \/ sr'.closed = TRUE
    <3>1. CASE ServeEnd \/ HandlerStore
        BY Zenon, <1>0, <3>1 DEF ServeEnd, HandlerStore, ServingRequests
    <3>2. CASE ServeValue
        BY SMTT(20), <3>2 DEF ServeValue
    <3>3. CASE ServeCancel \/ HandlerError \/ StreamerEnd \/ StreamerRefused
        BY <3>3 DEF ServeCancel, HandlerError, StreamerEnd, StreamerRefused, ServerClose
    <3> QED BY Zenon, <3>1, <3>2, <3>3, ServingSteps
  <2>2. sr.closed \in BOOLEAN
      BY Zenon, <1>0 DEF ServingRequests
  <2> QED BY Zenon, <1>3, <2>1, <2>2
<1> QED BY Zenon, <1>1, <1>2, <1>3

\* A sender that has paid for its value is less than the window and the channel
\* ahead of the application.
LEMMA SendBound ==
    ASSUME DeliveryInv, NEW d \in Dirs, sender[d] = "send"
    PROVE  sent[d] - (IF got[d] < 0 THEN 0 ELSE got[d]) < Window[d] + ChanCap[d]
<1> DEFINE g == got[d]
           c == Len(chan[d])
           k == Hooked(pump[d])
           m == Window[d]
           s == sent[d]
           y == ChanCap[d]
           a == Acked(d)
           v == IF WindowGranted(d) THEN m ELSE 0
<1>0. /\ TypeOK /\ OrderInv(d) /\ CreditInv(d) /\ DeliveredInv(d) /\ PutInv
    BY Zenon, StreamParts DEF DeliveryInv
<1>1. /\ g \in Int /\ c \in Nat /\ k \in {0, 1} /\ m \in Nat /\ s \in Nat
      /\ a = g + c - k /\ v \in {0, m}
    BY Zenon, <1>0, Counted, CreditLawsHold
<1>2. y \in Nat /\ y >= 1 /\ c <= y
    BY Zenon, <1>0, OrderTypes DEF OrderInv
<1>3. d = "up" \/ HasDown
    BY Zenon, <1>0, KindsAssumption DEF Dirs, PutInv, HasDown, TypeOK,
       RequestContexts, kind, StreamKinds
<1>4. s + 1 <= v + (IF a < 0 THEN 0 ELSE a)
  <2>1. Sending(d) = 1
      BY Zenon DEF Sending
  <2>2. s + Sending(d) <= v + (IF a < 0 THEN 0 ELSE a)
      BY Zenon, <1>0, <1>3, PaidFor, CreditLawsHold
  <2> QED BY Zenon, <2>1, <2>2
<1> HIDE DEF g, c, k, m, s, y, a, v
<1>5. s - (IF g < 0 THEN 0 ELSE g) < m + y
    BY SMTT(20), <1>1, <1>2, <1>4
<1> QED BY Zenon, <1>5 DEF g, m, s, y

\* What the application took was pushed; a value in the channel was, too.
LEMMA TakenWasPushed ==
    ASSUME TypeOK, NEW d \in Dirs
    PROVE  /\ got[d] \in Int /\ LastIn(d) \in Int /\ sent[d] \in Nat
           /\ got[d] <= LastIn(d) /\ (chan[d] # << >> => got[d] + 1 <= LastIn(d))
<1> DEFINE g == got[d]
           c == Len(chan[d])
           h == Held(pump[d])
           q == Len(pump[d].queue)
<1>1. /\ g \in Int /\ c \in Nat /\ h \in {0, 1} /\ q \in Nat /\ sent[d] \in Nat
      /\ LastIn(d) = g + c + h + q
    BY Zenon, Counted, CreditLawsHold
<1>2. chan[d] # << >> => c >= 1
    BY OrderTypes
<1> HIDE DEF g, c, h, q
<1>3. LastIn(d) \in Int /\ g <= LastIn(d) /\ (c >= 1 => g + 1 <= LastIn(d))
    BY <1>1
<1> QED BY Zenon, <1>1, <1>2, <1>3 DEF g

\* Towards the server: a value paid for is a Send, a value taken a Receive, the
\* closing of the serving request the TearDown.
LEMMA UpImplements ==
    ASSUME DeliveryInv, PushedInv, [Next]_vars PROVE [Up!Next]_(Up!vars)
<1>0. /\ TypeOK /\ "up" \in Dirs /\ OrderInv("up") /\ LastIn("up") <= sent["up"]
      /\ got["up"] >= 0
    BY Zenon, StreamParts DEF DeliveryInv, PushedInv, OrderInv
<1>1. /\ got["up"] \in Int /\ LastIn("up") \in Int /\ sent["up"] \in Nat
      /\ got["up"] <= LastIn("up") /\ (chan["up"] # << >> => got["up"] + 1 <= LastIn("up"))
    BY Zenon, <1>0, TakenWasPushed
<1>2. CASE got'["up"] = got["up"] /\ sent'["up"] = sent["up"] /\ sr'.closed = sr.closed
    BY Zenon, <1>2 DEF Up!vars
<1>3. CASE /\ got'["up"] = got["up"] /\ sent'["up"] = sent["up"]
           /\ ~sr.closed /\ sr'.closed = TRUE
    BY Zenon, <1>3 DEF Up!Next, Up!TearDown
<1>4. CASE /\ got'["up"] = got["up"] /\ sent'["up"] = sent["up"] + 1 /\ sr' = sr
           /\ sender["up"] = "send"
  <2>1. sent["up"] - got["up"] < Window["up"] + ChanCap["up"]
    <3>1. sent["up"] - (IF got["up"] < 0 THEN 0 ELSE got["up"])
            < Window["up"] + ChanCap["up"]
        BY Zenon, <1>0, <1>4, SendBound
    <3>2. ~(got["up"] < 0)
        BY SMTT(20), <1>0, <1>1
    <3> QED BY Zenon, <3>1, <3>2
  <2> QED BY Zenon, <1>4, <2>1 DEF Up!Next, Up!Send
<1>5. CASE /\ got'["up"] = got["up"] + 1 /\ sent'["up"] = sent["up"] /\ sr' = sr
           /\ chan["up"] # << >>
  <2>1. got["up"] < sent["up"]
      BY SMTT(20), <1>0, <1>1, <1>5
  <2> QED BY Zenon, <1>5, <2>1 DEF Up!Next, Up!Receive
<1> QED BY Zenon, <1>0, <1>2, <1>3, <1>4, <1>5, CountersStep

\* Towards the client the acknowledgement counts for nothing, and the final value
\* of a closed stream is handed over.
LEMMA DownImplements ==
    ASSUME DeliveryInv, PushedInv, [Next]_vars PROVE [Down!Next]_(Down!vars)
<1> DEFINE s == sent["down"]
           g == got["down"]
<1>0. /\ TypeOK /\ "down" \in Dirs /\ OrderInv("down") /\ g >= -1
      /\ \/ LastIn("down") <= s
         \/ LastIn("down") = s + 1 /\ sr.closed /\ sender["down"] = "done"
    BY Zenon, StreamParts DEF DeliveryInv, PushedInv, OrderInv
<1>1. /\ g \in Int /\ LastIn("down") \in Int /\ s \in Nat
      /\ g <= LastIn("down") /\ (chan["down"] # << >> => g + 1 <= LastIn("down"))
    BY Zenon, <1>0, TakenWasPushed
<1>2. CASE got'["down"] = g /\ sent'["down"] = s /\ sr'.closed = sr.closed
    BY Zenon, <1>2 DEF Down!vars
<1>3. CASE got'["down"] = g /\ sent'["down"] = s /\ ~sr.closed /\ sr'.closed = TRUE
    BY Zenon, <1>3 DEF Down!Next, Down!TearDown
<1>4. CASE /\ got'["down"] = g /\ sent'["down"] = s + 1 /\ sr' = sr
           /\ sender["down"] = "send"
  <2>1. s - (IF g < 0 THEN 0 ELSE g) < Window["down"] + ChanCap["down"]
      BY Zenon, <1>0, <1>4, SendBound
  <2>2. ~(g > s) /\ ~(g > s + 1)
    <3> HIDE DEF s, g
    <3> QED BY SMTT(20), <1>0, <1>1, <1>4
  <2> QED BY Zenon, <1>4, <2>1, <2>2 DEF Down!Next, Down!Send
<1>5. CASE /\ got'["down"] = g + 1 /\ sent'["down"] = s /\ sr' = sr
           /\ chan["down"] # << >>
  <2>1. CASE g = -1
    <3>1. ~(g > s) /\ ~(g + 1 > s) /\ g < 0 /\ ~(g + 1 < 0) /\ g + 1 = 0
      <4> HIDE DEF s, g
      <4> QED BY SMTT(20), <1>1, <2>1
    <3> QED BY Zenon, <1>5, <3>1 DEF Down!vars
  <2>2. CASE g >= 0 /\ g + 1 <= s
    <3>1. ~(g > s) /\ ~(g + 1 > s) /\ ~(g < 0) /\ ~(g + 1 < 0) /\ g < s
      <4> HIDE DEF s, g
      <4> QED BY SMTT(20), <1>1, <2>2
    <3> QED BY Zenon, <1>5, <3>1 DEF Down!Next, Down!Receive
  <2>3. CASE g >= 0 /\ ~(g + 1 <= s)
    <3>1. /\ g = s /\ sr.closed /\ ~(g > s) /\ g + 1 > s /\ ~(g < 0) /\ ~(g + 1 < 0)
      <4> HIDE DEF s, g
      <4> QED BY SMTT(20), <1>0, <1>1, <1>5, <2>3
    <3> QED BY Zenon, <1>5, <3>1 DEF Down!Next, Down!HandOver
  <2> HIDE DEF s, g
  <2> QED BY SMTT(20), <1>0, <1>1, <2>1, <2>2, <2>3
<1> QED BY Zenon, <1>0, <1>2, <1>3, <1>4, <1>5, CountersStep

\* Before the call nothing is sent, taken or torn down.
LEMMA InitImplements == ASSUME Init, TypeOK PROVE Up!Init /\ Down!Init /\ PushedInv
<1>1. /\ got["up"] = 0 /\ got["down"] = -1 /\ sent["up"] = 0 /\ sent["down"] = 0
      /\ chan["up"] = << >> /\ chan["down"] = << >> /\ sr.closed = FALSE
      /\ pump["up"].queue = << >> /\ pump["up"].hand = << >>
      /\ pump["down"].queue = << >> /\ pump["down"].hand = << >>
    BY Zenon DEF Init, Dirs, NewStreamPump
<1>2. LastIn("up") = 0 /\ LastIn("down") = -1
    BY <1>1 DEF LastIn, Last, Held
<1>3. Up!Init
    BY Zenon, <1>1 DEF Up!Init
<1>4. Down!Init
    BY <1>1 DEF Down!Init
<1> QED BY SMTT(20), <1>1, <1>2, <1>3, <1>4 DEF PushedInv

\* Each direction of a stream implements BoundedStream, the abstract stream with
\* room for the window and the channel's capacity, whatever these are: the
\* credit of valuerpc/credit.go, the frames and the pump of valuerpc/pump.go only
\* ever do what its four actions allow.
THEOREM ImplementsCorrect == Spec => Implements
<1>1. Init /\ TypeOK => Up!Init /\ Down!Init /\ PushedInv
    BY Zenon, InitImplements
<1>2. DeliveryInv /\ PushedInv /\ [Next]_vars => PushedInv'
    BY Zenon, NextPushed
<1>3. DeliveryInv /\ PushedInv /\ [Next]_vars
        => [Up!Next]_(Up!vars) /\ [Down!Next]_(Down!vars)
    BY Zenon, UpImplements, DownImplements
<1> QED BY <1>1, <1>2, <1>3, DeliveryInvariant, TypeCorrect, PTL
        DEF Spec, Implements, Up!Spec, Down!Spec

=============================================================================

--------------------------- MODULE DispatchProofs ---------------------------
(***************************************************************************)
(* The server's half of a session for every set of requests and both caps: *)
(* handlers and streams are counted right whoever ends them, and in what   *)
(* order.  And what Verify accepts of the arguments a caller passed, which *)
(* reach it by the wire.                                                   *)
(***************************************************************************)
EXTENDS Dispatch, Verify, FiniteSetTheorems, TLAPS

USE ReqsAssumption, KindAssumption, CapsAssumption

-----------------------------------------------------------------------------
(* The inductive invariant *)

\* No handler was started for r, and the read loop does not hold it.
Fresh(r) == handler[r] = "none" /\ loop # r

\* A request is opened once: until the loop reads its frame it is fresh.
MailInv ==
    /\ \A r \in Reqs : asked[r] = "nothing" => Fresh(r)
    /\ \A i \in 1..Len(inbox) : inbox[i].type = "Open" =>
          /\ asked[inbox[i].req] # "nothing" /\ Fresh(inbox[i].req)
          /\ \A j \in 1..Len(inbox) :
                inbox[j].type = "Open" /\ inbox[j].req = inbox[i].req => j = i
    /\ loop # NoReq => handler[loop] = "none"

\* What the program counter of a handler says of its request.
PhaseInv ==
    \A r \in Reqs :
        /\ handler[r] \in {"none", "spawned", "prepared"} => r \notin requests
        /\ handler[r] \in {"prepared", "stored", "running"} => ctx[r] # "none"
        /\ streamer[r] # "off" => handler[r] = "returned" /\ ctx[r] # "none"
        /\ streamer[r] = "done" => r \notin requests /\ ctx[r] = "cancelled"

Stored == {r \in Reqs : handler[r] = "stored"}

\* The counter of streams follows the map, but for those not counted yet.
CountInv == liveStreams = Cardinality(requests) - Cardinality(Stored)

Inv == TypeOK /\ MailInv /\ PhaseInv /\ CountInv /\ HandlersBounded

-----------------------------------------------------------------------------
(* Counting requests *)

\* Sets of requests are finite, and one request more or less counts for one.
LEMMA Counting ==
    ASSUME NEW S, S \subseteq Reqs
    PROVE  /\ IsFiniteSet(S) /\ Cardinality(S) \in Nat
           /\ \A c : c \notin S => Cardinality(S \union {c}) = Cardinality(S) + 1
           /\ \A c \in S : Cardinality(S \ {c}) = Cardinality(S) - 1 /\ Cardinality(S) >= 1
<1>1. IsFiniteSet(S) BY Zenon, FS_Subset
<1>2. Cardinality(S) \in Nat BY Zenon, <1>1, FS_CardinalityType
<1>3. \A c : c \notin S => Cardinality(S \union {c}) = Cardinality(S) + 1
  BY Zenon, <1>1, FS_AddElement
<1>4. ASSUME NEW c \in S
      PROVE  Cardinality(S \ {c}) = Cardinality(S) - 1 /\ Cardinality(S) >= 1
  <2>1. Cardinality(S \ {c}) = Cardinality(S) - 1 BY Zenon, <1>1, FS_RemoveElement
  <2>2. IsFiniteSet(S \ {c}) BY Zenon, <1>1, FS_RemoveElement
  <2>3. Cardinality(S \ {c}) \in Nat BY Zenon, <2>2, FS_CardinalityType
  <2> QED BY <1>2, <2>1, <2>3
<1> QED BY Zenon, <1>1, <1>2, <1>3, <1>4

\* A handler that ends gives its slot back.
LEMMA HandlerEnds ==
    ASSUME Inv, NEW r \in Reqs, r \in Active, NEW to \in {"returned", "rejected", "panicked"},
           handler' = [handler EXCEPT ![r] = to], inFlight' = inFlight - 1, loop' = loop
    PROVE  HandlersBounded' /\ inFlight' \in Nat
<1>1. Active' = Active \ {r} BY Zenon DEF Active, Inv, TypeOK
<1>2. /\ Cardinality(Active) \in Nat /\ Cardinality(Active) >= 1
      /\ Cardinality(Active') = Cardinality(Active) - 1
  BY Zenon, <1>1, Counting DEF Active
<1> QED BY <1>2 DEF Inv, HandlersBounded, TypeOK

\* A step that neither starts nor ends a handler leaves the slots alone.
LEMMA HandlersKept ==
    ASSUME Inv, Active' = Active, inFlight' = inFlight, loop' = loop
    PROVE  HandlersBounded'
BY Zenon DEF Inv, HandlersBounded

\* deleteRequest keeps the counter and the map together.
LEMMA Retires ==
    ASSUME Inv, NEW r \in Reqs, DeleteRequest(r), Stored' = Stored
    PROVE  CountInv' /\ liveStreams' \in Int /\ requests' \subseteq Reqs
<1>1. /\ requests \subseteq Reqs /\ liveStreams \in Int
      /\ liveStreams = Cardinality(requests) - Cardinality(Stored)
  BY Zenon DEF Inv, TypeOK, CountInv
<1>2. Cardinality(requests) \in Nat /\ Cardinality(Stored) \in Nat
  BY Zenon, <1>1, Counting DEF Stored
<1>3. CASE r \in requests
  <2>1. Cardinality(requests') = Cardinality(requests) - 1
    BY Zenon, <1>1, <1>3, Counting DEF DeleteRequest
  <2> QED BY <1>1, <1>2, <1>3, <2>1 DEF DeleteRequest, CountInv
<1>4. CASE r \notin requests
  <2>1. requests' = requests BY Zenon, <1>4 DEF DeleteRequest
  <2> QED BY Zenon, <1>1, <1>2, <1>4, <2>1 DEF DeleteRequest, CountInv
<1> QED BY Zenon, <1>3, <1>4

\* What every step that reads at most one frame does to the mail.
LEMMA MailKept ==
    ASSUME Inv, UNCHANGED <<asked, loop>>,
           inbox' = inbox \/ inbox' = << >> \/ (inbox # << >> /\ inbox' = Tail(inbox)),
           \A r \in Reqs : handler[r] = "none" => handler'[r] = "none"
    PROVE  MailInv' /\ inbox' \in Seq(Frames)
<1>0. inbox \in Seq(Frames) /\ loop \in Reqs \union {NoReq} BY Zenon DEF Inv, TypeOK
<1>1. inbox' \in Seq(Frames)
  <2>1. CASE inbox' = inbox BY Zenon, <1>0, <2>1
  <2>2. CASE inbox' = << >> BY <2>2
  <2>3. CASE inbox # << >> /\ inbox' = Tail(inbox) BY <1>0, <2>3
  <2> QED BY Zenon, <2>1, <2>2, <2>3
<1>2. PICK k \in {0, 1} : \A i \in 1..Len(inbox') : i + k \in 1..Len(inbox)
                                                   /\ inbox'[i] = inbox[i + k]
  <2>1. CASE inbox' = inbox BY <1>0, <2>1
  <2>2. CASE inbox' = << >> BY <2>2
  <2>3. CASE inbox # << >> /\ inbox' = Tail(inbox) BY <1>0, <2>3
  <2> QED BY Zenon, <2>1, <2>2, <2>3
<1>3. \A i \in 1..Len(inbox') : inbox'[i].req \in Reqs
  <2> SUFFICES ASSUME NEW i \in 1..Len(inbox') PROVE inbox'[i].req \in Reqs BY Zenon
  <2>1. inbox'[i] \in Frames BY <1>1
  <2> QED BY Zenon, <2>1 DEF Frames
<1>4. MailInv'
  <2>1. \A r \in Reqs : Fresh(r) => Fresh(r)' BY Zenon DEF Fresh
  <2>2. \A r \in Reqs : asked'[r] = "nothing" => Fresh(r)' BY Zenon, <2>1 DEF Inv, MailInv
  <2>3. ASSUME NEW i \in 1..Len(inbox'), inbox'[i].type = "Open"
        PROVE  /\ asked'[inbox'[i].req] # "nothing" /\ Fresh(inbox[i].req)'
               /\ \A j \in 1..Len(inbox') :
                     inbox'[j].type = "Open" /\ inbox'[j].req = inbox'[i].req => j = i
    <3>1. i + k \in 1..Len(inbox) /\ inbox'[i] = inbox[i + k] BY Zenon, <1>2
    <3>2. asked[inbox[i + k].req] # "nothing" /\ Fresh(inbox[i + k].req)
      BY Zenon, <2>3, <3>1 DEF Inv, MailInv
    <3>3. ASSUME NEW j \in 1..Len(inbox'), inbox'[j].type = "Open",
                 inbox'[j].req = inbox'[i].req
          PROVE  j = i
      <4>1. j + k \in 1..Len(inbox) /\ inbox'[j] = inbox[j + k] BY Zenon, <1>2
      <4>2. j + k = i + k BY <2>3, <3>1, <3>3, <4>1 DEF Inv, MailInv
      <4> QED BY <4>2, i \in Int, j \in Int
    <3> QED BY Zenon, <1>3, <2>1, <3>1, <3>2, <3>3
  <2>4. loop' # NoReq => handler'[loop'] = "none" BY Zenon, <1>0 DEF Inv, MailInv
  <2> QED BY Zenon, <2>2, <2>3, <2>4 DEF MailInv
<1> QED BY Zenon, <1>1, <1>4
-----------------------------------------------------------------------------
(* The steps *)

LEMMA InitInv == Init => Inv
<1> SUFFICES ASSUME Init PROVE Inv BY Zenon
<1>1. TypeOK BY DEF Init, TypeOK
<1>2. MailInv /\ PhaseInv BY DEF Init, MailInv, PhaseInv, Fresh
<1>3. Active = {} /\ Stored = {} /\ requests = {} BY Zenon DEF Init, Active, Stored
<1>4. Cardinality({}) = 0 BY Zenon, FS_EmptySet
<1>5. CountInv BY <1>3, <1>4 DEF Init, CountInv
<1>6. HandlersBounded BY <1>3, <1>4 DEF Init, HandlersBounded
<1> QED BY Zenon, <1>1, <1>2, <1>5, <1>6 DEF Inv

\* The client opens or ends a request: a frame more in the inbox.
LEMMA ClientStep ==
    ASSUME Inv, NEW r \in Reqs, ClientAsks(r) \/ ClientEnds(r)
    PROVE  Inv'
<1>0. /\ UNCHANGED <<link, loop, inFlight, liveStreams, handler, ctx, cancels, requests,
                     closed, streamer, answered, session>>
      /\ inbox \in Seq(Frames)
  BY Zenon DEF ClientAsks, ClientEnds, Inv, TypeOK
<1>1. PICK f \in Frames : /\ inbox' = Append(inbox, f) /\ f.req = r
                          /\ f.type = "Open" => asked[r] = "nothing"
  <2>1. \A t \in {"Open", "Cancel", "End"} : [type |-> t, req |-> r] \in Frames
    BY Zenon DEF Frames
  <2>2. CASE ClientAsks(r) BY Zenon, <2>1, <2>2 DEF ClientAsks
  <2>3. CASE ClientEnds(r)
    <3>1. PICK t \in {"Cancel", "End"} : inbox' = Append(inbox, [type |-> t, req |-> r])
      BY Zenon, <2>3 DEF ClientEnds
    <3> QED BY Zenon, <2>1, <3>1
  <2> QED BY Zenon, <2>2, <2>3
<1>2. /\ asked' \in [Reqs -> {"nothing", "open", "ended"}] /\ asked'[r] # "nothing"
      /\ \A q \in Reqs : asked[q] # "nothing" => asked'[q] # "nothing"
  BY Zenon DEF ClientAsks, ClientEnds, Inv, TypeOK
<1>3. inbox' \in Seq(Frames) BY <1>0, <1>1
<1>4. /\ Len(inbox') = Len(inbox) + 1 /\ Len(inbox) \in Nat /\ inbox'[Len(inbox) + 1] = f
      /\ \A i \in 1..Len(inbox) : inbox'[i] = inbox[i] /\ inbox[i] \in Frames
  BY <1>0, <1>1
<1>5. TypeOK' BY Zenon, <1>0, <1>2, <1>3 DEF Inv, TypeOK
<1>6. PhaseInv' BY Zenon, <1>0 DEF Inv, PhaseInv
<1>7. CountInv' BY Zenon, <1>0 DEF Inv, CountInv, Stored
<1>8. HandlersBounded' BY Zenon, <1>0 DEF Inv, HandlersBounded, Active
<1>9. MailInv'
  <2>1. \A q \in Reqs : Fresh(q)' <=> Fresh(q) BY Zenon, <1>0 DEF Fresh
  <2>2. \A q \in Reqs : asked'[q] = "nothing" => Fresh(q)' BY Zenon, <1>2, <2>1 DEF Inv, MailInv
  <2>3. ASSUME NEW i \in 1..Len(inbox'), inbox'[i].type = "Open"
        PROVE  /\ asked'[inbox'[i].req] # "nothing" /\ Fresh(inbox[i].req)'
               /\ \A j \in 1..Len(inbox') :
                     inbox'[j].type = "Open" /\ inbox'[j].req = inbox'[i].req => j = i
    <3>1. CASE i \in 1..Len(inbox)
      <4>1. inbox'[i] = inbox[i] /\ inbox[i].req \in Reqs BY Zenon, <1>4, <3>1 DEF Frames
      <4>2. /\ asked[inbox[i].req] # "nothing" /\ Fresh(inbox[i].req)
            /\ \A j \in 1..Len(inbox) :
                  inbox[j].type = "Open" /\ inbox[j].req = inbox[i].req => j = i
        BY Zenon, <2>3, <3>1, <4>1 DEF Inv, MailInv
      <4>3. \A j \in 1..Len(inbox') :
               inbox'[j].type = "Open" /\ inbox'[j].req = inbox'[i].req => j = i
        BY <1>1, <1>4, <3>1, <4>1, <4>2
      <4> QED BY Zenon, <1>2, <2>1, <4>1, <4>2, <4>3
    <3>2. CASE i = Len(inbox) + 1
      <4>1. inbox'[i] = f /\ asked[r] = "nothing" BY Zenon, <1>1, <1>4, <2>3, <3>2
      <4>2. Fresh(r)' BY Zenon, <2>1, <4>1 DEF Inv, MailInv
      <4>3. \A j \in 1..Len(inbox) : inbox[j].type = "Open" => inbox[j].req # r
        BY Zenon, <4>1 DEF Inv, MailInv
      <4> QED BY <1>1, <1>2, <1>4, <3>2, <4>1, <4>2, <4>3
    <3> QED BY <1>4, <3>1, <3>2
  <2>4. loop' # NoReq => handler'[loop'] = "none" BY Zenon, <1>0 DEF Inv, MailInv
  <2> QED BY Zenon, <2>2, <2>3, <2>4 DEF MailInv
<1> QED BY Zenon, <1>5, <1>6, <1>7, <1>8, <1>9 DEF Inv

\* The connection breaks or comes back, and the end of the session.
LEMMA LinkStep ==
    ASSUME Inv, Disconnect \/ Resume \/ CloseSession \/ CloseStreams
    PROVE  Inv'
<1>0. /\ UNCHANGED <<asked, loop, inFlight, liveStreams, handler, cancels, requests,
                     streamer, answered>>
      /\ inbox' = inbox \/ inbox' = << >>
  BY Zenon DEF Disconnect, Resume, CloseSession, CloseStreams, clientVars
<1>1. MailInv' /\ inbox' \in Seq(Frames) BY Zenon, <1>0, MailKept
<1>2. \A r \in Reqs : /\ ctx'[r] = "none" <=> ctx[r] = "none"
                      /\ ctx[r] = "cancelled" => ctx'[r] = "cancelled"
  BY Zenon DEF Disconnect, Resume, CloseSession, CloseStreams, Inv, TypeOK
<1>3. TypeOK'
  <2>1. link' \in BOOLEAN
    BY Zenon DEF Disconnect, Resume, CloseSession, CloseStreams, clientVars, Inv, TypeOK
  <2>2. ctx' \in [Reqs -> {"none", "live", "cancelled"}]
    BY Zenon DEF Disconnect, Resume, CloseSession, CloseStreams, Inv, TypeOK
  <2>3. closed' \subseteq Reqs /\ session' \in {"open", "closing", "closed"}
    BY Zenon DEF Disconnect, Resume, CloseSession, CloseStreams, Inv, TypeOK
  <2> QED BY Zenon, <1>0, <1>1, <2>1, <2>2, <2>3 DEF Inv, TypeOK
<1>4. PhaseInv' BY Zenon, <1>0, <1>2 DEF Inv, PhaseInv
<1>5. CountInv' BY Zenon, <1>0 DEF Inv, CountInv, Stored
<1>6. HandlersBounded' BY Zenon, <1>0 DEF Inv, HandlersBounded, Active
<1> QED BY Zenon, <1>1, <1>3, <1>4, <1>5, <1>6 DEF Inv
\* The read loop reserves a slot, or holds a request over the limit.
LEMMA ReadOpenStep ==
    ASSUME Inv, NEW r \in Reqs, ReadOpen(r)
    PROVE  Inv'
<1>0. /\ loop = NoReq /\ inbox # << >> /\ Head(inbox) = [type |-> "Open", req |-> r]
      /\ inbox' = Tail(inbox) /\ inFlight' = inFlight + 1
      /\ UNCHANGED <<link, asked, liveStreams, ctx, cancels, requests, closed, streamer,
                     answered, session>>
  BY Zenon DEF ReadOpen, Reads, clientVars
<1>1. inbox \in Seq(Frames) /\ inFlight \in Nat BY Zenon DEF Inv, TypeOK
<1>2. /\ inbox' \in Seq(Frames) /\ Len(inbox') = Len(inbox) - 1 /\ Len(inbox) \in Nat \ {0}
      /\ inbox[1] = [type |-> "Open", req |-> r]
      /\ \A i \in 1..Len(inbox') : /\ inbox'[i] = inbox[i + 1] /\ inbox'[i] \in Frames
                                   /\ i + 1 \in 1..Len(inbox)
  BY <1>0, <1>1
<1>3. /\ asked[r] # "nothing" /\ handler[r] = "none"
      /\ \A i \in 1..Len(inbox') : inbox'[i].type = "Open" => inbox'[i].req # r
  <2>1. 1 \in 1..Len(inbox) /\ inbox[1].type = "Open" /\ inbox[1].req = r BY <1>2
  <2>2. asked[r] # "nothing" /\ handler[r] = "none" BY Zenon, <2>1 DEF Inv, MailInv, Fresh
  <2>3. ASSUME NEW i \in 1..Len(inbox'), inbox'[i].type = "Open", inbox'[i].req = r
        PROVE  FALSE
    <3>1. i + 1 = 1 BY Zenon, <1>2, <2>1, <2>3 DEF Inv, MailInv
    <3> QED BY <3>1
  <2> QED BY Zenon, <2>2, <2>3
<1>4. /\ loop' \in {NoReq, r} /\ \A q \in Reqs \ {r} : handler'[q] = handler[q]
      /\ handler' \in [Reqs -> {"none", "spawned", "prepared", "stored", "running",
                                "returned", "rejected", "panicked"}]
      /\ handler'[r] \in {"none", "spawned"} /\ (loop' = r => handler' = handler)
  BY Zenon, <1>0, <1>3 DEF ReadOpen, Inv, TypeOK
<1>5. TypeOK' BY <1>0, <1>1, <1>2, <1>4 DEF Inv, TypeOK
<1>6. PhaseInv' BY Zenon, <1>0, <1>3, <1>4 DEF Inv, PhaseInv
<1>7. Stored' = Stored BY Zenon, <1>3, <1>4 DEF Stored
<1>8. CountInv' BY Zenon, <1>0, <1>7 DEF Inv, CountInv
<1>9. MailInv'
  <2>1. \A q \in Reqs \ {r} : Fresh(q) => Fresh(q)' BY Zenon, <1>4 DEF Fresh
  <2>2. \A q \in Reqs : asked'[q] = "nothing" => Fresh(q)'
    BY Zenon, <1>0, <1>3, <2>1 DEF Inv, MailInv
  <2>3. ASSUME NEW i \in 1..Len(inbox'), inbox'[i].type = "Open"
        PROVE  /\ asked'[inbox'[i].req] # "nothing" /\ Fresh(inbox[i].req)'
               /\ \A j \in 1..Len(inbox') :
                     inbox'[j].type = "Open" /\ inbox'[j].req = inbox'[i].req => j = i
    <3>1. i + 1 \in 1..Len(inbox) /\ inbox'[i] = inbox[i + 1] /\ inbox'[i].req \in Reqs \ {r}
      BY Zenon, <1>2, <1>3, <2>3 DEF Frames
    <3>2. asked[inbox[i + 1].req] # "nothing" /\ Fresh(inbox[i + 1].req)
      BY Zenon, <2>3, <3>1 DEF Inv, MailInv
    <3>3. ASSUME NEW j \in 1..Len(inbox'), inbox'[j].type = "Open",
                 inbox'[j].req = inbox'[i].req
          PROVE  j = i
      <4>1. j + 1 \in 1..Len(inbox) /\ inbox'[j] = inbox[j + 1] BY Zenon, <1>2
      <4>2. j + 1 = i + 1 BY Zenon, <2>3, <3>1, <3>3, <4>1 DEF Inv, MailInv
      <4> QED BY <4>2, i \in Int, j \in Int
    <3> QED BY Zenon, <1>0, <2>1, <3>1, <3>2, <3>3
  <2>4. loop' # NoReq => handler'[loop'] = "none" BY Zenon, <1>3, <1>4
  <2> QED BY Zenon, <2>2, <2>3, <2>4 DEF MailInv
<1>10. HandlersBounded'
  <2>1. Cardinality(Active) \in Nat BY Zenon, Counting DEF Active
  <2>2. inFlight = Cardinality(Active) /\ Cardinality(Active) <= MaxRequests
    BY <1>0, <2>1 DEF Inv, HandlersBounded
  <2>3. CASE inFlight' > MaxRequests
    <3>1. loop' = r /\ handler' = handler BY Zenon, <2>3 DEF ReadOpen
    <3>2. Active' = Active /\ loop' # NoReq BY Zenon, <3>1 DEF Active
    <3> QED BY Zenon, <1>0, <2>1, <2>2, <3>2 DEF HandlersBounded
  <2>4. CASE ~(inFlight' > MaxRequests)
    <3>1. loop' = NoReq /\ handler' = [handler EXCEPT ![r] = "spawned"]
      BY Zenon, <1>0, <2>4 DEF ReadOpen
    <3>2. Active' = Active \union {r} /\ r \notin Active
      BY Zenon, <1>3, <3>1 DEF Active, Inv, TypeOK
    <3>3. Cardinality(Active') = Cardinality(Active) + 1 BY Zenon, <3>2, Counting DEF Active
    <3> QED BY <1>0, <2>1, <2>2, <2>4, <3>1, <3>3 DEF HandlersBounded
  <2> QED BY Zenon, <2>3, <2>4
<1> QED BY Zenon, <1>5, <1>6, <1>8, <1>9, <1>10 DEF Inv

\* A request over the limit is turned down, and its slot freed.
LEMMA TurnDownStep ==
    ASSUME Inv, TurnDown
    PROVE  Inv'
<1>0. /\ loop # NoReq /\ loop' = NoReq /\ inFlight' = inFlight - 1
      /\ handler' = [handler EXCEPT ![loop] = "rejected"]
      /\ UNCHANGED <<link, asked, inbox, liveStreams, ctx, cancels, requests, closed,
                     streamer, session>>
  BY Zenon DEF TurnDown, clientVars
<1>1. loop \in Reqs /\ handler[loop] = "none" BY Zenon, <1>0 DEF Inv, TypeOK, MailInv
<1>2. answered' \subseteq Reqs BY Zenon, <1>1 DEF TurnDown, Answer, Inv, TypeOK
<1>3. Active' = Active /\ Stored' = Stored BY Zenon, <1>0, <1>1 DEF Active, Stored, Inv, TypeOK
<1>4. Cardinality(Active) \in Nat BY Zenon, Counting DEF Active
<1>5. HandlersBounded' /\ inFlight' \in Nat
  BY <1>0, <1>3, <1>4 DEF Inv, HandlersBounded
<1>6. handler' \in [Reqs -> {"none", "spawned", "prepared", "stored", "running",
                             "returned", "rejected", "panicked"}]
  BY Zenon, <1>0, <1>1 DEF Inv, TypeOK
<1>7. TypeOK' BY Zenon, <1>0, <1>2, <1>5, <1>6 DEF Inv, TypeOK
<1>8. PhaseInv' BY <1>0, <1>1 DEF Inv, TypeOK, PhaseInv
<1>9. CountInv' BY Zenon, <1>0, <1>3 DEF Inv, CountInv
<1>10. MailInv'
  <2>1. \A q \in Reqs : Fresh(q) => Fresh(q)' BY Zenon, <1>0, <1>1 DEF Fresh, Inv, TypeOK
  <2>2. \A i \in 1..Len(inbox) : inbox[i].req \in Reqs
    <3>1. \A i \in 1..Len(inbox) : inbox[i] \in Frames BY DEF Inv, TypeOK
    <3> QED BY Zenon, <3>1 DEF Frames
  <2> QED BY Zenon, <1>0, <2>1, <2>2 DEF Inv, MailInv
<1> QED BY Zenon, <1>5, <1>7, <1>8, <1>9, <1>10 DEF Inv
\* A cancel or an end of input: the stream leaves the map with its context cancelled.
LEMMA ReadEndStep ==
    ASSUME Inv, NEW r \in Reqs, ReadCancel(r) \/ ReadEnd(r)
    PROVE  Inv'
<1>0. /\ inbox # << >> /\ inbox' = Tail(inbox)
      /\ UNCHANGED <<link, asked, loop, inFlight, handler, cancels, streamer, answered,
                     session>>
  BY Zenon DEF ReadCancel, ReadEnd, Reads, clientVars
<1>1. MailInv' /\ inbox' \in Seq(Frames) BY Zenon, <1>0, MailKept
<1>2. ctx' = ctx \/ ctx' = Cancelled(r)
  BY Zenon DEF ReadCancel, ReadEnd, CloseRequest
<1>3. /\ ctx' \in [Reqs -> {"none", "live", "cancelled"}]
      /\ \A q \in Reqs : /\ ctx'[q] = "none" <=> ctx[q] = "none"
                         /\ ctx[q] = "cancelled" => ctx'[q] = "cancelled"
  BY <1>2 DEF Cancelled, Inv, TypeOK
<1>4. requests' \subseteq requests /\ closed' \subseteq Reqs
  BY DEF ReadCancel, ReadEnd, CloseRequest, DeleteRequest, Inv, TypeOK
<1>5. CountInv' /\ liveStreams' \in Int
  <2>1. Stored' = Stored BY Zenon, <1>0 DEF Stored
  <2>2. CASE DeleteRequest(r) BY Zenon, <2>1, <2>2, Retires
  <2>3. CASE UNCHANGED <<requests, liveStreams>>
    BY Zenon, <2>1, <2>3 DEF Inv, CountInv, TypeOK
  <2> QED BY Zenon, <2>2, <2>3 DEF ReadCancel, ReadEnd, CloseRequest
<1>6. PhaseInv' BY Zenon, <1>0, <1>3, <1>4 DEF Inv, PhaseInv
<1>7. TypeOK' BY Zenon, <1>0, <1>1, <1>3, <1>4, <1>5 DEF Inv, TypeOK
<1>8. HandlersBounded' BY Zenon, <1>0 DEF Inv, HandlersBounded, Active
<1> QED BY Zenon, <1>1, <1>5, <1>6, <1>7, <1>8 DEF Inv

\* A handler on its way to the user's code keeps its slot.
LEMMA HandlerGoesOn ==
    ASSUME Inv, NEW r \in Reqs, Prepare(r) \/ RegisterCancel(r) \/ Store(r) \/ Count(r)
    PROVE  Inv'
<1>0. /\ UNCHANGED <<link, asked, inbox, loop, inFlight, closed, streamer, answered, session>>
      /\ r \in Active
  BY Zenon DEF Prepare, RegisterCancel, Store, Count, HandlerStep, clientVars, Active
<1>1. /\ handler' = [handler EXCEPT ![r] = handler'[r]] /\ handler[r] # "none"
      /\ handler'[r] \in {"prepared", "stored", "running"}
      /\ handler[r] # "returned"
  BY Zenon DEF Prepare, RegisterCancel, Store, Count, HandlerStep, Inv, TypeOK
<1>2. MailInv' /\ inbox' \in Seq(Frames)
  <2>1. \A q \in Reqs : handler[q] = "none" => handler'[q] = "none"
    BY Zenon, <1>1 DEF Inv, TypeOK
  <2> QED BY Zenon, <1>0, <2>1, MailKept
<1>3. HandlersBounded'
  <2>1. Active' = Active BY Zenon, <1>0, <1>1 DEF Active, Inv, TypeOK
  <2> QED BY Zenon, <1>0, <2>1, HandlersKept
<1>4. TypeOK'
  <2>1. handler' \in [Reqs -> {"none", "spawned", "prepared", "stored", "running",
                               "returned", "rejected", "panicked"}]
    BY Zenon, <1>1 DEF Inv, TypeOK
  <2>2. ctx' \in [Reqs -> {"none", "live", "cancelled"}]
    BY Zenon DEF Prepare, RegisterCancel, Store, Count, NewContext, Inv, TypeOK
  <2>3. cancels' \subseteq Reqs /\ requests' \subseteq Reqs
    BY Zenon DEF Prepare, RegisterCancel, Store, Count, Inv, TypeOK
  <2>4. liveStreams' \in Int
    BY DEF Prepare, RegisterCancel, Store, Count, Inv, TypeOK
  <2> QED BY Zenon, <1>0, <1>2, <2>1, <2>2, <2>3, <2>4 DEF Inv, TypeOK
<1>5. PhaseInv'
  <2>1. CASE Prepare(r)
    BY <2>1 DEF Prepare, HandlerStep, NewContext, Inv, PhaseInv, TypeOK
  <2>2. CASE RegisterCancel(r)
    BY <2>2 DEF RegisterCancel, HandlerStep, Inv, PhaseInv, TypeOK
  <2>3. CASE Store(r)
    BY <2>3 DEF Store, HandlerStep, Inv, PhaseInv, TypeOK
  <2>4. CASE Count(r)
    BY <2>4 DEF Count, HandlerStep, Inv, PhaseInv, TypeOK
  <2> QED BY Zenon, <2>1, <2>2, <2>3, <2>4
<1>6. CountInv'
  <2>0. /\ requests \subseteq Reqs /\ Stored \subseteq Reqs
        /\ Cardinality(requests) \in Nat /\ Cardinality(Stored) \in Nat
        /\ liveStreams = Cardinality(requests) - Cardinality(Stored)
    BY Zenon, Counting DEF Inv, TypeOK, CountInv, Stored
  <2>1. CASE Prepare(r) \/ RegisterCancel(r)
    <3>1. Stored' = Stored
      BY <2>1 DEF Prepare, RegisterCancel, HandlerStep, Stored, Inv, TypeOK
    <3> QED BY Zenon, <2>0, <2>1, <3>1 DEF Prepare, RegisterCancel, CountInv
  <2>2. CASE Store(r)
    <3>1. /\ Stored' = Stored \union {r} /\ r \notin Stored
          /\ requests' = requests \union {r} /\ r \notin requests
      BY <2>2 DEF Store, HandlerStep, Stored, Inv, TypeOK, PhaseInv
    <3>2. /\ Cardinality(Stored') = Cardinality(Stored) + 1
          /\ Cardinality(requests') = Cardinality(requests) + 1
      BY Zenon, <2>0, <3>1, Counting
    <3> QED BY <2>0, <2>2, <3>2 DEF Store, CountInv
  <2>3. CASE Count(r)
    <3>1. Stored' = Stored \ {r} /\ r \in Stored /\ requests' = requests
      BY Zenon, <2>3 DEF Count, HandlerStep, Stored, Inv, TypeOK
    <3>2. Cardinality(Stored') = Cardinality(Stored) - 1 BY Zenon, <2>0, <3>1, Counting
    <3> QED BY <2>0, <2>3, <3>1, <3>2 DEF Count, CountInv
  <2> QED BY Zenon, <2>1, <2>2, <2>3
<1> QED BY Zenon, <1>2, <1>3, <1>4, <1>5, <1>6 DEF Inv

\* A handler that ends, in whatever way.
LEMMA HandlerLeaves ==
    ASSUME Inv, NEW r \in Reqs,
           \/ HandlerReject(r) \/ UnaryReturn(r) \/ StreamReturn(r) \/ StreamError(r)
           \/ StreamPanic(r)
    PROVE  Inv'
<1>0. /\ UNCHANGED <<link, asked, inbox, loop, session>> /\ inFlight' = inFlight - 1
      /\ handler[r] \in {"spawned", "running"} /\ r \in Active
  BY Zenon DEF HandlerReject, UnaryReturn, StreamReturn, StreamError, StreamPanic,
     HandlerStep, clientVars, Active
<1>1. PICK to \in {"returned", "rejected", "panicked"} :
         handler' = [handler EXCEPT ![r] = to]
  BY Zenon DEF HandlerReject, UnaryReturn, StreamReturn, StreamError, StreamPanic,
     HandlerStep
<1>2. MailInv' /\ inbox' \in Seq(Frames)
  <2>1. \A q \in Reqs : handler[q] = "none" => handler'[q] = "none"
    BY Zenon, <1>0, <1>1 DEF Inv, TypeOK
  <2> QED BY Zenon, <1>0, <2>1, MailKept
<1>3. HandlersBounded' /\ inFlight' \in Nat BY Zenon, <1>0, <1>1, HandlerEnds
<1>4. Stored' = Stored BY Zenon, <1>0, <1>1 DEF Stored, Inv, TypeOK
<1>5. CountInv' /\ liveStreams' \in Int /\ requests' \subseteq requests
  <2>1. CASE StreamError(r)
    <3>1. DeleteRequest(r) BY Zenon, <2>1 DEF StreamError, CloseRequest
    <3>2. requests' \subseteq requests BY Zenon, <3>1 DEF DeleteRequest
    <3> QED BY Zenon, <1>4, <3>1, <3>2, Retires
  <2>2. CASE UNCHANGED <<requests, liveStreams>>
    BY Zenon, <1>4, <2>2 DEF Inv, CountInv, TypeOK
  <2> QED
    BY Zenon, <2>1, <2>2 DEF HandlerReject, UnaryReturn, StreamReturn, StreamPanic
<1>6. /\ ctx' \in [Reqs -> {"none", "live", "cancelled"}]
      /\ \A q \in Reqs : /\ ctx'[q] = "none" <=> ctx[q] = "none"
                         /\ ctx[q] = "cancelled" => ctx'[q] = "cancelled"
  <2>1. ctx' = ctx \/ ctx' = Cancelled(r)
    BY Zenon DEF HandlerReject, UnaryReturn, StreamReturn, StreamError, StreamPanic,
       CloseRequest
  <2> QED BY <2>1 DEF Cancelled, Inv, TypeOK
<1>7. streamer' = streamer \/ (handler[r] = "running" /\ to = "returned"
                               /\ streamer' = [streamer EXCEPT ![r] = "on"])
  <2>1. CASE StreamReturn(r)
    <3>1. to = "returned" BY Zenon, <1>1, <2>1 DEF StreamReturn, HandlerStep, Inv, TypeOK
    <3> QED BY Zenon, <2>1, <3>1 DEF StreamReturn, HandlerStep
  <2> QED BY Zenon, <2>1 DEF HandlerReject, UnaryReturn, StreamError, StreamPanic
<1>8. PhaseInv'
  <2>1. streamer[r] = "off" BY Zenon, <1>0 DEF Inv, PhaseInv
  <2>2. /\ handler'[r] = to /\ \A q \in Reqs \ {r} : handler'[q] = handler[q]
        /\ handler[r] = "running" => ctx[r] # "none"
    BY <1>1 DEF Inv, TypeOK, PhaseInv
  <2>3. /\ \A q \in Reqs \ {r} : streamer'[q] = streamer[q]
        /\ streamer'[r] = "off" \/ (streamer'[r] = "on" /\ to = "returned" /\ ctx[r] # "none")
    BY Zenon, <1>7, <2>1, <2>2 DEF Inv, TypeOK
  <2> QED BY <1>5, <1>6, <2>2, <2>3 DEF Inv, PhaseInv
<1>9. TypeOK'
  <2>1. handler' \in [Reqs -> {"none", "spawned", "prepared", "stored", "running",
                               "returned", "rejected", "panicked"}]
    BY Zenon, <1>1 DEF Inv, TypeOK
  <2>2. answered' \subseteq Reqs
    BY DEF HandlerReject, UnaryReturn, StreamReturn, StreamError, StreamPanic, Answer,
       Inv, TypeOK
  <2>3. cancels' \subseteq Reqs
    BY Zenon DEF HandlerReject, UnaryReturn, StreamReturn, StreamError, StreamPanic,
       Inv, TypeOK
  <2>4. closed' \subseteq Reqs
    BY Zenon DEF HandlerReject, UnaryReturn, StreamReturn, StreamError, StreamPanic,
       CloseRequest, Inv, TypeOK
  <2>5. streamer' \in [Reqs -> {"off", "on", "gate", "done"}] BY Zenon, <1>7 DEF Inv, TypeOK
  <2> QED BY Zenon, <1>0, <1>2, <1>3, <1>5, <1>6, <2>1, <2>2, <2>3, <2>4, <2>5
             DEF Inv, TypeOK
<1> QED BY Zenon, <1>2, <1>3, <1>5, <1>8, <1>9 DEF Inv

\* The streamer, and the deadline of a unary call.
LEMMA StreamerStep ==
    ASSUME Inv, NEW r \in Reqs, Streamer(r) \/ Deadline(r)
    PROVE  Inv'
<1>0. UNCHANGED <<link, asked, inbox, loop, inFlight, handler, cancels, answered, session>>
  BY Zenon DEF Streamer, StreamerTake, StreamerSend, StreamerEnd, Deadline, clientVars
<1>1. MailInv' /\ inbox' \in Seq(Frames) BY Zenon, <1>0, MailKept
<1>2. HandlersBounded' BY Zenon, <1>0 DEF Inv, HandlersBounded, Active
<1>3. Stored' = Stored BY Zenon, <1>0 DEF Stored
<1>4. CountInv' /\ liveStreams' \in Int /\ requests' \subseteq requests
  <2>1. CASE StreamerEnd(r)
    <3>1. DeleteRequest(r) BY Zenon, <2>1 DEF StreamerEnd, CloseRequest
    <3>2. requests' \subseteq requests BY Zenon, <3>1 DEF DeleteRequest
    <3> QED BY Zenon, <1>3, <3>1, <3>2, Retires
  <2>2. CASE UNCHANGED <<requests, liveStreams>>
    BY Zenon, <1>3, <2>2 DEF Inv, CountInv, TypeOK
  <2> QED BY Zenon, <2>1, <2>2 DEF Streamer, StreamerTake, StreamerSend, Deadline
<1>5. /\ ctx' \in [Reqs -> {"none", "live", "cancelled"}]
      /\ \A q \in Reqs : /\ ctx'[q] = "none" <=> ctx[q] = "none"
                         /\ ctx[q] = "cancelled" => ctx'[q] = "cancelled"
  <2>1. ctx' = ctx \/ ctx' = Cancelled(r)
    BY Zenon DEF Streamer, StreamerTake, StreamerSend, StreamerEnd, Deadline,
       CloseRequest
  <2> QED BY <2>1 DEF Cancelled, Inv, TypeOK
<1>6. streamer' \in [Reqs -> {"off", "on", "gate", "done"}] /\ closed' \subseteq Reqs
  BY Zenon DEF Streamer, StreamerTake, StreamerSend, StreamerEnd, Deadline,
     CloseRequest, Inv, TypeOK
<1>7. PhaseInv'
  <2>1. CASE streamer' = streamer BY Zenon, <1>0, <1>4, <1>5, <2>1 DEF Inv, PhaseInv
  <2>2. CASE StreamerTake(r) \/ StreamerSend(r)
    BY <1>0, <2>2 DEF StreamerTake, StreamerSend, Inv, PhaseInv, TypeOK
  <2>3. CASE StreamerEnd(r)
    <3>1. handler[r] = "returned" /\ ctx[r] # "none" BY Zenon, <2>3 DEF StreamerEnd, Inv, PhaseInv
    <3>2. ctx'[r] = "cancelled" /\ r \notin requests'
      BY Zenon, <2>3, <3>1 DEF StreamerEnd, CloseRequest, DeleteRequest, Cancelled,
         Inv, TypeOK
    <3>3. \A q \in Reqs \ {r} : streamer'[q] = streamer[q]
      BY Zenon, <2>3 DEF StreamerEnd, Inv, TypeOK
    <3> QED BY Zenon, <1>0, <1>4, <1>5, <3>1, <3>2, <3>3 DEF Inv, PhaseInv
  <2> QED BY Zenon, <2>1, <2>2, <2>3 DEF Streamer, Deadline
<1>8. TypeOK' BY Zenon, <1>0, <1>1, <1>4, <1>5, <1>6 DEF Inv, TypeOK
<1> QED BY Zenon, <1>1, <1>2, <1>4, <1>7, <1>8 DEF Inv

LEMMA InvCorrect == Spec => []Inv
<1>1. Inv /\ [Next]_vars => Inv'
  <2> SUFFICES ASSUME Inv, [Next]_vars PROVE Inv' BY Zenon
  <2>1. CASE UNCHANGED vars
    <3>1. UNCHANGED <<link, asked, inbox, loop, inFlight, liveStreams, handler, ctx, cancels,
                      requests, closed, streamer, answered, session>>
      BY Zenon, <2>1 DEF vars, clientVars
    <3>2. TypeOK' /\ PhaseInv' BY Zenon, <3>1 DEF Inv, TypeOK, PhaseInv
    <3>3. MailInv' BY Zenon, <3>1, MailKept
    <3>4. CountInv' /\ HandlersBounded'
      BY Zenon, <3>1 DEF Inv, CountInv, Stored, HandlersBounded, Active
    <3> QED BY Zenon, <3>2, <3>3, <3>4 DEF Inv
  <2>2. CASE Next
    BY Zenon, <2>2, ClientStep, LinkStep, ReadOpenStep, TurnDownStep, ReadEndStep,
       HandlerGoesOn, HandlerLeaves, StreamerStep DEF Next, ReadLoop, Handler
  <2> QED BY Zenon, <2>1, <2>2
<1> QED BY InitInv, <1>1, PTL DEF Spec

-----------------------------------------------------------------------------
(* The theorems *)

\* servingClient.inFlight is the number of handler goroutines (and of the request
\* the read loop is turning down), and the handlers never exceed the cap.
THEOREM HandlersCorrect == Spec => []HandlersBounded
<1>1. Inv => HandlersBounded BY Zenon DEF Inv
<1> QED BY InvCorrect, <1>1, PTL

\* servingClient.liveStreams is the number of streams in requestMap that have been
\* counted, however many parties retire a stream; and a streamer that is gone left
\* neither an entry nor a live context behind.
THEOREM StreamsCorrect == Spec => []StreamsCounted
<1>1. Inv => StreamsCounted
  BY Zenon DEF Inv, CountInv, Stored, PhaseInv, StreamsCounted, Streams
<1> QED BY InvCorrect, <1>1, PTL
-----------------------------------------------------------------------------
(* Verify *)

(* What arrived as Null was nil or Null: VerifyArg compares the kind of what     *)
(* arrived, and required is not looked at (verify.go, VerifyArg).                *)
LEMMA ArgArrives ==
    ASSUME NEW kind \in Members, NEW arg \in ArgDef
    PROVE  VerifyArg(WireMember(kind), arg) <=> ArgFits(kind, arg)
<1>1. WireMember(kind) # "nil" /\ arg.kind # "nil"
  BY Zenon, ScalarsAssumption DEF Members, ArgDef, Kinds, WireMember
<1> QED BY Zenon, <1>1 DEF VerifyArg, WireMember, ArgFits

(* Wire changes neither the kind of a collection nor its shape; nil alone       *)
(* becomes Null.                                                                *)
LEMMA WireShape ==
    ASSUME NEW v \in Values
    PROVE  /\ v.kind = "LIST" =>
                 /\ Wire(v).kind = "LIST"
                 /\ DOMAIN Wire(v).items = DOMAIN v.items
                 /\ \A i \in DOMAIN v.items : Wire(v).items[i] = WireMember(v.items[i])
           /\ v.kind = "MAP" =>
                 /\ Wire(v).kind = "MAP"
                 /\ \A n \in Names : Wire(v).fields[n] = WireMember(v.fields[n])
           /\ v.kind \notin {"LIST", "MAP"} => Wire(v).kind = WireMember(v.kind)
BY Zenon DEF Wire

(* The callee accepts exactly the arguments that fit, for every value and every  *)
(* definition: an optional parameter may be missing, an optional argument may    *)
(* not (verify.go, called at serving_client.go:424, client.go:613 and            *)
(* serving.go:89 on what was received).                                          *)
THEOREM AcceptsWhatFits == CalleeAccepts
<1> SUFFICES ASSUME NEW v \in Values, NEW def \in TypeDef
             PROVE  Verify(Wire(v), def) <=> Fits(v, def)
  BY Zenon DEF CalleeAccepts
<1> DEFINE w == Wire(v)
<1>1. /\ v.kind = "LIST" => v \in [kind : {"LIST"}, items : SeqsOf(Members)]
      /\ v.kind = "MAP" => v \in [kind : {"MAP"}, fields : [Names -> Members \union {"absent"}]]
      /\ v.kind \in Members
  BY Zenon, ScalarsAssumption DEF Values, Members, Kinds
<1>2. w.kind = WireMember(v.kind)
  BY Zenon, WireShape DEF WireMember
<1>3. w.kind \in {"nil", "NULL"} <=> v.kind \in {"nil", "NULL"}
  BY Zenon, <1>2 DEF WireMember
<1>4. CASE def.type = "Any"
  BY Zenon, <1>4 DEF Verify, Fits
<1>5. CASE def.type = "Void"
  <2>1. v.kind = "LIST" => (w.items = << >> <=> v.items = << >>)
    BY <1>1, WireShape DEF SeqsOf
  <2>2. v.kind = "MAP" => \A n \in Names : w.fields[n] = "absent" <=> v.fields[n] = "absent"
    BY Zenon, <1>1, WireShape DEF WireMember
  <2>3. VerifyVoid(w) <=> VerifyVoid(v)
    BY Zenon, <1>2, <1>3, <2>1, <2>2 DEF VerifyVoid, WireMember
  <2> QED BY Zenon, <1>5, <2>3 DEF Verify, Fits, VerifyVoid
<1>6. CASE def.type = "Arg"
  <2>1. def.arg \in ArgDef BY Zenon, <1>6 DEF TypeDef
  <2>2. VerifyArg(w.kind, def.arg) <=> ArgFits(v.kind, def.arg)
    BY <1>1, <1>2, <2>1, ArgArrives
  <2> QED BY Zenon, <1>6, <2>2 DEF Verify, Fits
<1>7. CASE def.type = "Args"
  <2> DEFINE ArgsFit ==
        \/ v.kind \in {"nil", "NULL"} /\ def.list = << >>
        \/ /\ v.kind = "LIST" /\ Len(v.items) = Len(def.list)
           /\ \A i \in DOMAIN def.list : ArgFits(v.items[i], def.list[i])
  <2>1. def.list \in SeqsOf(ArgDef) BY Zenon, <1>7 DEF TypeDef
  <2>2. VerifyArgs(w, def.list) <=> ArgsFit
    <3>1. CASE v.kind \in {"nil", "NULL"}
      BY Zenon, <1>3, <3>1 DEF VerifyArgs
    <3>2. CASE v.kind = "LIST"
      <4>1. PICK m \in 0..MaxLen : v.items \in [1..m -> Members]
        BY Zenon, <1>1, <3>2 DEF SeqsOf
      <4>2. PICK n \in 0..MaxLen : def.list \in [1..n -> ArgDef]
        BY Zenon, <2>1 DEF SeqsOf
      <4>3. w.kind = "LIST" /\ w.items = [i \in 1..m |-> WireMember(v.items[i])]
        BY Zenon, <3>2, <4>1 DEF Wire
      <4>4. Len(w.items) = m /\ Len(v.items) = m /\ Len(def.list) = n
        BY <4>1, <4>2, <4>3, MaxLenAssumption
      <4>5. \A i \in 1..m : i \in DOMAIN def.list =>
               (VerifyArg(w.items[i], def.list[i]) <=> ArgFits(v.items[i], def.list[i]))
        BY <4>1, <4>2, <4>3, ArgArrives
      <4> QED BY Zenon, <3>2, <4>2, <4>3, <4>4, <4>5 DEF VerifyArgs
    <3>3. CASE v.kind \notin {"nil", "NULL", "LIST"}
      BY Zenon, <1>2, <1>3, <3>3 DEF VerifyArgs, WireMember
    <3> QED BY Zenon, <3>1, <3>2, <3>3
  <2> QED BY Zenon, <1>7, <2>2 DEF Verify, Fits
<1>8. CASE def.type = "Params"
  <2>1. def.map \subseteq ParamDef
    BY Zenon, <1>8 DEF TypeDef
  <2> DEFINE ParamsFit ==
        \/ v.kind \in {"nil", "NULL"} /\ def.map = {}
        \/ v.kind = "MAP" /\ \A p \in def.map : ParamFits(v.fields[p.name], p)
  <2>2. VerifyParams(w, def.map) <=> ParamsFit
    <3>1. CASE v.kind \in {"nil", "NULL"}
      BY Zenon, <1>3, <3>1 DEF VerifyParams
    <3>2. CASE v.kind = "MAP"
      <4>1. w.kind = "MAP" /\ \A n \in Names : /\ w.fields[n] = WireMember(v.fields[n])
                                               /\ v.fields[n] \in Members \union {"absent"}
        BY Zenon, <1>1, <3>2, WireShape
      <4> DEFINE Accepts(p) == IF Get(w.fields, p.name) = "NULL"
                               THEN ~p.required ELSE VerifyArg(Get(w.fields, p.name), p)
      <4>2. \A p \in def.map : Accepts(p) <=> ParamFits(v.fields[p.name], p)
        BY Zenon, <2>1, <4>1 DEF Get, WireMember, VerifyArg, ParamFits, ParamDef, Members
      <4> QED BY Zenon, <3>2, <4>1, <4>2 DEF VerifyParams
    <3>3. CASE v.kind \notin {"nil", "NULL", "MAP"}
      BY Zenon, <1>2, <1>3, <3>3 DEF VerifyParams, WireMember
    <3> QED BY Zenon, <3>1, <3>2, <3>3
  <2> QED BY Zenon, <1>8, <2>2 DEF Verify, Fits
<1> QED BY Zenon, <1>4, <1>5, <1>6, <1>7, <1>8 DEF TypeDef
=============================================================================

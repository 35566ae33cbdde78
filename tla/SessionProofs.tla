--------------------------- MODULE SessionProofs ---------------------------
(***************************************************************************)
(* The properties of Session for every number of callers and connections,  *)
(* every length of the chain and every resync window.                      *)
(***************************************************************************)
EXTENDS Session, TLAPS

USE ChainLenAssumption, ResyncWindowAssumption, MaxConnsAssumption

-----------------------------------------------------------------------------
(* The inductive invariant *)

\* The connections are dialled in the order of their numbers.
DialledInv == \A i \in Conns : srv[i] = "none" <=> i > dialled

\* Links are drawn downwards: one that was drawn, and is about to be presented
\* or has been, lies above the next one, and in one place only.
TokenInv ==
    /\ \A c \in Callers : pc[c] = "lock" /\ token[c] # Anchor =>
          /\ next < token[c]
          /\ \A d \in Callers : pc[d] = "lock" /\ d # c => token[d] # token[c]
          /\ \A i \in Conns : i <= dialled => conn[i].link # token[c]
    /\ \A i \in Conns : i <= dialled /\ conn[i].link # Anchor => next < conn[i].link

\* Only a session that exists is resumed.
ResumeInv == \A i \in Conns : srv[i] = "resume" => session.exists

Inv == /\ TypeOK /\ DialledInv /\ TokenInv /\ ResumeInv
       /\ LinkPresentedOnce /\ LastIsNewest /\ RefusedIsStale

-----------------------------------------------------------------------------
(* Preservation *)

\* Session starts in the invariant: nothing is dialled, nothing accepted.
LEMMA InitInv == Init => Inv
  <1> SUFFICES ASSUME Init PROVE Inv
    BY Zenon
  <1> USE DEF Init, Conns, NoConn, Links, Anchor
  <1>1. TypeOK
    <2>1. conn \in [Conns -> [link : Links, open : BOOLEAN, reply : BOOLEAN]] OBVIOUS
    <2>2. session \in [exists : BOOLEAN, last : Links, active : Conns \union {NoConn}] OBVIOUS
    <2>3. next \in -1..(ChainLen - 1) OBVIOUS
    <2>4. srv \in [Conns -> ServerStates] BY Zenon DEF ServerStates
    <2>5. token \in [Callers -> Links] /\ dialled \in 0..MaxConns OBVIOUS
    <2>6. pc \in [Callers -> {"idle", "token", "lock", "wait"}] BY Zenon
    <2> QED BY Zenon, <2>1, <2>2, <2>3, <2>4, <2>5, <2>6 DEF TypeOK
  <1>2. DialledInv /\ ResumeInv BY DEF DialledInv, ResumeInv
  <1>3. TokenInv BY Zenon DEF TokenInv
  <1>4. LinkPresentedOnce BY DEF LinkPresentedOnce
  <1>5. LastIsNewest BY Zenon DEF LastIsNewest, Accepted
  <1>6. RefusedIsStale BY Zenon DEF RefusedIsStale
  <1> QED BY Zenon, <1>1, <1>2, <1>3, <1>4, <1>5, <1>6 DEF Inv

\* Closing a connection changes neither its link nor any other connection.
LEMMA ClosedLinks ==
    ASSUME TypeOK, NEW i
    PROVE  /\ Closed(i) \in [Conns -> [link : Links, open : BOOLEAN, reply : BOOLEAN]]
           /\ \A j \in Conns : Closed(i)[j].link = conn[j].link
  <1> DEFINE C == [link : Links, open : BOOLEAN, reply : BOOLEAN]
  <1>1. conn \in [Conns -> C] BY Zenon DEF TypeOK
  <1>2. ASSUME NEW r \in C
        PROVE  [r EXCEPT !.open = FALSE] \in C /\ [r EXCEPT !.open = FALSE].link = r.link
    BY Zenon
  <1>3. Closed(i) = [j \in Conns |-> IF j = i THEN [conn[j] EXCEPT !.open = FALSE] ELSE conn[j]]
    BY Zenon, <1>1 DEF Closed
  <1>4. ASSUME NEW j \in Conns
        PROVE  Closed(i)[j] \in C /\ Closed(i)[j].link = conn[j].link
    <2>1. conn[j] \in C BY Zenon, <1>1
    <2>2. Closed(i)[j] = IF j = i THEN [conn[j] EXCEPT !.open = FALSE] ELSE conn[j]
      BY Zenon, <1>3
    <2> QED BY Zenon, <1>2, <2>1, <2>2
  <1> QED BY Zenon, <1>3, <1>4

\* Every step of the client, the network and the server preserves the types.
LEMMA TypeStep == TypeOK /\ [Next]_vars => TypeOK'
  <1> SUFFICES ASSUME TypeOK, [Next]_vars PROVE TypeOK'
    BY Zenon
  <1> USE DEF TypeOK, Conns, NoConn, Links, Anchor, ServerStates, clientVars
  <1>1. ASSUME NEW c \in Callers, Client(c) PROVE TypeOK'
    <2>1. CASE Begin(c)          BY Zenon, <2>1 DEF Begin
    <2>2. CASE HandshakeToken(c)
      <3> USE <2>2 DEF HandshakeToken
      <3>1. next' \in -1..(ChainLen - 1) OBVIOUS
      <3>2. token' \in [Callers -> Links]
        <4>1. CASE ~established BY <4>1
        <4>2. CASE established /\ next < 0 BY Zenon, <4>2
        <4>3. CASE established /\ ~(next < 0)
          <5>1. next \in Links BY <4>3
          <5> QED BY Zenon, <4>3, <5>1
        <4> QED BY Zenon, <4>1, <4>2, <4>3
      <3>3. pc' \in [Callers -> {"idle", "token", "lock", "wait"}]
        <4>1. pc' = [pc EXCEPT ![c] = "lock"] \/ pc' = [pc EXCEPT ![c] = "idle"] BY Zenon
        <4> HIDE <2>2 DEF HandshakeToken
        <4> QED BY Zenon, <4>1
      <3> QED BY Zenon, <3>1, <3>2, <3>3
    <2>3. CASE ConnectReturns(c) BY Zenon, <2>3 DEF ConnectReturns
    <2>4. CASE Dial(c)
      <3>1. dialled' \in Conns /\ dialled' \in 0..MaxConns BY <2>4 DEF Dial
      <3> QED BY Zenon, <2>4, <3>1 DEF Dial
    <2>5. CASE Established(c)    BY Zenon, <2>5 DEF Established
    <2>6. CASE HandshakeFails(c) BY Zenon, <2>6, ClosedLinks DEF HandshakeFails
    <2> QED BY Zenon, <1>1, <2>1, <2>2, <2>3, <2>4, <2>5, <2>6 DEF Client
  <1>2. CASE Reset BY Zenon, <1>2, ClosedLinks DEF Reset
  <1>3. ASSUME NEW i \in Conns, Drop(i) PROVE TypeOK'
    BY Zenon, <1>3, ClosedLinks DEF Drop
  <1>4. ASSUME NEW i \in Conns, Server(i) PROVE TypeOK'
    <2> USE DEF ServerStep
    <2>1. CASE RejectHandshake(i) BY Zenon, <2>1, ClosedLinks DEF RejectHandshake
    <2>2. CASE LookUp(i)          BY Zenon, <2>2 DEF LookUp
    <2>3. CASE Create(i)          BY Zenon, <2>3 DEF Create
    <2>4. CASE CreateLost(i)      BY Zenon, <2>4, ClosedLinks DEF CreateLost
    <2>5. CASE AuthorizeResume(i) 
      <3>1. session' \in [exists : BOOLEAN, last : Links, active : Conns \union {NoConn}]
        <4>1. conn[i].link \in Links BY Zenon
        <4>2. ASSUME NEW r \in [exists : BOOLEAN, last : Links, active : Conns \union {NoConn}],
                     NEW k \in Links
              PROVE  [r EXCEPT !.last = k]
                       \in [exists : BOOLEAN, last : Links, active : Conns \union {NoConn}]
          BY Zenon
        <4> QED BY Zenon, <2>5, <4>1, <4>2 DEF AuthorizeResume
      <3> QED BY Zenon, <2>5, <3>1 DEF AuthorizeResume
    <2>6. CASE RefuseResume(i)    BY Zenon, <2>6, ClosedLinks DEF RefuseResume
    <2>7. CASE ReplaceClose(i)    BY Zenon, <2>7, ClosedLinks DEF ReplaceClose
    <2>8. CASE ReplaceStore(i)    BY Zenon, <2>8 DEF ReplaceStore
    <2>9. CASE Respond(i)         
      <3> DEFINE C == [link : Links, open : BOOLEAN, reply : BOOLEAN]
      <3>1. conn' \in [Conns -> C]
        <4>1. ASSUME NEW r \in C PROVE [r EXCEPT !.reply = TRUE] \in C BY Zenon
        <4> QED BY Zenon, <2>9, <4>1 DEF Respond
      <3> QED BY Zenon, <2>9, <3>1 DEF Respond
    <2>10. CASE ServeEnds(i)      BY Zenon, <2>10 DEF ServeEnds
    <2> QED BY Zenon, <1>4, <2>1, <2>2, <2>3, <2>4, <2>5, <2>6, <2>7, <2>8, <2>9,
               <2>10 DEF Server
  <1>5. CASE UNCHANGED vars BY Zenon, <1>5 DEF vars
  <1> QED BY Zenon, <1>1, <1>2, <1>3, <1>4, <1>5 DEF Next

\* What a step leaves alone when it neither draws nor presents a link.
NoLink ==
    /\ dialled' = dialled /\ next' = next /\ token' = token
    /\ \A c \in Callers : pc'[c] = "lock" => pc[c] = "lock"
    /\ \A i \in Conns : /\ conn'[i].link = conn[i].link
                        /\ srv'[i] = "none" <=> srv[i] = "none"

\* Steps that neither draw nor present a link.
LEMMA NoLinkSteps ==
    ASSUME TypeOK, [Next]_vars,
           ~ \E c \in Callers : HandshakeToken(c) \/ Dial(c)
    PROVE  NoLink
  <1> USE DEF TypeOK, NoLink, Conns, clientVars
  <1>1. ASSUME NEW c \in Callers, Client(c) PROVE NoLink
    <2>1. CASE Begin(c) \/ ConnectReturns(c)
      BY Zenon, <2>1 DEF Begin, ConnectReturns
    <2>2. CASE Established(c) BY Zenon, <2>2 DEF Established
    <2>3. CASE HandshakeFails(c) BY Zenon, <2>3, ClosedLinks DEF HandshakeFails
    <2> QED BY Zenon, <1>1, <2>1, <2>2, <2>3 DEF Client
  <1>2. CASE Reset BY Zenon, <1>2, ClosedLinks DEF Reset
  <1>3. ASSUME NEW i \in Conns, Drop(i) PROVE NoLink
    BY Zenon, <1>3 DEF Drop, Closed
  <1>4. ASSUME NEW i \in Conns, Server(i) PROVE NoLink
    <2> USE <1>4 DEF Server, RejectHandshake, LookUp, Create, CreateLost, AuthorizeResume,
                     RefuseResume, ReplaceClose, ReplaceStore, Respond, ServeEnds
    <2>1. UNCHANGED clientVars BY Zenon
    <2>2. \A j \in Conns : conn'[j].link = conn[j].link
      <3>1. \A k, j \in Conns : Closed(k)[j].link = conn[j].link BY Zenon, ClosedLinks
      <3>2. CASE Respond(i) BY <3>2
      <3>3. CASE ReplaceClose(i) BY Zenon, <3>3, <3>1 DEF NoConn
      <3> QED BY Zenon, <3>1, <3>2, <3>3
    <2>3. \A j \in Conns : srv'[j] = "none" <=> srv[j] = "none" BY DEF ServerStep
    <2> QED BY Zenon, <2>1, <2>2, <2>3
  <1>5. CASE UNCHANGED vars BY Zenon, <1>5 DEF vars
  <1> QED BY Zenon, <1>1, <1>2, <1>3, <1>4, <1>5 DEF Next

\* A link is drawn below all others, and presenting it moves it from its caller
\* to the connection.
LEMMA LinksStep == Inv /\ [Next]_vars => (DialledInv /\ TokenInv /\ LinkPresentedOnce)'
  <1> SUFFICES ASSUME Inv, [Next]_vars PROVE (DialledInv /\ TokenInv /\ LinkPresentedOnce)'
    BY Zenon
  <1> USE DEF Inv, TypeOK, Conns, Links, Anchor
  <1>1. ASSUME NEW c \in Callers, HandshakeToken(c)
        PROVE  (DialledInv /\ TokenInv /\ LinkPresentedOnce)'
    <2> USE <1>1 DEF HandshakeToken
    <2>1. DialledInv' BY Zenon DEF DialledInv
    <2>2. LinkPresentedOnce' BY Zenon DEF LinkPresentedOnce
    <2>3. TokenInv'
      <3>0. \A d \in Callers : d # c => pc'[d] = pc[d] /\ token'[d] = token[d] BY Zenon
      <3>1. CASE ~established
        <4>1. token'[c] = Anchor /\ next' = next BY Zenon, <3>1
        <4>2. \A d \in Callers : pc'[d] = "lock" /\ token'[d] # Anchor => d # c BY Zenon, <4>1
        <4>3. UNCHANGED <<conn, dialled>> BY Zenon
        <4> HIDE <1>1 DEF HandshakeToken
        <4>4. \A d \in Callers : pc'[d] = "lock" /\ token'[d] # Anchor =>
                 pc[d] = "lock" /\ token[d] # Anchor /\ token'[d] = token[d]
          BY Zenon, <3>0, <4>2
        <4>5. ASSUME NEW d \in Callers, NEW e \in Callers, d # e,
                     pc'[d] = "lock", token'[d] # Anchor, pc'[e] = "lock"
              PROVE  token'[e] # token'[d]
          <5>1. CASE e = c BY Zenon, <5>1, <4>5, <4>1
          <5>2. CASE e # c
            <6>1. pc[e] = "lock" /\ token'[e] = token[e] BY Zenon, <5>2, <4>5, <3>0
            <6>2. pc[d] = "lock" /\ token[d] # Anchor /\ token'[d] = token[d]
              BY Zenon, <4>5, <4>4
            <6>3. token[e] # token[d] BY Zenon, <4>5, <6>1, <6>2 DEF TokenInv
            <6> QED BY Zenon, <6>1, <6>2, <6>3
          <5> QED BY Zenon, <5>1, <5>2
        <4>6. \A d \in Callers : pc'[d] = "lock" /\ token'[d] # Anchor =>
                 /\ next' < token'[d]
                 /\ \A i \in Conns : i <= dialled' => conn'[i].link # token'[d]
          BY Zenon, <4>1, <4>3, <4>4 DEF TokenInv
        <4>7. \A i \in Conns : i <= dialled' /\ conn'[i].link # Anchor
                                => next' < conn'[i].link
          BY Zenon, <4>1, <4>3 DEF TokenInv
        <4> QED BY Zenon, <4>5, <4>6, <4>7 DEF TokenInv
      <3>2. CASE established /\ next < 0
        <4>1. UNCHANGED <<next, token, conn, dialled>> BY Zenon, <3>2
        <4>2. \A d \in Callers : pc'[d] = "lock" => pc[d] = "lock" BY Zenon, <3>2
        <4> HIDE <1>1 DEF HandshakeToken
        <4> QED BY Zenon, <4>1, <4>2 DEF TokenInv
      <3>3. CASE established /\ ~(next < 0)
        <4>1. token'[c] = next /\ next' = next - 1 BY Zenon, <3>3
        <4>2. UNCHANGED <<conn, dialled>> BY Zenon
        <4> HIDE <1>1 DEF HandshakeToken
        <4>3. \A d \in Callers : pc[d] = "lock" /\ token[d] # Anchor => next < token[d]
          BY Zenon DEF TokenInv
        <4>4. \A i \in Conns : i <= dialled => next < conn[i].link BY <3>3 DEF TokenInv
        <4>5. ASSUME NEW d \in Callers, pc'[d] = "lock", token'[d] # Anchor
              PROVE  /\ next' < token'[d]
                     /\ \A e \in Callers : pc'[e] = "lock" /\ e # d => token'[e] # token'[d]
                     /\ \A i \in Conns : i <= dialled' => conn'[i].link # token'[d]
          <5>1. CASE d = c
            <6>1. token'[d] = next /\ next' < next BY <5>1, <4>1
            <6>2. \A e \in Callers : pc'[e] = "lock" /\ e # d => token'[e] # next
              <7>1. next # Anchor /\ next \in Int OBVIOUS
              <7> HIDE DEF Inv, TypeOK, Anchor
              <7>2. ASSUME NEW e \in Callers, pc[e] = "lock", token[e] = next PROVE FALSE
                BY <7>1, <7>2, <4>3
              <7> QED BY Zenon, <5>1, <3>0, <7>2
            <6>3. \A i \in Conns : i <= dialled => conn[i].link # next BY <4>4
            <6> QED BY Zenon, <6>1, <6>2, <6>3, <4>2
          <5>2. CASE d # c
            <6>1. pc[d] = "lock" /\ token[d] # Anchor /\ token'[d] = token[d]
              BY Zenon, <5>2, <4>5, <3>0
            <6>2. next < token[d] BY Zenon, <6>1, <4>3
            <6>3. \A e \in Callers : pc'[e] = "lock" /\ e # d => token'[e] # token[d]
              BY <6>1, <6>2, <3>0, <4>1 DEF TokenInv
            <6>4. \A i \in Conns : i <= dialled => conn[i].link # token[d]
              BY Zenon, <6>1 DEF TokenInv
            <6> QED BY <6>1, <6>2, <6>3, <6>4, <4>1, <4>2
          <5> QED BY Zenon, <5>1, <5>2
        <4>6. \A i \in Conns : i <= dialled' /\ conn'[i].link # Anchor
                                => next' < conn'[i].link
          <5>1. ASSUME NEW l \in Links, next < l PROVE next - 1 < l BY <5>1
          <5> QED BY Zenon, <4>1, <4>2, <4>4, <5>1
        <4> QED BY Zenon, <4>5, <4>6 DEF TokenInv
      <3> QED BY Zenon, <3>1, <3>2, <3>3
    <2> QED BY Zenon, <2>1, <2>2, <2>3
  <1>2. ASSUME NEW c \in Callers, Dial(c)
        PROVE  (DialledInv /\ TokenInv /\ LinkPresentedOnce)'
    <2> USE <1>2 DEF Dial
    <2>0. dialled' = dialled + 1 /\ dialled' \in Conns OBVIOUS
    <2>1. DialledInv' BY DEF DialledInv
    <2>a. \A i \in Conns : i <= dialled => i # dialled' /\ conn'[i] = conn[i] BY <2>0
    <2>b. conn'[dialled'].link = token[c] BY Zenon, <2>0
    <2>c. \A i \in Conns : i <= dialled' => i <= dialled \/ i = dialled' BY <2>0
    <2>d. \A d \in Callers : pc'[d] = "lock" => d # c /\ pc[d] = "lock" BY Zenon
    <2>e. pc[c] = "lock" /\ UNCHANGED <<next, token>> BY Zenon
    <2>f. 1..dialled' \subseteq Conns /\ \A i \in Conns : i \in 1..dialled' => i <= dialled'
      BY <2>0
    <2>g. \A i \in Conns : i <= dialled => i \in 1..dialled OBVIOUS
    <2> HIDE <1>2 DEF Dial, Conns
    <2>2. LinkPresentedOnce'
      <3>1. \A i \in 1..dialled' : conn'[i].link \in Links
        BY Zenon, <2>a, <2>b, <2>c, <2>f, <2>g DEF LinkPresentedOnce
      <3>2. ASSUME NEW i \in Conns, i <= dialled, conn[i].link = token[c]
            PROVE  conn[i].link = Anchor
        BY Zenon, <3>2, <2>e DEF TokenInv
      <3>3. ASSUME NEW i \in Conns, NEW j \in Conns, i <= dialled', j <= dialled', i # j,
                   conn'[i].link = conn'[j].link
            PROVE  conn'[i].link = Anchor
        <4>1. CASE i <= dialled /\ j <= dialled
          BY Zenon, <3>3, <4>1, <2>a, <2>g DEF LinkPresentedOnce
        <4>2. CASE i = dialled' BY Zenon, <3>2, <3>3, <4>2, <2>a, <2>b, <2>c
        <4>3. CASE j = dialled' BY Zenon, <3>2, <3>3, <4>3, <2>a, <2>b, <2>c
        <4> QED BY Zenon, <3>3, <2>c, <4>1, <4>2, <4>3
      <3> QED BY Zenon, <3>1, <3>3, <2>f DEF LinkPresentedOnce
    <2>3. TokenInv'
      <3>1. ASSUME NEW d \in Callers, pc'[d] = "lock", token'[d] # Anchor
            PROVE  /\ next' < token'[d]
                   /\ \A e \in Callers : pc'[e] = "lock" /\ e # d => token'[e] # token'[d]
                   /\ \A i \in Conns : i <= dialled' => conn'[i].link # token'[d]
        <4>1. d # c /\ pc[d] = "lock" /\ token[d] # Anchor BY Zenon, <3>1, <2>d, <2>e
        <4>2. token[c] # token[d] BY Zenon, <4>1, <2>e DEF TokenInv
        <4>3. \A i \in Conns : i <= dialled' => conn'[i].link # token[d]
          BY Zenon, <4>1, <4>2, <2>a, <2>b, <2>c DEF TokenInv
        <4>4. \A e \in Callers : pc'[e] = "lock" /\ e # d => token[e] # token[d]
          BY Zenon, <4>1, <2>d DEF TokenInv
        <4>5. next < token[d] BY Zenon, <4>1 DEF TokenInv
        <4> QED BY Zenon, <4>3, <4>4, <4>5, <2>e
      <3>2. ASSUME NEW i \in Conns, i <= dialled', conn'[i].link # Anchor
            PROVE  next' < conn'[i].link
        <4>1. CASE i <= dialled BY Zenon, <3>2, <4>1, <2>a, <2>e DEF TokenInv
        <4>2. CASE i = dialled' BY Zenon, <3>2, <4>2, <2>b, <2>e DEF TokenInv
        <4> QED BY Zenon, <3>2, <2>c, <4>1, <4>2
      <3> QED BY Zenon, <3>1, <3>2 DEF TokenInv
    <2> QED BY Zenon, <2>1, <2>2, <2>3
  <1>3. CASE NoLink
    <2>1. DialledInv' BY Zenon, <1>3 DEF NoLink, DialledInv
    <2>2. LinkPresentedOnce'
      <3>1. dialled' = dialled /\ \A i \in 1..dialled : conn'[i].link = conn[i].link
        <4>1. \A i \in 1..dialled : i \in Conns OBVIOUS
        <4> QED BY Zenon, <1>3, <4>1 DEF NoLink
      <3> QED BY Zenon, <3>1 DEF LinkPresentedOnce
    <2>3. TokenInv'
      <3>1. UNCHANGED <<dialled, next, token>> BY Zenon, <1>3 DEF NoLink
      <3>2. \A c \in Callers : pc'[c] = "lock" => pc[c] = "lock" BY Zenon, <1>3 DEF NoLink
      <3>3. \A i \in Conns : conn'[i].link = conn[i].link BY Zenon, <1>3 DEF NoLink
      <3>4. ASSUME NEW c \in Callers, pc'[c] = "lock", token'[c] # Anchor
            PROVE  /\ next' < token'[c]
                   /\ \A d \in Callers : pc'[d] = "lock" /\ d # c => token'[d] # token'[c]
                   /\ \A i \in Conns : i <= dialled' => conn'[i].link # token'[c]
        BY Zenon, <3>1, <3>2, <3>3, <3>4 DEF TokenInv
      <3>5. \A i \in Conns : i <= dialled' /\ conn'[i].link # Anchor => next' < conn'[i].link
        BY Zenon, <3>1, <3>3 DEF TokenInv
      <3> QED BY Zenon, <3>4, <3>5 DEF TokenInv
    <2> QED BY Zenon, <2>1, <2>2, <2>3
  <1> QED BY Zenon, <1>1, <1>2, <1>3, NoLinkSteps

\* The link of a connection is fixed when it is dialled.
LEMMA LinkFixed ==
    ASSUME Inv, [Next]_vars
    PROVE  \A i \in Conns : srv[i] # "none" => conn'[i].link = conn[i].link
  <1> USE DEF Inv, TypeOK, Conns
  <1>1. ASSUME NEW c \in Callers, HandshakeToken(c) PROVE conn' = conn
    BY Zenon, <1>1 DEF HandshakeToken
  <1>2. ASSUME NEW c \in Callers, Dial(c), NEW i \in Conns, srv[i] # "none"
        PROVE  conn'[i].link = conn[i].link
    BY <1>2 DEF Dial, DialledInv
  <1>3. CASE NoLink BY Zenon, <1>3 DEF NoLink
  <1> QED BY Zenon, <1>1, <1>2, <1>3, NoLinkSteps

\* What a step leaves alone when no connection is attached or refused.
NoAttach ==
    /\ session'.exists = session.exists /\ session'.last = session.last
    /\ \A i \in Conns :
          /\ Accepted(i)' <=> Accepted(i)
          /\ srv'[i] = "refused" => srv[i] = "refused"
          /\ srv'[i] = "resume" => srv[i] = "resume" \/ session.exists

\* Steps other than the three that attach or refuse a connection.
LEMMA NoAttachSteps ==
    ASSUME Inv, [Next]_vars,
           ~ \E i \in Conns : Create(i) \/ AuthorizeResume(i) \/ RefuseResume(i)
    PROVE  NoAttach
  <1> USE DEF Inv, TypeOK, NoAttach, Accepted, clientVars
  <1>1. ASSUME NEW c \in Callers, Client(c) PROVE NoAttach
    <2>1. CASE Dial(c)
      <3>1. \A i \in Conns : srv'[i] = srv[i] \/ (srv[i] = "none" /\ srv'[i] = "dialled")
        <4>1. srv' = [srv EXCEPT ![dialled + 1] = "dialled"] /\ dialled < MaxConns
          BY Zenon, <2>1 DEF Dial
        <4>2. srv[dialled + 1] = "none"
          <5>1. dialled + 1 \in Conns /\ dialled + 1 > dialled BY <4>1 DEF Conns
          <5> QED BY Zenon, <5>1 DEF DialledInv
        <4>3. srv \in [Conns -> ServerStates] BY Zenon
        <4> HIDE DEF Inv, TypeOK
        <4> QED BY Zenon, <4>1, <4>2, <4>3
      <3> QED BY Zenon, <2>1, <3>1 DEF Dial
    <2>2. CASE ~Dial(c)
      BY Zenon, <1>1, <2>2 DEF Client, Begin, HandshakeToken, ConnectReturns,
         Established, HandshakeFails
    <2> QED BY Zenon, <2>1, <2>2
  <1>2. CASE Reset BY Zenon, <1>2 DEF Reset
  <1>3. ASSUME NEW i \in Conns, Drop(i) PROVE NoAttach
    BY Zenon, <1>3 DEF Drop
  <1>4. ASSUME NEW i \in Conns, Server(i), ~Create(i), ~AuthorizeResume(i), ~RefuseResume(i)
        PROVE  NoAttach
    <2> USE DEF ServerStep
    <2>1. CASE RejectHandshake(i) BY Zenon, <2>1 DEF RejectHandshake
    <2>2. CASE LookUp(i) BY Zenon, <2>2 DEF LookUp
    <2>3. CASE CreateLost(i) BY Zenon, <2>3 DEF CreateLost
    <2>4. CASE ReplaceClose(i) BY Zenon, <2>4 DEF ReplaceClose
    <2>5. CASE ReplaceStore(i) BY Zenon, <2>5 DEF ReplaceStore
    <2>6. CASE Respond(i) BY Zenon, <2>6 DEF Respond
    <2>7. CASE ServeEnds(i) BY Zenon, <2>7 DEF ServeEnds
    <2> QED BY Zenon, <1>4, <2>1, <2>2, <2>3, <2>4, <2>5, <2>6, <2>7 DEF Server
  <1>5. CASE UNCHANGED vars BY Zenon, <1>5 DEF vars
  <1> QED BY Zenon, <1>1, <1>2, <1>3, <1>4, <1>5 DEF Next

\* Accepting a link below the last one makes it the last one; a connection that
\* is refused has a witness in the connection that brought the last one.
LEMMA AttachStep == Inv /\ [Next]_vars => (ResumeInv /\ LastIsNewest /\ RefusedIsStale)'
  <1> SUFFICES ASSUME Inv, [Next]_vars PROVE (ResumeInv /\ LastIsNewest /\ RefusedIsStale)'
    BY Zenon
  <1>0. \A i \in Conns : srv[i] # "none" => conn'[i].link = conn[i].link
    BY Zenon, LinkFixed
  <1>1. ASSUME NEW i \in Conns, Create(i)
        PROVE  (ResumeInv /\ LastIsNewest /\ RefusedIsStale)'
    <2>1. /\ ~session.exists /\ srv[i] = "create"
          /\ session' = [exists |-> TRUE, last |-> conn[i].link, active |-> i]
          /\ srv' = [srv EXCEPT ![i] = "accepted"] /\ conn' = conn
      BY Zenon, <1>1 DEF Create, ServerStep
    <2>2. \A j \in Conns : ~Accepted(j) BY Zenon, <2>1 DEF Inv, LastIsNewest
    <2>3. \A j \in Conns : Accepted(j)' <=> j = i BY Zenon, <2>1, <2>2 DEF Inv, TypeOK, Accepted
    <2>4. conn[i].link \in Int BY DEF Inv, TypeOK, Links
    <2>5. LastIsNewest' BY <2>1, <2>3, <2>4 DEF LastIsNewest
    <2>6. ResumeInv' BY Zenon, <2>1 DEF ResumeInv
    <2>7. \A j \in Conns : srv[j] # "refused" BY Zenon, <2>2 DEF Inv, RefusedIsStale
    <2>8. RefusedIsStale' BY Zenon, <2>1, <2>7 DEF Inv, TypeOK, RefusedIsStale, Skipped
    <2> QED BY Zenon, <2>5, <2>6, <2>8
  <1>2. ASSUME NEW i \in Conns, AuthorizeResume(i)
        PROVE  (ResumeInv /\ LastIsNewest /\ RefusedIsStale)'
    <2>1. /\ srv[i] = "resume" /\ srv' = [srv EXCEPT ![i] = "replace"] /\ conn' = conn
          /\ session'.exists = session.exists /\ session'.last = conn[i].link
          /\ conn[i].link <= session.last
      <3> USE DEF Inv, TypeOK, Links
      <3>1. CASE VerifyHashStep(conn[i].link, session.last)
                   /\ session' = [session EXCEPT !.last = conn[i].link]
        BY <1>2, <3>1 DEF AuthorizeResume, ServerStep, VerifyHashStep
      <3>2. CASE SameToken(conn[i].link, session.last) /\ UNCHANGED session
        BY <1>2, <3>2 DEF AuthorizeResume, ServerStep, SameToken
      <3> QED BY Zenon, <1>2, <3>1, <3>2 DEF AuthorizeResume
    <2>2. session.exists BY Zenon, <2>1 DEF Inv, ResumeInv
    <2>3. \A j \in Conns : Accepted(j)' <=> Accepted(j) \/ j = i
      BY Zenon, <2>1 DEF Inv, TypeOK, Accepted
    <2>4. \A j \in Conns : Accepted(j) => session.last <= conn[j].link
      BY Zenon, <2>2 DEF Inv, LastIsNewest
    <2>5. session.last \in Int /\ \A j \in Conns : conn[j].link \in Int
      BY DEF Inv, TypeOK, Links
    <2>6. LastIsNewest' BY <2>1, <2>2, <2>3, <2>4, <2>5 DEF LastIsNewest
    <2>7. ResumeInv' BY Zenon, <2>1, <2>2 DEF ResumeInv
    <2>8. RefusedIsStale' BY Zenon, <2>1, <2>3 DEF Inv, TypeOK, RefusedIsStale, Skipped
    <2> QED BY Zenon, <2>6, <2>7, <2>8
  <1>3. ASSUME NEW i \in Conns, RefuseResume(i)
        PROVE  (ResumeInv /\ LastIsNewest /\ RefusedIsStale)'
    <2>1. /\ srv[i] = "resume" /\ srv' = [srv EXCEPT ![i] = "refused"] /\ session' = session
          /\ ~VerifyHashStep(conn[i].link, session.last)
          /\ ~SameToken(conn[i].link, session.last)
      BY Zenon, <1>3 DEF RefuseResume, ServerStep
    <2>2. \A j \in Conns : conn'[j].link = conn[j].link
      BY <1>3 DEF RefuseResume, Closed, Inv, TypeOK
    <2>3. \A j \in Conns : Accepted(j)' <=> Accepted(j) BY Zenon, <2>1 DEF Inv, TypeOK, Accepted
    <2>4. session.exists BY Zenon, <2>1 DEF Inv, ResumeInv
    <2>5. PICK j \in Conns : Accepted(j) /\ conn[j].link = session.last
      BY Zenon, <2>4 DEF Inv, LastIsNewest
    <2>6. \/ conn[j].link < conn[i].link
          \/ Skipped(j, i) >= ResyncWindow
      <3>1. conn[i].link \in Int /\ session.last \in Int BY DEF Inv, TypeOK, Links
      <3>2. SUFFICES ASSUME session.last > conn[i].link,
                            session.last <= conn[i].link + ResyncWindow
                     PROVE  FALSE
        BY <2>1, <2>5, <3>1 DEF SameToken, Skipped
      <3>3. session.last - conn[i].link \in 1..ResyncWindow BY <3>1, <3>2
      <3>4. conn[i].link + (session.last - conn[i].link) = session.last BY <3>1
      <3> QED BY Zenon, <2>1, <3>3, <3>4 DEF VerifyHashStep
    <2>7. RefusedIsStale'
      BY Zenon, <2>1, <2>2, <2>3, <2>5, <2>6 DEF Inv, TypeOK, RefusedIsStale, Skipped
    <2>8. LastIsNewest' BY Zenon, <2>1, <2>2, <2>3 DEF Inv, LastIsNewest
    <2>9. ResumeInv' BY Zenon, <2>1, <2>4 DEF ResumeInv
    <2> QED BY Zenon, <2>7, <2>8, <2>9
  <1>4. CASE NoAttach
    <2>1. \A i \in Conns : Accepted(i) \/ srv[i] = "refused" => srv[i] # "none"
      BY Zenon DEF Accepted
    <2>2. LastIsNewest' BY Zenon, <1>0, <1>4, <2>1 DEF NoAttach, Inv, LastIsNewest
    <2>3. RefusedIsStale' BY Zenon, <1>0, <1>4, <2>1 DEF NoAttach, Inv, RefusedIsStale,
                                   Skipped
    <2>4. ResumeInv' BY Zenon, <1>4 DEF NoAttach, Inv, ResumeInv
    <2> QED BY Zenon, <2>2, <2>3, <2>4
  <1> QED BY Zenon, <1>1, <1>2, <1>3, <1>4, NoAttachSteps

-----------------------------------------------------------------------------
(* The theorems *)

\* Inv is an invariant of Session.
LEMMA InvCorrect == Spec => []Inv
  <1>1. Inv /\ [Next]_vars => Inv'
    BY Zenon, TypeStep, LinksStep, AttachStep DEF Inv
  <1> QED BY InitInv, <1>1, PTL DEF Spec

\* HashChain.Next and the connecting mutex: whatever goroutines connect and
\* whichever handshakes are lost, no link below the anchor is presented twice.
THEOREM LinkPresentedOnceCorrect == Spec => []LinkPresentedOnce
  <1>1. Inv => LinkPresentedOnce BY Zenon DEF Inv
  <1> QED BY InvCorrect, <1>1, PTL

\* authorizeResume: the session remembers the newest link it ever accepted.
THEOREM LastIsNewestCorrect == Spec => []LastIsNewest
  <1>1. Inv => LastIsNewest BY Zenon DEF Inv
  <1> QED BY InvCorrect, <1>1, PTL

\* authorizeResume: a link is refused only when it was overtaken, or when at least
\* ResyncWindow links were lost since one that was accepted.
THEOREM RefusedIsStaleCorrect == Spec => []RefusedIsStale
  <1>1. Inv => RefusedIsStale BY Zenon DEF Inv
  <1> QED BY InvCorrect, <1>1, PTL

\* createOrUpdateServingClient: a connection is attached to a running session
\* only if no newer link was accepted before.
THEOREM NewestAttachesCorrect == Spec => NewestAttaches
  <1>1. ASSUME Inv, [Next]_vars, NEW i \in Conns, srv[i] = "resume", srv'[i] = "replace",
               NEW j \in Conns, Accepted(j)
        PROVE  conn[i].link <= conn[j].link
    <2>1. PICK k \in Conns : AuthorizeResume(k)
      <3>1. CASE NoAttach BY Zenon, <1>1, <3>1 DEF NoAttach, Accepted
      <3>2. ASSUME NEW k \in Conns, Create(k) PROVE FALSE
        BY Zenon, <1>1, <3>2 DEF Create, ServerStep, Inv, TypeOK
      <3>3. ASSUME NEW k \in Conns, RefuseResume(k) PROVE FALSE
        BY Zenon, <1>1, <3>3 DEF RefuseResume, ServerStep, Inv, TypeOK
      <3> QED BY Zenon, <1>1, <3>1, <3>2, <3>3, NoAttachSteps
    <2>2. k = i BY Zenon, <1>1, <2>1 DEF AuthorizeResume, ServerStep, Inv, TypeOK
    <2>3. conn[i].link <= session.last
      BY <1>1, <2>1, <2>2 DEF AuthorizeResume, VerifyHashStep, SameToken, Inv, TypeOK,
         Links
    <2>4. session.last <= conn[j].link BY Zenon, <1>1 DEF Inv, LastIsNewest, ResumeInv
    <2> QED BY <1>1, <2>3, <2>4 DEF Inv, TypeOK, Links
  <1>2. Inv /\ [Next]_vars =>
          [\A i \in Conns : srv[i] = "resume" /\ srv'[i] = "replace" =>
              \A j \in Conns : Accepted(j) => conn[i].link <= conn[j].link]_vars
    BY Zenon, <1>1
  <1> QED BY InvCorrect, <1>2, PTL DEF Spec, NewestAttaches
=============================================================================

------------------------------ MODULE Session ------------------------------
(***************************************************************************)
(* One client's session: how the client dials and presents the links of    *)
(* its reverse hash chain, and how the server attaches each connection to  *)
(* the session or turns it away.                                           *)
(*                                                                         *)
(* Callers are the goroutines inside ConnectContext (a call that needs a   *)
(* connection, Reconnect, retryReconnect).  A connection is a number in    *)
(* the order of dialling; the server runs one goroutine per connection,    *)
(* which outlives a client that stopped waiting for its handshake.         *)
(* Link i of the chain is the number i: 0 is the seed, ChainLen the        *)
(* anchor, and hashing link i gives link i+1.                              *)
(***************************************************************************)
EXTENDS Integers

CONSTANTS
    Callers,        \* goroutines that may be inside ConnectContext
    ChainLen,       \* length of the hash chain (DefaultHashChainLen)
    ResyncWindow,   \* DefaultResyncWindow
    MaxConns        \* bound on the connections dialled

ASSUME ChainLenAssumption     == ChainLen \in Nat \ {0}
ASSUME ResyncWindowAssumption == ResyncWindow \in Nat \ {0}
ASSUME MaxConnsAssumption     == MaxConns \in Nat

Conns == 1..MaxConns
NoConn == 0
Links == 0..ChainLen
Anchor == ChainLen

\* Where the server's goroutine of a connection stands.
ServerStates == {"none", "dialled", "create", "resume", "replace", "store",
                 "accepted", "serving", "gone", "refused", "rejected"}

VARIABLES
    next,           \* HashChain.next: the next link to reveal
    established,    \* the server acknowledged a handshake
    pc,             \* pc[c]: where caller c is inside ConnectContext
    token,          \* token[c]: the link caller c will present
    holder,         \* callers holding syncConn.connecting (at most one)
    waiting,        \* the connection whose handshake the holder waits for
    active,         \* syncConn.conn
    dialled,        \* connections dialled so far
    conn,           \* conn[i]: its link, whether it is open, the reply arrived
    srv,            \* srv[i]: the server goroutine serving connection i
    session         \* the servingClient in clientMap

clientVars == <<next, established, pc, token, holder, waiting, active, dialled>>
vars == <<clientVars, conn, srv, session>>

TypeOK ==
    /\ next \in -1..(ChainLen - 1)
    /\ established \in BOOLEAN
    /\ pc \in [Callers -> {"idle", "token", "lock", "wait"}]
    /\ token \in [Callers -> Links]
    /\ holder \in SUBSET Callers
    /\ waiting \in Conns \union {NoConn}
    /\ active \in Conns \union {NoConn}
    /\ dialled \in 0..MaxConns
    /\ conn \in [Conns -> [link : Links, open : BOOLEAN, reply : BOOLEAN]]
    /\ srv \in [Conns -> ServerStates]
    /\ session \in [exists : BOOLEAN, last : Links, active : Conns \union {NoConn}]

Init ==
    /\ next = ChainLen - 1
    /\ established = FALSE
    /\ pc = [c \in Callers |-> "idle"]
    /\ token = [c \in Callers |-> Anchor]
    /\ holder = {}
    /\ waiting = NoConn
    /\ active = NoConn
    /\ dialled = 0
    /\ conn = [i \in Conns |-> [link |-> Anchor, open |-> FALSE, reply |-> FALSE]]
    /\ srv = [i \in Conns |-> "none"]
    /\ session = [exists |-> FALSE, last |-> Anchor, active |-> NoConn]

-----------------------------------------------------------------------------
(* The hash chain *)

\* Wrong: off by one, the last step of the window is not tried.
VerifyHashStepShort(presented, last) ==
    \E step \in 1..(ResyncWindow - 1) : presented + step = last

\* VerifyHashStep hashes the presented link forward, at most ResyncWindow times,
\* until it reproduces the last one accepted: hashing it step times gives link
\* presented + step, and SHA-256 has no collisions.
VerifyHashStep(presented, last) ==
    \E step \in 1..ResyncWindow : presented + step = last

\* Wrong: any older link counts as a retry.
SameTokenOrOlder(a, b) == a >= b

SameToken(a, b) == a = b

Closed(i) == [conn EXCEPT ![i].open = FALSE]

-----------------------------------------------------------------------------
(* The client: ConnectContext *)

\* There is no connection: the caller will make one.
Begin(c) ==
    /\ pc[c] = "idle" /\ active = NoConn
    /\ pc' = [pc EXCEPT ![c] = "token"]
    /\ UNCHANGED <<next, established, token, holder, waiting, active, dialled,
                   conn, srv, session>>

\* Wrong: the link is presented again when the last handshake failed.
HandshakeTokenAgain(c) ==
    /\ pc[c] = "token"
    /\ token' = [token EXCEPT ![c] = IF established /\ next >= 0 THEN next ELSE Anchor]
    /\ next' = IF established /\ next >= 0 /\ dialled > 0 /\ conn[dialled].reply
               THEN next - 1 ELSE next
    /\ pc' = [pc EXCEPT ![c] = "lock"]
    /\ UNCHANGED <<established, holder, waiting, active, dialled, conn, srv, session>>

\* handshakeToken: the anchor until the session is acknowledged, then the next
\* link of the chain, before the caller queues for the connecting mutex.
HandshakeToken(c) ==
    /\ pc[c] = "token"
    /\ IF ~established
       THEN /\ token' = [token EXCEPT ![c] = Anchor]
            /\ pc' = [pc EXCEPT ![c] = "lock"]
            /\ UNCHANGED next
       ELSE IF next < 0
            THEN pc' = [pc EXCEPT ![c] = "idle"] /\ UNCHANGED <<token, next>>
            ELSE /\ token' = [token EXCEPT ![c] = next]
                 /\ next' = next - 1
                 /\ pc' = [pc EXCEPT ![c] = "lock"]
    /\ UNCHANGED <<established, holder, waiting, active, dialled, conn, srv, session>>

\* syncConn.connect: somebody else connected meanwhile, or the dial failed;
ConnectReturns(c) ==
    /\ pc[c] = "lock" /\ holder = {}
    /\ pc' = [pc EXCEPT ![c] = "idle"]
    /\ UNCHANGED <<next, established, token, holder, waiting, active, dialled,
                   conn, srv, session>>

\* or newConn dialled and sent the handshake.
Dial(c) ==
    /\ pc[c] = "lock" /\ holder = {} /\ active = NoConn
    /\ dialled < MaxConns
    /\ dialled' = dialled + 1
    /\ conn' = [conn EXCEPT ![dialled'] =
                    [link |-> token[c], open |-> TRUE, reply |-> FALSE]]
    /\ srv' = [srv EXCEPT ![dialled'] = "dialled"]
    /\ holder' = {c}
    /\ waiting' = dialled'
    /\ pc' = [pc EXCEPT ![c] = "wait"]
    /\ UNCHANGED <<next, established, token, active, session>>

\* newConn read the reply: the session is established, the connection is stored.
Established(c) ==
    /\ pc[c] = "wait" /\ conn[waiting].reply
    /\ established' = TRUE
    /\ active' = waiting
    /\ waiting' = NoConn
    /\ holder' = {}
    /\ pc' = [pc EXCEPT ![c] = "idle"]
    /\ UNCHANGED <<next, token, dialled, conn, srv, session>>

\* The read failed: the connection was closed, or the dial deadline passed.
HandshakeFails(c) ==
    /\ pc[c] = "wait"
    /\ conn' = Closed(waiting)
    /\ waiting' = NoConn
    /\ holder' = {}
    /\ pc' = [pc EXCEPT ![c] = "idle"]
    /\ UNCHANGED <<next, established, token, active, dialled, srv, session>>

\* syncConn.reset, by Reconnect.
Reset ==
    /\ active # NoConn
    /\ active' = NoConn
    /\ conn' = Closed(active)
    /\ UNCHANGED <<next, established, pc, token, holder, waiting, dialled, srv, session>>

-----------------------------------------------------------------------------
(* The network breaks a connection. *)
Drop(i) ==
    /\ conn[i].open
    /\ conn' = Closed(i)
    /\ UNCHANGED <<clientVars, srv, session>>

-----------------------------------------------------------------------------
(* The server: handshake and createOrUpdateServingClient.  The handshake may *)
(* be read although the client has closed the connection since.              *)

ServerStep(i, from, to) == srv[i] = from /\ srv' = [srv EXCEPT ![i] = to]

\* Not authorized, not a handshake, an unknown version, or not authenticated:
\* handleConnection closes the connection and nothing else happens.
RejectHandshake(i) ==
    /\ ServerStep(i, "dialled", "rejected")
    /\ conn' = Closed(i)
    /\ UNCHANGED <<clientVars, session>>

\* clientMap.Load
LookUp(i) ==
    /\ ServerStep(i, "dialled", IF session.exists THEN "resume" ELSE "create")
    /\ UNCHANGED <<clientVars, conn, session>>

\* clientMap.LoadOrStore: a first connect records the link as the anchor.
Create(i) ==
    /\ ~session.exists
    /\ ServerStep(i, "create", "accepted")
    /\ session' = [exists |-> TRUE, last |-> conn[i].link, active |-> i]
    /\ UNCHANGED <<clientVars, conn>>

\* Another connection won the slot: the servingClient made for this one is
\* closed, and its Close closes this connection.
CreateLost(i) ==
    /\ session.exists
    /\ ServerStep(i, "create", "resume")
    /\ conn' = Closed(i)
    /\ UNCHANGED <<clientVars, session>>

\* Wrong: the server forgets to store the link it has just verified.
AuthorizeResumeStuck(i) ==
    /\ VerifyHashStep(conn[i].link, session.last) \/ SameToken(conn[i].link, session.last)
    /\ ServerStep(i, "resume", "replace")
    /\ UNCHANGED <<clientVars, conn, session>>

\* authorizeResume: a link that hashes forward to the last one accepted advances
\* the chain; the last one itself is an idempotent retry.
AuthorizeResume(i) ==
    /\ \/ /\ VerifyHashStep(conn[i].link, session.last)
          /\ session' = [session EXCEPT !.last = conn[i].link]
       \/ /\ SameToken(conn[i].link, session.last)
          /\ UNCHANGED session
    /\ ServerStep(i, "resume", "replace")
    /\ UNCHANGED <<clientVars, conn>>

RefuseResume(i) ==
    /\ ~VerifyHashStep(conn[i].link, session.last)
    /\ ~SameToken(conn[i].link, session.last)
    /\ ServerStep(i, "resume", "refused")
    /\ conn' = Closed(i)
    /\ UNCHANGED <<clientVars, session>>

\* replaceConn: close the old connection (loading it and closing it are one step:
\* a close is idempotent),
ReplaceClose(i) ==
    /\ ServerStep(i, "replace", "store")
    /\ conn' = IF session.active = NoConn THEN conn ELSE Closed(session.active)
    /\ UNCHANGED <<clientVars, session>>

\* then store the new one.
ReplaceStore(i) ==
    /\ ServerStep(i, "store", "accepted")
    /\ session' = [session EXCEPT !.active = i]
    /\ UNCHANGED <<clientVars, conn>>

\* The reply to the handshake; the read loop starts.
Respond(i) ==
    /\ conn[i].open
    /\ ServerStep(i, "accepted", "serving")
    /\ conn' = [conn EXCEPT ![i].reply = TRUE]
    /\ UNCHANGED <<clientVars, session>>

\* The reply, or a later read, fails: the goroutine ends, the session stays.
ServeEnds(i) ==
    /\ ~conn[i].open
    /\ srv[i] \in {"accepted", "serving"}
    /\ srv' = [srv EXCEPT ![i] = "gone"]
    /\ UNCHANGED <<clientVars, conn, session>>

-----------------------------------------------------------------------------
Client(c) == \/ Begin(c) \/ HandshakeToken(c) \/ ConnectReturns(c) \/ Dial(c)
             \/ Established(c) \/ HandshakeFails(c)

Server(i) == \/ RejectHandshake(i) \/ LookUp(i) \/ Create(i) \/ CreateLost(i)
             \/ AuthorizeResume(i) \/ RefuseResume(i) \/ ReplaceClose(i)
             \/ ReplaceStore(i) \/ Respond(i) \/ ServeEnds(i)

Next == \/ \E c \in Callers : Client(c)
        \/ Reset
        \/ \E i \in Conns : Drop(i) \/ Server(i)

Spec == Init /\ [][Next]_vars

-----------------------------------------------------------------------------
\* valuerpc/hashchain.go:68-69: no matter how many goroutines connect and how
\* many handshakes are lost, what is presented is a link of the chain, and one
\* below the anchor is presented at most once; a chain that has run out presents
\* nothing.
LinkPresentedOnce ==
    /\ \A i \in 1..dialled : conn[i].link \in Links
    /\ \A i, j \in 1..dialled : i # j /\ conn[i].link = conn[j].link
                                   => conn[i].link = Anchor

\* Connection i carried a link the session accepted.
Accepted(i) == srv[i] \in {"replace", "store", "accepted", "serving", "gone"}

\* The session remembers the newest link it ever accepted, however handshakes
\* overtake one another (valueserver/serving_client.go:91-98).
LastIsNewest ==
    /\ session.exists <=> \E i \in Conns : Accepted(i)
    /\ session.exists =>
          /\ \E i \in Conns : Accepted(i) /\ conn[i].link = session.last
          /\ \A i \in Conns : Accepted(i) => session.last <= conn[i].link

\* A link that was passed over is useless: a connection is attached to a running
\* session only if no newer link was accepted before (valueserver/server.go:439-446,
\* "a one-time link is useless on the next reconnect").
NewestAttaches ==
    [][\A i \in Conns : srv[i] = "resume" /\ srv'[i] = "replace" =>
          \A j \in Conns : Accepted(j) => conn[i].link <= conn[j].link]_vars

\* How many links the client drew between those of connections j and i.
Skipped(j, i) == conn[j].link - conn[i].link - 1

\* Only a stale link is refused: the client was overtaken by a newer link of its
\* own, or a run of ResyncWindow links was lost since one that was accepted.  The
\* window so bridges ResyncWindow - 1 lost handshakes, the link presented being
\* the last of its steps: one less than valuerpc/hashchain.go:56-57, "the number
\* of consecutive dropped reconnect handshakes the chain self-heals across", and
\* 127-128, "tolerating up to window dropped reconnect handshakes", say.
RefusedIsStale ==
    \A i \in Conns : srv[i] = "refused" =>
        \E j \in Conns : /\ Accepted(j)
                         /\ \/ conn[j].link < conn[i].link
                            \/ Skipped(j, i) >= ResyncWindow

\* valueserver/serving_client.go:269-271: "the connection is replaced on
\* reconnect, after which sends resume": once no handshake is under way, the
\* connection the client holds is the one the session sends on.
SendsResume ==
    (/\ active # NoConn /\ conn[active].open
     /\ \A i \in Conns : srv[i] \notin {"replace", "store"})
        => session.active = active
=============================================================================

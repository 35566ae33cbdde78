---------------------------- MODULE StreamService ---------------------------
(***************************************************************************)
(* What a stream is to its two applications: each direction an abstract    *)
(* bounded stream, and a call that comes to its end.                       *)
(***************************************************************************)
EXTENDS Stream

Down == INSTANCE BoundedStream
            WITH Capacity <- Window["down"] + ChanCap["down"],
                 sent <- IF got["down"] > sent["down"] THEN got["down"] ELSE sent["down"],
                 got  <- IF got["down"] < 0 THEN 0 ELSE got["down"],
                 torn <- sr.closed

Up == INSTANCE BoundedStream
            WITH Capacity <- Window["up"] + ChanCap["up"],
                 sent <- sent["up"], got <- got["up"], torn <- sr.closed

\* Each direction implements the abstract bounded stream: the sender is never
\* further ahead of the application than the window and the channel together.
Implements == Down!Spec /\ Up!Spec

-----------------------------------------------------------------------------
(* Liveness *)

\* What happens of itself: goroutines run, SingleResp's timer fires, the two
\* applications read their channels and close the ones they write.  Nobody is
\* obliged to give up.
Progress ==
    \/ Establish \/ EstablishFailed \/ EstablishTimeout \/ Abandon
    \/ WatchClose \/ WatchExit \/ StreamOut \/ ClientLoop \/ AppReceive
    \/ ServerLoop \/ Handler \/ HandlerReceive \/ Streamer
    \/ \E d \in Dirs : PumpStep(d)

\* As long as anybody can go on, somebody does.
Fairness == WF_vars(Progress)

FairSpec == Spec /\ Fairness

StreamerStopped == sender["down"] \in {"off", "done"}

Finished ==
    /\ ResultClosed /\ chan["down"] = << >> /\ ~rc.inMap
    /\ ~sr.registered /\ StreamerStopped
    /\ sender["up"] \in {"off", "done"} /\ (HasUp => pump["up"].exited)

\* So many Null values were sent that the credit left in circulation no longer
\* makes up a grant: the sender may wait at its gate for ever.
Starved(d) ==
    nulls[d] > 0 /\ Window[d] - nulls[d] < CreditBatch(Window[d])

\* A stream that was established and that nobody gives up on runs to its end:
\* no credit deadlock between gate and pump, every goroutine stops, both sides
\* retire the request, also a chat whose halves end at the same time, each after
\* setting its flag and reading the other's (valueclient/request.go:223-243).
\* The exception is a real stall of the code: the credit a Null value costs is
\* lost (client.go:436, serving_request.go:187), and half a window of them is the
\* most a longer stream survives.
Completes ==
    opener = "open" ~> \/ Finished \/ cancelled \/ rc.closed
                       \/ \E d \in Dirs : Starved(d)

\* README.md:168-169, "cancelling the context cancels the call (and, for
\* streams, tears the stream down)": the consumer's channel is closed, the
\* server's request is retired and its streamer stops.
ContextCancelTearsDown ==
    watcher = "cancelling" ~> (ResultClosed /\ ~sr.registered /\ StreamerStopped)
=============================================================================

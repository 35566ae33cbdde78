---------------------------- MODULE BoundedStream ----------------------------
(***************************************************************************)
(* What one direction of a stream promises the two applications: values    *)
(* are received in the order they are sent, each exactly once, and the     *)
(* sender is never more than Capacity values ahead of the receiver.        *)
(* Nothing is said of how credit, frames and buffers achieve it.           *)
(*                                                                         *)
(* Tearing the stream down stops the sender.  It may interrupt the sender  *)
(* with a value in its hand; that value is handed over without a place     *)
(* having been reserved for it (outgoingStreamer's StreamEnd carries it),  *)
(* or lost with whatever else was not received.                            *)
(***************************************************************************)
EXTENDS Naturals

CONSTANT Capacity

VARIABLES
    sent,   \* number of values sent
    got,    \* number of values received
    torn    \* the stream was torn down

vars == <<sent, got, torn>>

Init == sent = 0 /\ got = 0 /\ torn = FALSE

Send == /\ sent - got < Capacity
        /\ sent' = sent + 1
        /\ UNCHANGED <<got, torn>>

Receive == /\ got < sent
           /\ got' = got + 1
           /\ UNCHANGED <<sent, torn>>

TearDown == ~torn /\ torn' = TRUE /\ UNCHANGED <<sent, got>>

HandOver == /\ torn /\ got = sent
            /\ sent' = sent + 1 /\ got' = got + 1
            /\ UNCHANGED torn

Next == Send \/ Receive \/ TearDown \/ HandOver

Spec == Init /\ [][Next]_vars
=============================================================================

------------------------------- MODULE MCQuic -------------------------------
(* Instances of Quic for TLC. *)
EXTENDS Quic

MCKinds == [r \in Reqs |-> RequestKinds]

MCUnary == [r \in Reqs |-> {"Function"}]

\* One value more than the window.
MCMaxValues == [Function  |-> [client |-> 0, server |-> 0],
                GetStream |-> [client |-> 0, server |-> 2],
                PutStream |-> [client |-> 2, server |-> 0],
                Chat      |-> [client |-> 0, server |-> 2]]
=============================================================================

----------------------------- MODULE MCReverse ------------------------------
(* Instances of Reverse for TLC. *)
EXTENDS Reverse

MCWindow  == [up |-> 2, down |-> 1]

\* A window of two downwards: a value can be lost and a later one delivered.
MCWideWindow == [up |-> 2, down |-> 2]

MCChanCap == [up |-> 1, down |-> 1]

\* With the Null values below, more than the window where a direction runs alone;
\* of a put-stream also without them.
MCMaxValues == [call |-> [up |-> 0, down |-> 0],
                get  |-> [up |-> 2, down |-> 0],
                put  |-> [up |-> 0, down |-> 2],
                chat |-> [up |-> 1, down |-> 0]]

\* A get-stream survives one Null value with a window of two; a put-stream
\* survives none with a window of one.
MCMaxNulls == [call |-> [up |-> 0, down |-> 0],
               get  |-> [up |-> 1, down |-> 0],
               put  |-> [up |-> 0, down |-> 1],
               chat |-> [up |-> 0, down |-> 0]]

\* Two values and no Null one, for the replaced connection.
MCTwoValues == [k \in RequestKinds |-> [d \in Dirs |-> 2]]
MCNoNulls   == [k \in RequestKinds |-> [d \in Dirs |-> 0]]
=============================================================================

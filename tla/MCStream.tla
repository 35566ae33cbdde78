------------------------------ MODULE MCStream ------------------------------
(* Instances of Stream for TLC. *)
EXTENDS StreamService

MCWindow  == [down |-> 2, up |-> 1]
MCChanCap == [down |-> 1, up |-> 1]

\* Enough values to exhaust the window and need a second grant where one
\* direction runs alone; a chat runs both.
MCMaxValues == [get  |-> [down |-> 4, up |-> 0],
                put  |-> [down |-> 0, up |-> 3],
                chat |-> [down |-> 1, up |-> 1]]

\* As many Null values as a get-stream survives with a window of two, and more
\* than a put-stream survives with a window of one.
MCMaxNulls == [get  |-> [down |-> 1, up |-> 0],
               put  |-> [down |-> 0, up |-> 1],
               chat |-> [down |-> 0, up |-> 0]]

\* Either way of giving up; a chat by its context.
MCCancels == [get  |-> {"ctx", "explicit"},
              put  |-> {"ctx"},
              chat |-> {"ctx"}]
=============================================================================

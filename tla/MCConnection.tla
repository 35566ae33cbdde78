---------------------------- MODULE MCConnection ----------------------------
(* An instance of Connection: one call, whose caller also dials. *)
EXTENDS Connection

CONSTANT r1

MCReqs == {r1}
=============================================================================

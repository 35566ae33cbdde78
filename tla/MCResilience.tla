---------------------------- MODULE MCResilience ----------------------------
(* Two callers of one method. *)
EXTENDS Resilience

CONSTANTS c1, c2

MCCalls == {c1, c2}
=============================================================================

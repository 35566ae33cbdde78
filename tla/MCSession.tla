----------------------------- MODULE MCSession -----------------------------
(* Instances of Session for TLC. *)
EXTENDS Session, TLC

CONSTANTS c1, c2

\* The callers are interchangeable.
Symmetry == Permutations(Callers)
=============================================================================

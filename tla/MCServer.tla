------------------------------ MODULE MCServer ------------------------------
(* Two connections of one client, with and without room for both. *)
EXTENDS Server
=============================================================================

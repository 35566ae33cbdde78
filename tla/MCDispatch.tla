----------------------------- MODULE MCDispatch -----------------------------
(* Instances of Dispatch for TLC, and of Verify, which its handlers call. *)
EXTENDS Dispatch, Verify, TLC

CONSTANTS call, put, get

\* The theorem of DispatchProofs, evaluated on the instance.
ASSUME CalleeAcceptsHere == CalleeAccepts

MCKind == (call :> "unary") @@ (put :> "in") @@ (get :> "out")
=============================================================================

------------------------- MODULE MCFeeSharingSetter -------------------------
(***************************************************************************)
(* A small instance of FeeSharingSetter for TLC: u1 may stake, u2 holds too *)
(* little to stake and may be registered as a fee-only address (so may u1). *)
(***************************************************************************)
EXTENDS FeeSharingSetter, TLC

CONSTANTS u1, u2

MCUser == {u1, u2}

MCInitialWallet == u1 :> 2 @@ u2 :> 1
=============================================================================

------------------------ MODULE MCOperatorController ------------------------
(***************************************************************************)
(* A small instance of OperatorControllerForRewardsV2 for TLC: two users,   *)
(* of whom either may be fee-only, and two accounts that share the          *)
(* splitter evenly, either of which a third may take over.                  *)
(***************************************************************************)
EXTENDS OperatorControllerForRewardsV2, TLC

CONSTANTS u1, u2, a1, a2, a3

MCUser == {u1, u2}
MCInitialWallet == u1 :> 2 @@ u2 :> 1

MCAccount == {a1, a2, a3}
MCAccounts == 0 :> a1 @@ 1 :> a2
MCShares == 0 :> 1 @@ 1 :> 1
=============================================================================

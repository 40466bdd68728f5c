------------------------- MODULE MCTokenDistributor -------------------------
(***************************************************************************)
(* A small instance of TokenDistributor and what backs it for TLC.  Of the  *)
(* three periods one pays only the others and one only the stakers; the     *)
(* first update may come after any of their boundaries.  The deployer may   *)
(* take a coin of the supply before handing the token over, so that the     *)
(* last rewards no longer fit under the cap.                                *)
(***************************************************************************)
EXTENDS TokenDistributorBacking, TLC

Users == Permutations(User)

MCStakingPeriod ==
  0 :> [rewardPerBlockForStaking |-> 2, rewardPerBlockForOthers |-> 1, periodLengthInBlock |-> 2]
  @@ 1 :> [rewardPerBlockForStaking |-> 0, rewardPerBlockForOthers |-> 1, periodLengthInBlock |-> 1]
  @@ 2 :> [rewardPerBlockForStaking |-> 1, rewardPerBlockForOthers |-> 0, periodLengthInBlock |-> 1]

MCInitialWallet == [u \in User |-> 2]
=============================================================================

--------------------- MODULE MCTokenDistributorOptimized ---------------------
(***************************************************************************)
(* A small instance of TokenDistributorOptimized whose uints are so narrow  *)
(* that stakes and products reach the largest one.                          *)
(***************************************************************************)
EXTENDS TokenDistributorRewritten, TLC

Users == Permutations(User)

MCStakingPeriod ==
  0 :> [rewardPerBlockForStaking |-> 2, rewardPerBlockForOthers |-> 1, periodLengthInBlock |-> 1]
  @@ 1 :> [rewardPerBlockForStaking |-> 1, rewardPerBlockForOthers |-> 1, periodLengthInBlock |-> 1]
  @@ 2 :> [rewardPerBlockForStaking |-> 1, rewardPerBlockForOthers |-> 0, periodLengthInBlock |-> 1]

MCInitialWallet == [u \in User |-> 2]
=============================================================================

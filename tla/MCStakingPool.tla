---------------------------- MODULE MCStakingPool ----------------------------
(***************************************************************************)
(* A small instance of StakingPoolBudget: rewards that start after block 0, *)
(* end two blocks later and may be planned anew, and a precision so coarse  *)
(* that both divisions round.                                               *)
(***************************************************************************)
EXTENDS StakingPoolBudget, TLC

Users == Permutations(User)

MCInitialWallet == [u \in User |-> 2]
=============================================================================

-------------------------- MODULE MCStakingAmounts --------------------------
(* A small instance of StakingAmounts for TLC. *)
EXTENDS StakingAmounts, TLC

CONSTANTS u1, u2, t1

MCUser == {u1, u2}
Symmetry == Permutations(MCUser)

MCId == {t1}
MCInitialHolding == t1 :> (u1 :> 1 @@ u2 :> 1)

MCInitialWallet == [u \in MCUser |-> 2]
MCReceived == 1 :> 1 @@ 2 :> 1
MCInitialCondition == <<1, <<1, 1>>>>
MCRatios == {<<1, 1>>, <<2, 1>>, <<1, 0>>}
=============================================================================

---------------------- MODULE TokenDistributorRewritten ----------------------
(***************************************************************************)
(* TokenDistributorOptimized over the variables of TokenDistributor, which  *)
(* it has to implement, also where amounts come close to the largest uint.  *)
(***************************************************************************)
EXTENDS TokenDistributor

CONSTANT UINT_MAX    \* 2^256 - 1 in the code

\* The supply cap, the block numbers and the number of periods are uints too.
ASSUME UintAssumption ==
  /\ UINT_MAX \in Nat
  /\ SUPPLY_CAP \in 0..UINT_MAX
  /\ START_BLOCK + MaxBlock \in 0..UINT_MAX
  /\ NUMBER_PERIODS \in 0..UINT_MAX

\* The rewrite only put a prefix before the names of the state.
Optimized ==
  INSTANCE TokenDistributorOptimized
    WITH s_accTokenPerShare <- accTokenPerShare,
         s_currentPhase <- currentPhase,
         s_endBlock <- endBlock,
         s_lastRewardBlock <- lastRewardBlock,
         s_rewardPerBlockForStaking <- rewardPerBlockForStaking,
         s_rewardPerBlockForOthers <- rewardPerBlockForOthers,
         s_totalAmountStaked <- totalAmountStaked

OptimizedSpec == Optimized!Spec
-----------------------------------------------------------------------------
\* Every transaction of the optimized contract that does not revert does what
\* the original does, also when products reach the largest uint: no unchecked
\* sum ever wraps, because a stake never exceeds the supply.
ImplementsOriginal == Spec

\* The optimized view agrees with the view of the original.
SamePreview ==
  \A u \in User : Optimized!CalculatePendingRewards(u) = CalculatePendingRewards(u)
=============================================================================

--------------------------- MODULE Staking721Base ---------------------------
(***************************************************************************)
(* Staking721Base.sol: Staking721 with a pot of reward tokens.              *)
(***************************************************************************)
EXTENDS Staking721, RewardPot

CONSTANTS
  ctorTimeUnit,            \* arguments of the constructor
  ctorRewardsPerUnitTime

ASSUME BaseAssumption ==
  /\ ctorTimeUnit \in Nat \ {0}
  /\ ctorRewardsPerUnitTime \in Nat

baseVars == <<stakingVars, pot>>

BaseInit ==
  /\ StakingInit(ctorTimeUnit, ctorRewardsPerUnitTime)
  /\ PotInit
-----------------------------------------------------------------------------
\* claimRewards with the _mintRewards of this contract.
ClaimFromPot(u) ==
  /\ ClaimRewards(u)
  /\ MintRewards(unclaimedRewards[u] + CalculateRewards(u))

StakeOrWithdraw(u) ==
  /\ \/ \E ids \in TokenLists : Stake(u, ids)
     \/ \E ids \in SUBSET Token : Withdraw(u, ids)
  /\ UNCHANGED pot

TransferAround(u) ==
  /\ \E t \in Token, to \in User \cup {Contract} : DirectTransfer(u, t, to)
  /\ UNCHANGED pot

StakerNext(u) == StakeOrWithdraw(u) \/ ClaimFromPot(u) \/ TransferAround(u)

OwnerNext ==
  \/ \E timeUnit \in TimeUnits : SetTimeUnit(timeUnit) /\ UNCHANGED pot
  \/ \E r \in Rewards : SetRewardsPerUnitTime(r) /\ UNCHANGED pot
  \/ PotNext /\ UNCHANGED stakingVars

BaseNext ==
  \/ Tick /\ UNCHANGED pot
  \/ OwnerNext
  \/ \E u \in User : StakerNext(u)

BaseSpec == BaseInit /\ [][BaseNext]_baseVars
=============================================================================

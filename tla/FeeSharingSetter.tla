-------------------------- MODULE FeeSharingSetter --------------------------
(***************************************************************************)
(* FeeSharingSetter.sol composed with the FeeSharingSystem it owns.  Fees   *)
(* arrive at the setter; when the period is over an operator sends the      *)
(* share of the fee-only addresses to them and the rest to the system, for  *)
(* a new period.  An admin changes the length of the next period, the set   *)
(* of fee-only addresses, and may hand the system over to a successor.      *)
(***************************************************************************)
EXTENDS FeeSharingSystem

CONSTANTS
  MIN_REWARD_DURATION_IN_BLOCKS,
  MAX_REWARD_DURATION_IN_BLOCKS,
  InitialDuration,
  Fees               \* amounts of WETH in which fees arrive

ASSUME SetterAssumption ==
  /\ MIN_REWARD_DURATION_IN_BLOCKS \in Nat
  /\ MAX_REWARD_DURATION_IN_BLOCKS \in Nat
  /\ InitialDuration \in MIN_REWARD_DURATION_IN_BLOCKS..MAX_REWARD_DURATION_IN_BLOCKS
  /\ Fees \subseteq Nat

VARIABLES
  owner,                        \* owner() of the FeeSharingSystem
  lastRewardDistributionBlock,
  rewardDurationInBlocks,
  nextRewardDurationInBlocks,
  feeStakingAddresses,          \* _feeStakingAddresses
  pendingFees,                  \* WETH held by the setter
  otherFees,                    \* whether it holds fees in another currency
  rewardConvertor               \* whether a convertor is set

durations  == <<rewardDurationInBlocks, nextRewardDurationInBlocks>>
fees       == <<pendingFees, otherFees>>
setterVars == <<owner, lastRewardDistributionBlock, durations, feeStakingAddresses,
                fees, rewardConvertor>>

SetterInit ==
  /\ Init
  /\ owner = "setter"
  /\ lastRewardDistributionBlock = 0
  /\ rewardDurationInBlocks = InitialDuration
  /\ nextRewardDurationInBlocks = InitialDuration
  /\ feeStakingAddresses = {}
  /\ pendingFees = 0
  /\ otherFees = FALSE
  /\ rewardConvertor = FALSE
-----------------------------------------------------------------------------
\* The LOOKS staked in the system and held by the fee-only addresses, and
\* what the fee-only address a is sent of a reward.
FeeStaked == staked + SumOver(wallet, feeStakingAddresses)
FeeOnlyPart(a, reward) ==
  IF FeeStaked > 0 THEN (wallet[a] * reward) \div FeeStaked ELSE 0

\* The reward that is left for the system.
AdjustedReward(reward) ==
  reward - SumOver([a \in User |-> FeeOnlyPart(a, reward)], feeStakingAddresses)

PeriodOver ==
  lastRewardDistributionBlock > 0
    => block > rewardDurationInBlocks + lastRewardDistributionBlock

\* Mutants of updateRewards: the next length is used but not stored, and the
\* fees are announced with the part that went to the fee-only addresses.
RenewNotStored ==
  /\ PeriodOver
  /\ UNCHANGED rewardDurationInBlocks
  /\ lastRewardDistributionBlock' = block
  /\ pendingFees # 0
  /\ owner = "setter"
  /\ UpdateRewards(AdjustedReward(pendingFees), nextRewardDurationInBlocks)
  /\ weth' = weth + AdjustedReward(pendingFees)
  /\ pendingFees' = 0

RenewWhole ==
  /\ PeriodOver
  /\ rewardDurationInBlocks' = nextRewardDurationInBlocks
  /\ lastRewardDistributionBlock' = block
  /\ pendingFees # 0
  /\ owner = "setter"
  /\ UpdateRewards(pendingFees, rewardDurationInBlocks')
  /\ weth' = weth + AdjustedReward(pendingFees)
  /\ pendingFees' = 0

\* What updateRewards of the setter changes: it keeps the duration of the
\* period, empties itself and starts the period.
Renew ==
  /\ PeriodOver
  /\ rewardDurationInBlocks' = nextRewardDurationInBlocks
  /\ lastRewardDistributionBlock' = block
  /\ pendingFees # 0
  /\ owner = "setter"
  /\ UpdateRewards(AdjustedReward(pendingFees), rewardDurationInBlocks')
  /\ weth' = weth + AdjustedReward(pendingFees)
  /\ pendingFees' = 0

SetterUpdateRewards ==
  /\ Renew
  /\ UNCHANGED <<owner, nextRewardDurationInBlocks, feeStakingAddresses, otherFees,
                 rewardConvertor>>

\* The convertor is another contract; it returns WETH for all that it is sent.
ConvertCurrencyToRewardToken(amountReceived) ==
  /\ rewardConvertor
  /\ otherFees
  /\ amountReceived + weth + pendingFees <= WETH_SUPPLY
  /\ otherFees' = FALSE
  /\ pendingFees' = pendingFees + amountReceived
  /\ UNCHANGED <<systemVars, owner, lastRewardDistributionBlock, durations,
                 feeStakingAddresses, rewardConvertor>>

AddFeeStakingAddresses(A) ==
  /\ A \cap feeStakingAddresses = {}
  /\ feeStakingAddresses' = feeStakingAddresses \cup A
  /\ UNCHANGED <<systemVars, owner, lastRewardDistributionBlock, durations, fees,
                 rewardConvertor>>

RemoveFeeStakingAddresses(A) ==
  /\ A \subseteq feeStakingAddresses
  /\ feeStakingAddresses' = feeStakingAddresses \ A
  /\ UNCHANGED <<systemVars, owner, lastRewardDistributionBlock, durations, fees,
                 rewardConvertor>>

SetNewRewardDurationInBlocks(n) ==
  /\ n \in MIN_REWARD_DURATION_IN_BLOCKS..MAX_REWARD_DURATION_IN_BLOCKS
  /\ nextRewardDurationInBlocks' = n
  /\ UNCHANGED <<systemVars, owner, lastRewardDistributionBlock, rewardDurationInBlocks,
                 feeStakingAddresses, fees, rewardConvertor>>

SetRewardConvertor(set) ==
  /\ rewardConvertor' = set
  /\ UNCHANGED <<systemVars, owner, lastRewardDistributionBlock, durations,
                 feeStakingAddresses, fees>>

TransferOwnershipOfFeeSharingSystem ==
  /\ owner = "setter"
  /\ owner' = "successor"
  /\ UNCHANGED <<systemVars, lastRewardDistributionBlock, durations, feeStakingAddresses,
                 fees, rewardConvertor>>

\* The next owner renews when it likes; this setter cannot any more.
SuccessorUpdateRewards(reward, n) ==
  /\ owner = "successor"
  /\ FundedUpdateRewards(reward, n)
  /\ UNCHANGED setterVars

\* Trading fees are sent to the setter, in WETH or in another currency.
FeesArrive(n) ==
  /\ n + weth + pendingFees <= WETH_SUPPLY
  /\ \/ pendingFees' = pendingFees + n /\ UNCHANGED otherFees
     \/ ~otherFees /\ otherFees' = TRUE /\ UNCHANGED pendingFees
  /\ UNCHANGED <<systemVars, owner, lastRewardDistributionBlock, durations,
                 feeStakingAddresses, rewardConvertor>>

\* Transactions of the users and of the admin, and the environment.
OthersNext ==
  \/ (NextBlock \/ UserNext) /\ UNCHANGED setterVars
  \/ \E n \in Fees : FeesArrive(n) \/ ConvertCurrencyToRewardToken(n)
  \/ \E A \in SUBSET User : AddFeeStakingAddresses(A) \/ RemoveFeeStakingAddresses(A)
  \/ \E n \in 0..(MAX_REWARD_DURATION_IN_BLOCKS + 1) : SetNewRewardDurationInBlocks(n)
  \/ \E set \in BOOLEAN : SetRewardConvertor(set)

SetterNext ==
  \/ SetterUpdateRewards
  \/ OthersNext
  \/ TransferOwnershipOfFeeSharingSystem
  \/ \E reward \in OwnerRewards, n \in OwnerDurations : SuccessorUpdateRewards(reward, n)

SetterSpec == SetterInit /\ [][SetterNext]_<<systemVars, setterVars>>
-----------------------------------------------------------------------------
(* Properties *)

\* The type of the setter's variables.
SetterTypeOK ==
  /\ TypeOK
  /\ owner \in {"setter", "successor"}
  /\ lastRewardDistributionBlock \in Nat
  /\ rewardDurationInBlocks \in MIN_REWARD_DURATION_IN_BLOCKS..MAX_REWARD_DURATION_IN_BLOCKS
  /\ nextRewardDurationInBlocks \in MIN_REWARD_DURATION_IN_BLOCKS..MAX_REWARD_DURATION_IN_BLOCKS
  /\ feeStakingAddresses \subseteq User
  /\ pendingFees \in Nat
  /\ otherFees \in BOOLEAN
  /\ rewardConvertor \in BOOLEAN

\* The two clocks agree as long as the setter owns the system: the setter's
\* last distribution plus its duration is where the system's period ends,
\* also after the duration of the next period was changed, even twice.
ClocksAgree ==
  owner = "setter" /\ lastRewardDistributionBlock > 0
    => periodEndBlock = lastRewardDistributionBlock + rewardDurationInBlocks
=============================================================================

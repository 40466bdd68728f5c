----------------------------- MODULE RewardPot -----------------------------
(***************************************************************************)
(* The reward tokens of Staking721Base.sol, Staking1155Base.sol and         *)
(* Staking20Base.sol, whose code for them is the same but for a test that   *)
(* the last one adds: the owner fills the pot and may empty it, and a claim *)
(* is paid from it.                                                         *)
(***************************************************************************)
EXTENDS Integers

CONSTANTS
  Amounts,         \* amounts of reward tokens the owner moves
  MaxHeld          \* bound on the reward tokens in the contract

ASSUME PotAssumption == Amounts \subseteq Nat /\ MaxHeld \in Nat

VARIABLES
  rewardTokenBalance,
  heldRewards        \* rewardToken.balanceOf(address(this))

pot == <<rewardTokenBalance, heldRewards>>

PotInit ==
  /\ rewardTokenBalance = 0
  /\ heldRewards = 0
-----------------------------------------------------------------------------
\* _mintRewards
MintRewards(rewards) ==
  /\ rewards <= rewardTokenBalance
  /\ rewards <= heldRewards
  /\ rewardTokenBalance' = rewardTokenBalance - rewards
  /\ heldRewards' = heldRewards - rewards

DepositRewardTokens(n) ==
  /\ heldRewards + n <= MaxHeld
  /\ rewardTokenBalance' = rewardTokenBalance + n
  /\ heldRewards' = heldRewards + n

\* More than the balance may be withdrawn, if it was sent to the contract
\* without a deposit.
WithdrawRewardTokens(n) ==
  /\ n <= heldRewards
  /\ rewardTokenBalance' = IF n > rewardTokenBalance THEN 0 ELSE rewardTokenBalance - n
  /\ heldRewards' = heldRewards - n

SendRewardTokens(n) ==
  /\ heldRewards + n <= MaxHeld
  /\ heldRewards' = heldRewards + n
  /\ UNCHANGED rewardTokenBalance

PotNext ==
  \E n \in Amounts : DepositRewardTokens(n) \/ WithdrawRewardTokens(n) \/ SendRewardTokens(n)
=============================================================================

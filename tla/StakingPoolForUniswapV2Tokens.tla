-------------------- MODULE StakingPoolForUniswapV2Tokens --------------------
(***************************************************************************)
(* StakingPoolForUniswapV2Tokens.sol: LP tokens are staked for LOOKS that   *)
(* the owner sends to the pool beforehand.  The accumulator is that of the  *)
(* TokenDistributor, but the rate and the end block are the owner's to      *)
(* change at any time, the divisor is the LP balance of the pool, and when  *)
(* the pool is paused users may leave without their reward.                 *)
(***************************************************************************)
EXTENDS Sums

CONSTANTS
  User,              \* the accounts that stake
  PRECISION_FACTOR,  \* 10**12 in the code
  START_BLOCK,
  FirstEndBlock,     \* the constructor's _endBlock
  Rates,             \* rewards per block the owner may set
  FirstRate,         \* the constructor's _rewardPerBlock
  InitialWallet,     \* LP tokens each user holds at first
  Fundings,          \* amounts in which LOOKS come and are taken back
  MaxLooks,          \* bound on the LOOKS the owner puts in
  MaxBlock           \* bound on the block number

ASSUME PoolAssumption ==
  /\ IsFiniteSet(User)
  /\ PRECISION_FACTOR \in Nat \ {0}
  /\ START_BLOCK \in Nat
  /\ FirstEndBlock \in Nat
  /\ START_BLOCK < FirstEndBlock
  /\ Rates \subseteq Nat
  /\ FirstRate \in Rates
  /\ InitialWallet \in [User -> Nat]
  /\ Fundings \subseteq Nat
  /\ MaxLooks \in Nat
  /\ MaxBlock \in Nat

VARIABLES
  block,              \* block.number
  accTokenPerShare,
  endBlock,
  lastRewardBlock,
  rewardPerBlock,
  amount,             \* userInfo[u].amount
  rewardDebt,         \* userInfo[u].rewardDebt
  paused,
  stakedHeld,         \* LP tokens held by the pool
  wallet,             \* LP tokens held by each user
  looks,              \* LOOKS held by the pool
  funded              \* LOOKS the owner has sent it

plan     == <<endBlock, rewardPerBlock>>
accrual  == <<accTokenPerShare, lastRewardBlock>>
stakes   == <<amount, rewardDebt>>
lp       == <<stakedHeld, wallet>>
poolVars == <<block, plan, accrual, stakes, paused, lp, looks, funded>>

PoolInit ==
  /\ block = 0
  /\ accTokenPerShare = 0
  /\ endBlock = FirstEndBlock
  /\ lastRewardBlock = START_BLOCK
  /\ rewardPerBlock = FirstRate
  /\ amount = [u \in User |-> 0]
  /\ rewardDebt = [u \in User |-> 0]
  /\ paused = FALSE
  /\ stakedHeld = 0
  /\ wallet = InitialWallet
  /\ looks = 0
  /\ funded = 0
-----------------------------------------------------------------------------
(* _updatePool *)

\* _getMultiplier, from the last update to this block.
Multiplier ==
  IF block <= endBlock THEN block - lastRewardBlock
  ELSE IF lastRewardBlock >= endBlock THEN 0
  ELSE endBlock - lastRewardBlock

\* _updatePool gets past its two early returns.
RewardsDue == block > lastRewardBlock /\ stakedHeld # 0

TokenReward == IF RewardsDue THEN Multiplier * rewardPerBlock ELSE 0

AdjustedTokenPerShare ==
  IF RewardsDue
  THEN accTokenPerShare + (TokenReward * PRECISION_FACTOR) \div stakedHeld
  ELSE accTokenPerShare

UpdatePool ==
  /\ accTokenPerShare' = AdjustedTokenPerShare
  /\ lastRewardBlock' =
       IF block > lastRewardBlock /\ (stakedHeld = 0 \/ lastRewardBlock <= endBlock)
       THEN block
       ELSE lastRewardBlock
-----------------------------------------------------------------------------
(* The transactions of the users *)

\* amount * acc / PRECISION_FACTOR - debt.
Pending(u, acc) == (amount[u] * acc) \div PRECISION_FACTOR - rewardDebt[u]

\* Mutant: the debt is computed before the amount is adjusted.
SettleStaleDebt(u, n) ==
  /\ amount' = [amount EXCEPT ![u] = n]
  /\ rewardDebt' = [rewardDebt EXCEPT ![u] = (amount[u] * accTokenPerShare') \div PRECISION_FACTOR]

Settle(u, n) ==
  /\ amount' = [amount EXCEPT ![u] = n]
  /\ rewardDebt' = [rewardDebt EXCEPT ![u] = (n * accTokenPerShare') \div PRECISION_FACTOR]

\* A transfer of LOOKS out of the pool, which reverts beyond its balance.
PayLooks(n) ==
  /\ 0 <= n
  /\ n <= looks
  /\ looks' = looks - n

Deposit(u, n) ==
  /\ n > 0
  /\ n <= wallet[u]
  /\ UpdatePool
  /\ PayLooks(IF amount[u] > 0 THEN Pending(u, accTokenPerShare') ELSE 0)
  /\ Settle(u, amount[u] + n)
  /\ stakedHeld' = stakedHeld + n
  /\ wallet' = [wallet EXCEPT ![u] = @ - n]
  /\ UNCHANGED <<block, plan, paused, funded>>

Harvest(u) ==
  /\ UpdatePool
  /\ Pending(u, accTokenPerShare') > 0
  /\ PayLooks(Pending(u, accTokenPerShare'))
  /\ Settle(u, amount[u])
  /\ UNCHANGED <<block, plan, paused, lp, funded>>

\* Mutant: the debt is not reset.
EmergencyWithdrawKeepDebt(u) ==
  /\ paused
  /\ amount[u] # 0
  /\ amount[u] <= stakedHeld
  /\ amount' = [amount EXCEPT ![u] = 0]
  /\ stakedHeld' = stakedHeld - amount[u]
  /\ wallet' = [wallet EXCEPT ![u] = @ + amount[u]]
  /\ UNCHANGED <<block, plan, accrual, rewardDebt, paused, looks, funded>>

\* The stake comes back without its reward, and the pool is not updated.
EmergencyWithdraw(u) ==
  /\ paused
  /\ amount[u] # 0
  /\ amount[u] <= stakedHeld
  /\ amount' = [amount EXCEPT ![u] = 0]
  /\ rewardDebt' = [rewardDebt EXCEPT ![u] = 0]
  /\ stakedHeld' = stakedHeld - amount[u]
  /\ wallet' = [wallet EXCEPT ![u] = @ + amount[u]]
  /\ UNCHANGED <<block, plan, accrual, paused, looks, funded>>

Withdraw(u, n) ==
  /\ n > 0
  /\ n <= amount[u]
  /\ UpdatePool
  /\ PayLooks(Pending(u, accTokenPerShare'))
  /\ Settle(u, amount[u] - n)
  /\ n <= stakedHeld
  /\ stakedHeld' = stakedHeld - n
  /\ wallet' = [wallet EXCEPT ![u] = @ + n]
  /\ UNCHANGED <<block, plan, paused, funded>>

\* LP tokens sent to the pool without a deposit.
SendStaked(u, n) ==
  /\ n <= wallet[u]
  /\ stakedHeld' = stakedHeld + n
  /\ wallet' = [wallet EXCEPT ![u] = @ - n]
  /\ UNCHANGED <<block, plan, accrual, stakes, paused, looks, funded>>
-----------------------------------------------------------------------------
(* The transactions of the owner *)

AdminRewardWithdraw(n) ==
  /\ PayLooks(n)
  /\ UNCHANGED <<block, plan, accrual, stakes, paused, lp, funded>>

Pause ==
  /\ ~paused
  /\ paused' = TRUE
  /\ UNCHANGED <<block, plan, accrual, stakes, lp, looks, funded>>

Unpause ==
  /\ paused
  /\ paused' = FALSE
  /\ UNCHANGED <<block, plan, accrual, stakes, lp, looks, funded>>

\* Mutant: the pool is not brought up to date at the old rate.
UpdateRewardUnsettled(newRewardPerBlock, newEndBlock) ==
  /\ newEndBlock > block
  /\ newEndBlock > START_BLOCK
  /\ endBlock' = newEndBlock
  /\ rewardPerBlock' = newRewardPerBlock
  /\ UNCHANGED <<block, accrual, stakes, paused, lp, looks, funded>>

UpdateRewardPerBlockAndEndBlock(newRewardPerBlock, newEndBlock) ==
  /\ IF block >= START_BLOCK THEN UpdatePool ELSE UNCHANGED accrual
  /\ newEndBlock > block
  /\ newEndBlock > START_BLOCK
  /\ endBlock' = newEndBlock
  /\ rewardPerBlock' = newRewardPerBlock
  /\ UNCHANGED <<block, stakes, paused, lp, looks, funded>>

\* The owner sends LOOKS to the pool.
Fund(n) ==
  /\ funded + n <= MaxLooks
  /\ funded' = funded + n
  /\ looks' = looks + n
  /\ UNCHANGED <<block, plan, accrual, stakes, paused, lp>>

NextBlock ==
  /\ block < MaxBlock
  /\ block' = block + 1
  /\ UNCHANGED <<plan, accrual, stakes, paused, lp, looks, funded>>

StakerNext ==
  \E u \in User :
    \/ Harvest(u)
    \/ EmergencyWithdraw(u)
    \/ \E n \in 1..wallet[u] : Deposit(u, n)
    \/ \E n \in 1..stakedHeld : Withdraw(u, n)
    \/ \E n \in 1..wallet[u] : SendStaked(u, n)

TreasuryNext ==
  \/ Pause
  \/ Unpause
  \/ \E n \in Fundings : Fund(n) \/ AdminRewardWithdraw(n)

Replan == \E r \in Rates, e \in 1..MaxBlock : UpdateRewardPerBlockAndEndBlock(r, e)

PoolNext == StakerNext \/ TreasuryNext \/ Replan \/ NextBlock

PoolSpec == PoolInit /\ [][PoolNext]_poolVars
-----------------------------------------------------------------------------
(* calculatePendingRewards *)
CalculatePendingRewards == [u \in User |-> Pending(u, AdjustedTokenPerShare)]
-----------------------------------------------------------------------------
(* Properties *)

\* The type of every variable.
PoolTypeOK ==
  /\ block \in Nat
  /\ accTokenPerShare \in Nat
  /\ endBlock \in Nat
  /\ lastRewardBlock \in Nat
  /\ rewardPerBlock \in Nat
  /\ amount \in [User -> Nat]
  /\ rewardDebt \in [User -> Nat]
  /\ paused \in BOOLEAN
  /\ stakedHeld \in Nat
  /\ wallet \in [User -> Nat]
  /\ looks \in Nat
  /\ funded \in Nat

\* The pool holds every LP token its accounts say it holds, through any mix of
\* deposits, withdrawals, emergencies and tokens sent by mistake, so every
\* stake can be paid out, and no accumulator step gives out more than the
\* reward it divides.
StakesHeld == SumOver(amount, User) <= stakedHeld

\* No debt exceeds what the stake has earned, also after an emergency and a
\* new deposit: the checked subtractions never revert.
DebtCovered == \A u \in User : Pending(u, accTokenPerShare) >= 0

\* No stake is locked: the tokens are there and the reward can be computed.
StakesSound == StakesHeld /\ DebtCovered

\* What the view shows a user is only ever taken from it by its own
\* transactions: neither another user, in the same block or later, nor a new
\* rate or end block lowers it.  (LP tokens sent without a deposit do: they
\* enter the divisor of a reward not yet credited.)
ShownRewardKept ==
  [][(\A u \in User : \A n \in 1..wallet[u] : ~SendStaked(u, n))
       => \A u \in User :
            amount'[u] = amount[u] /\ rewardDebt'[u] = rewardDebt[u]
              => CalculatePendingRewards'[u] >= CalculatePendingRewards[u]]_poolVars
=============================================================================

-------------------- MODULE VestingContractWithFeeSharing --------------------
(***************************************************************************)
(* VestingContractWithFeeSharing.sol: LOOKS arrive over time (its part of   *)
(* what the TokenSplitter releases) and its owner may take a given amount   *)
(* of them per period; what a period could not give is added to the next.   *)
(* After the last period, the owner may take everything.                    *)
(***************************************************************************)
EXTENDS BlockNumber

CONSTANTS
  VESTING_BETWEEN_PERIODS_IN_BLOCKS,
  START_BLOCK,
  NUMBER_UNLOCK_PERIODS,
  STANDARD_AMOUNT_UNLOCKED_AT_EACH_UNLOCK,
  Receipts,       \* amounts in which LOOKS arrive
  MaxReceived,    \* bound on the LOOKS that arrive
  MaxOther        \* bound on the other currency it holds

ASSUME VestingAssumption ==
  /\ VESTING_BETWEEN_PERIODS_IN_BLOCKS \in Nat
  /\ START_BLOCK \in Nat
  /\ NUMBER_UNLOCK_PERIODS \in Nat
  /\ STANDARD_AMOUNT_UNLOCKED_AT_EACH_UNLOCK \in Nat
  /\ Receipts \subseteq Nat
  /\ MaxReceived \in Nat
  /\ MaxOther \in Nat
  /\ MaxBlock \in Nat

VARIABLES
  maxAmountToWithdrawForNextPeriod,
  nextBlockForUnlock,
  numberPastUnlocks,
  balance,          \* LOOKS held by the contract
  unlocked,         \* LOOKS it has sent to its owner
  otherBalance      \* its balance of another currency (WETH of fee sharing)

unlocking   == <<maxAmountToWithdrawForNextPeriod, nextBlockForUnlock, numberPastUnlocks>>
vestingVars == <<block, unlocking, balance, unlocked, otherBalance>>

VestingInit ==
  /\ block = 0
  /\ maxAmountToWithdrawForNextPeriod = STANDARD_AMOUNT_UNLOCKED_AT_EACH_UNLOCK
  /\ nextBlockForUnlock = START_BLOCK + VESTING_BETWEEN_PERIODS_IN_BLOCKS
  /\ numberPastUnlocks = 0
  /\ balance = 0
  /\ unlocked = 0
  /\ otherBalance = 0
-----------------------------------------------------------------------------
\* Whether the contract lacks part of what the period may give.
Short == balance < maxAmountToWithdrawForNextPeriod

BalanceToWithdraw == IF Short THEN balance ELSE maxAmountToWithdrawForNextPeriod

\* Mutant: what is missing is not carried over.
NextMaximumForgotten == STANDARD_AMOUNT_UNLOCKED_AT_EACH_UNLOCK

\* The maximum of the next period.
NextMaximum ==
  IF Short
  THEN maxAmountToWithdrawForNextPeriod + (maxAmountToWithdrawForNextPeriod - balance)
  ELSE STANDARD_AMOUNT_UNLOCKED_AT_EACH_UNLOCK

Send(n) ==
  /\ balance' = balance - n
  /\ unlocked' = unlocked + n

\* Mutant: the block is not checked.
UnlockPeriodEarly ==
  /\ numberPastUnlocks < NUMBER_UNLOCK_PERIODS
  /\ nextBlockForUnlock' = nextBlockForUnlock + VESTING_BETWEEN_PERIODS_IN_BLOCKS
  /\ numberPastUnlocks' = numberPastUnlocks + 1
  /\ maxAmountToWithdrawForNextPeriod' = NextMaximum
  /\ Send(BalanceToWithdraw)
  /\ UNCHANGED <<block, otherBalance>>

\* Mutant: the last period is never unlocked.
UnlockPeriodOneLess ==
  /\ numberPastUnlocks + 1 < NUMBER_UNLOCK_PERIODS
  /\ block >= nextBlockForUnlock
  /\ nextBlockForUnlock' = nextBlockForUnlock + VESTING_BETWEEN_PERIODS_IN_BLOCKS
  /\ numberPastUnlocks' = numberPastUnlocks + 1
  /\ maxAmountToWithdrawForNextPeriod' = NextMaximum
  /\ Send(BalanceToWithdraw)
  /\ UNCHANGED <<block, otherBalance>>

\* unlockLooksRareToken while periods are left.
UnlockPeriod ==
  /\ numberPastUnlocks < NUMBER_UNLOCK_PERIODS
  /\ block >= nextBlockForUnlock
  /\ nextBlockForUnlock' = nextBlockForUnlock + VESTING_BETWEEN_PERIODS_IN_BLOCKS
  /\ numberPastUnlocks' = numberPastUnlocks + 1
  /\ maxAmountToWithdrawForNextPeriod' = NextMaximum
  /\ Send(BalanceToWithdraw)
  /\ UNCHANGED <<block, otherBalance>>

\* unlockLooksRareToken after the last period.
UnlockRest ==
  /\ numberPastUnlocks = NUMBER_UNLOCK_PERIODS
  /\ Send(balance)
  /\ UNCHANGED <<block, unlocking, otherBalance>>

WithdrawOtherCurrency ==
  /\ otherBalance # 0
  /\ otherBalance' = 0
  /\ UNCHANGED <<block, unlocking, balance, unlocked>>

Receive(n) ==
  /\ balance + unlocked + n <= MaxReceived
  /\ balance' = balance + n
  /\ UNCHANGED <<block, unlocking, unlocked, otherBalance>>

ReceiveOther(n) ==
  /\ otherBalance + n <= MaxOther
  /\ otherBalance' = otherBalance + n
  /\ UNCHANGED <<block, unlocking, balance, unlocked>>

VestingBlock ==
  /\ PassBlock
  /\ UNCHANGED <<unlocking, balance, unlocked, otherBalance>>

VestingNext ==
  \/ UnlockPeriod
  \/ UnlockRest
  \/ WithdrawOtherCurrency
  \/ \E n \in Receipts : Receive(n) \/ ReceiveOther(n)
  \/ VestingBlock

VestingSpec == VestingInit /\ [][VestingNext]_vestingVars
-----------------------------------------------------------------------------
(* Properties *)

\* The amount a linear schedule has given after k periods.
LinearBy(k) == k * STANDARD_AMOUNT_UNLOCKED_AT_EACH_UNLOCK

\* The type of every variable.
VestingTypeOK ==
  /\ block \in Nat
  /\ maxAmountToWithdrawForNextPeriod \in Nat
  /\ nextBlockForUnlock \in Nat
  /\ numberPastUnlocks \in 0..NUMBER_UNLOCK_PERIODS
  /\ balance \in Nat
  /\ unlocked \in Nat
  /\ otherBalance \in Nat

\* However little arrived in whichever periods, what was unlocked and the
\* maximum of the next period together reach the linear schedule: a period
\* that could not give its amount never costs the owner anything for good.
NeverBehind ==
  LinearBy(numberPastUnlocks + 1) <= unlocked + maxAmountToWithdrawForNextPeriod

\* No number of late or missed unlocks lets the owner unlock twice for the
\* same period: unlocks are never ahead of the blocks.
UnlocksPaced ==
  numberPastUnlocks > 0
    => block >= START_BLOCK + numberPastUnlocks * VESTING_BETWEEN_PERIODS_IN_BLOCKS

\* The owner neither loses an amount for good nor unlocks ahead of time.
OnSchedule == NeverBehind /\ UnlocksPaced
=============================================================================

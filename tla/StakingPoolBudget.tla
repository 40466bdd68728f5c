-------------------------- MODULE StakingPoolBudget --------------------------
(***************************************************************************)
(* What StakingPoolForUniswapV2Tokens promises against what it gives.  The  *)
(* history variables add up the reward of every block that passed before    *)
(* the end block of its time, the reward the updates credited, the LOOKS    *)
(* users were paid, and the number of settlements: each rounds a debt down  *)
(* and may leave its account part of a unit that was not credited.          *)
(***************************************************************************)
EXTENDS StakingPoolForUniswapV2Tokens

CONSTANT MaxSettlements    \* bound on the history variable

VARIABLES granted, credited, paid, settlements

budgetVars == <<poolVars, granted, credited, paid, settlements>>

BudgetInit ==
  /\ PoolInit
  /\ granted = 0
  /\ credited = 0
  /\ paid = 0
  /\ settlements = 0

\* A block passes: if the rewards have started and not ended, it is due one.
GrantBlock ==
  /\ NextBlock
  /\ granted' = IF START_BLOCK <= block /\ block < endBlock THEN granted + rewardPerBlock ELSE granted
  /\ UNCHANGED <<credited, paid, settlements>>

\* Whether the step brings the pool up to date.
Updates == accTokenPerShare' # accTokenPerShare \/ lastRewardBlock' # lastRewardBlock

Credit == credited' = IF Updates THEN credited + TokenReward ELSE credited

CountedStakerNext ==
  /\ StakerNext
  /\ Credit
  /\ paid' = paid + looks - looks'
  /\ settlements' = IF stakes' = stakes THEN settlements ELSE settlements + 1
  /\ settlements' <= MaxSettlements
  /\ UNCHANGED granted

CountedReplan ==
  /\ Replan
  /\ Credit
  /\ UNCHANGED <<granted, paid, settlements>>

UncountedNext == TreasuryNext /\ UNCHANGED <<granted, credited, paid, settlements>>

BudgetNext == GrantBlock \/ CountedStakerNext \/ CountedReplan \/ UncountedNext

BudgetSpec == BudgetInit /\ [][BudgetNext]_budgetVars

\* The owner plans the next rewards before anyone has updated the pool past
\* the end of the last.
TimelyReplan == lastRewardBlock <= endBlock /\ CountedReplan

TimelyNext == GrantBlock \/ CountedStakerNext \/ TimelyReplan \/ UncountedNext

TimelySpec == BudgetInit /\ [][TimelyNext]_budgetVars
-----------------------------------------------------------------------------
\* What u is owed, in fractions of PRECISION_FACTOR.
Owed(u) == amount[u] * accTokenPerShare - PRECISION_FACTOR * rewardDebt[u]

\* The users' rewards, paid and pending, come out of the credited ones but
\* for less than one unit per settlement: no order of deposits, harvests,
\* withdrawals and emergencies pays a reward twice.
PaidOutOfCredited ==
  PRECISION_FACTOR * paid + SumOver([u \in User |-> Owed(u)], User)
    <= PRECISION_FACTOR * credited + (PRECISION_FACTOR - 1) * settlements

\* Rewards end at the end block: what the pool has credited, and what its
\* next update would, never exceeds the rewards of the blocks that passed
\* before the end block in force at the time, each at the rate in force at
\* the time, so LOOKS for those blocks are all the owner needs to provide.
CreditedWithinGrant == credited + TokenReward <= granted
=============================================================================

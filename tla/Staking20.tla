----------------------------- MODULE Staking20 -----------------------------
(***************************************************************************)
(* Staking20.sol and Staking20Base.sol: users stake amounts of one ERC20    *)
(* token and earn, per time unit, a ratio of them in another.  Either has a *)
(* number of decimals, which the constructor asks the token for; the native *)
(* token, which has no code to ask, is therefore neither of them.  A token  *)
(* may keep a fee of what is transferred: what counts is what arrives.      *)
(*                                                                          *)
(* The last part counts, by the second, what a staker should get.           *)
(***************************************************************************)
EXTENDS Lists, RewardPot, Sums

CONSTANTS
  User,
  InitialWallet,     \* the staking tokens of each user
  StakeAmounts,      \* amounts of a stake, a withdrawal or a transfer
  Received,          \* what arrives of each of them
  InitialCondition,  \* arguments of the constructor: time unit and ratio
  TimeUnits,         \* what the owner may set
  Ratios,            \*   numerator and denominator
  REWARD_UNIT,       \* 10 ** rewardTokenDecimals
  STAKING_UNIT,      \* 10 ** stakingTokenDecimals
  UINT_MAX,          \* 2^256 - 1
  SCALE,             \* a common multiple of time units times denominators
  MaxConditions,     \* bounds on the list of conditions and on time
  MaxTime

VARIABLES
  now,                  \* block.timestamp
  stakingConditions,    \* condition number i at index i + 1
  stakingTokenBalance,
  stakersArray,
  stakers,
  heldStakes,           \* stakingToken.balanceOf(address(this))
  wallet,               \* and of each user
  owed                  \* SCALE * STAKING_UNIT times what u earned and was not paid

stakeVars == <<stakingTokenBalance, stakersArray, heldStakes, wallet>>
vars20    == <<now, stakingConditions, stakeVars, stakers, pot, owed>>

NewCondition(timeUnit, ratio) ==
  [timeUnit |-> timeUnit, numerator |-> ratio[1], denominator |-> ratio[2],
   startTimestamp |-> now, endTimestamp |-> 0]

Init20 ==
  /\ now = 1
  /\ stakingConditions = <<NewCondition(InitialCondition[1], InitialCondition[2])>>
  /\ stakingTokenBalance = 0
  /\ stakersArray = <<>>
  /\ stakers = [u \in User |-> [conditionId |-> 0, amount |-> 0, time |-> 0, unclaimed |-> 0]]
  /\ heldStakes = 0
  /\ wallet = InitialWallet
  /\ owed = [u \in User |-> 0]
  /\ PotInit
-----------------------------------------------------------------------------
Current == Len(stakingConditions) - 1

Seconds(u, i) ==
  LET condition == stakingConditions[i + 1]
  IN (IF condition.endTimestamp # 0 THEN condition.endTimestamp ELSE now)
       - (IF i # stakers[u].conditionId THEN condition.startTimestamp ELSE stakers[u].time)

\* What condition i adds, which is nothing before the one in the record, or if
\* the product overflows.
Part(u, i) ==
  LET condition == stakingConditions[i + 1]
      product == Seconds(u, i) * stakers[u].amount * condition.numerator
  IN IF i >= stakers[u].conditionId /\ product <= UINT_MAX
     THEN (product \div condition.timeUnit) \div condition.denominator
     ELSE 0

\* _calculateRewards: the parts of all conditions since the last settlement,
\* those that overflow skipped, and their sum converted between the decimals
\* of the two tokens, or 0 if that overflows.
CalculateRewards(u) ==
  LET parts == [i \in 0..Current |-> Part(u, i)]
      sum == CheckedSum(parts, Current + 1, UINT_MAX)[Current + 1] * REWARD_UNIT
  IN IF sum <= UINT_MAX THEN sum \div STAKING_UNIT ELSE 0

AvailableRewards(u) ==
  IF stakers[u].amount = 0
  THEN stakers[u].unclaimed
  ELSE stakers[u].unclaimed + CalculateRewards(u)

Settleable(u) ==
  /\ \A i \in stakers[u].conditionId..Current :
       /\ Seconds(u, i) >= 0
       /\ Seconds(u, i) * stakers[u].amount <= UINT_MAX
  /\ stakers[u].unclaimed + CalculateRewards(u) <= UINT_MAX

Marked(r) == [r EXCEPT !.time = now, !.conditionId = Current]
Settled(u) == Marked([stakers[u] EXCEPT !.unclaimed = @ + CalculateRewards(u)])
-----------------------------------------------------------------------------
\* Mutant: the amount asked for is counted, whatever arrives.
ActualAmountAsked(n) == n

\* actualAmount: by how much a transfer of n raises the contract's balance.
ActualAmount(n) == Received[n]

Stake(u, n) ==
  LET first == stakers[u].amount = 0
      staker == IF first THEN Marked(stakers[u]) ELSE Settled(u)
  IN
  /\ n # 0
  /\ n <= wallet[u]
  /\ first \/ Settleable(u)
  /\ stakersArray' = IF first THEN Append(stakersArray, u) ELSE stakersArray
  /\ stakers' = [stakers EXCEPT ![u] = [staker EXCEPT !.amount = @ + ActualAmount(n)]]
  /\ stakingTokenBalance' = stakingTokenBalance + ActualAmount(n)
  /\ heldStakes' = heldStakes + Received[n]
  /\ wallet' = [wallet EXCEPT ![u] = @ - n]
  /\ UNCHANGED <<now, stakingConditions, pot, owed>>

Withdraw(u, n) ==
  /\ n # 0
  /\ n <= stakers[u].amount
  /\ Settleable(u)
  /\ n <= heldStakes
  /\ stakersArray' = IF n = stakers[u].amount THEN SwapPop(stakersArray, u) ELSE stakersArray
  /\ stakers' = [stakers EXCEPT ![u] = [Settled(u) EXCEPT !.amount = @ - n]]
  /\ stakingTokenBalance' = stakingTokenBalance - n
  /\ heldStakes' = heldStakes - n
  /\ wallet' = [wallet EXCEPT ![u] = @ + Received[n]]
  /\ UNCHANGED <<now, stakingConditions, pot, owed>>

ClaimRewards(u) ==
  LET rewards == stakers[u].unclaimed + CalculateRewards(u)
  IN
  /\ Settleable(u)
  /\ rewards # 0
  /\ stakers' = [stakers EXCEPT ![u] = Marked([@ EXCEPT !.unclaimed = 0])]
  /\ MintRewards(rewards)
  /\ owed' = [owed EXCEPT ![u] = @ - SCALE * STAKING_UNIT * rewards]
  /\ UNCHANGED <<now, stakingConditions, stakeVars>>

\* Staking tokens are sent to the contract, but not staked.
SendStakingTokens(u, n) ==
  /\ n <= wallet[u]
  /\ heldStakes' = heldStakes + Received[n]
  /\ wallet' = [wallet EXCEPT ![u] = @ - n]
  /\ UNCHANGED <<now, stakingConditions, stakingTokenBalance, stakersArray, stakers, pot, owed>>
-----------------------------------------------------------------------------
SetStakingCondition(timeUnit, ratio) ==
  /\ ratio[2] # 0
  /\ timeUnit # 0
  /\ Len(stakingConditions) < MaxConditions
  /\ stakingConditions' =
       Append([stakingConditions EXCEPT ![Len(stakingConditions)].endTimestamp = now],
              NewCondition(timeUnit, ratio))

SetTimeUnit(timeUnit) ==
  LET condition == Last(stakingConditions) IN
  /\ timeUnit # condition.timeUnit
  /\ SetStakingCondition(timeUnit, <<condition.numerator, condition.denominator>>)

SetRewardRatio(ratio) ==
  LET condition == Last(stakingConditions) IN
  /\ ratio # <<condition.numerator, condition.denominator>>
  /\ SetStakingCondition(condition.timeUnit, ratio)

ConditionNext ==
  /\ \/ \E timeUnit \in TimeUnits : SetTimeUnit(timeUnit)
     \/ \E ratio \in Ratios : SetRewardRatio(ratio)
  /\ UNCHANGED <<now, stakeVars, stakers, pot, owed>>

\* withdrawRewardTokens looks at the stakes, though it moves the other token.
WithdrawRewardTokens20(n) ==
  /\ WithdrawRewardTokens(n)
  /\ heldStakes >= stakingTokenBalance

RewardsNext ==
  /\ \E n \in Amounts :
       DepositRewardTokens(n) \/ WithdrawRewardTokens20(n) \/ SendRewardTokens(n)
  /\ UNCHANGED <<now, stakingConditions, stakeVars, stakers, owed>>
-----------------------------------------------------------------------------
\* What the stake of u earns in a second, by the condition in force.
PerSecond(u) ==
  LET condition == Last(stakingConditions)
      divisor == condition.timeUnit * condition.denominator
  IN REWARD_UNIT * (stakers[u].amount * condition.numerator * (SCALE \div divisor))

Tick ==
  /\ now < MaxTime
  /\ now' = now + 1
  /\ owed' = [u \in User |-> owed[u] + PerSecond(u)]
  /\ UNCHANGED <<stakingConditions, stakeVars, stakers, pot>>

StakerNext(u) ==
  \/ \E n \in StakeAmounts : Stake(u, n) \/ Withdraw(u, n) \/ SendStakingTokens(u, n)
  \/ ClaimRewards(u)

Next20 ==
  \/ Tick
  \/ \E u \in User : StakerNext(u)
  \/ ConditionNext
  \/ RewardsNext

Spec20 == Init20 /\ [][Next20]_vars20
-----------------------------------------------------------------------------
(* Properties *)

\* Each staker is listed once, though entries are overwritten and popped; its
\* record is in range of the conditions and not ahead of one, so that no
\* settlement underflows and locks the stake; and the contract holds what the
\* records say it owes, though tokens arrive with a fee or without a stake.
RecordsAgree ==
  /\ IsInjective(stakersArray)
  /\ ToSet(stakersArray) = {u \in User : stakers[u].amount > 0}
  /\ \A u \in User :
       /\ stakers[u].conditionId <= Current
       /\ \A i \in stakers[u].conditionId..Current : Seconds(u, i) >= 0
  /\ stakingTokenBalance = SumOver([u \in User |-> stakers[u].amount], User)
  /\ stakingTokenBalance <= heldStakes

\* No second is paid twice or by a ratio that was not in force, whatever the
\* two divisions round and the decimals of the two tokens convert.
PaidByTheSecond ==
  \A u \in User : SCALE * STAKING_UNIT * AvailableRewards(u) <= owed[u]
=============================================================================

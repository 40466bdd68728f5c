---------------------------- MODULE Staking1155 ----------------------------
(***************************************************************************)
(* Staking1155.sol and Staking1155Base.sol: users stake amounts of the ids  *)
(* of a collection.  An id earns under the default conditions until it is   *)
(* given a condition of its own; from then on it has a list of its own,     *)
(* which starts as a copy of the defaults so far, and the number of the     *)
(* condition in a staker's record, taken under the defaults, is used in it. *)
(*                                                                          *)
(* The last part counts, by the second, what a staker should get.           *)
(***************************************************************************)
EXTENDS Lists, RewardPot, Sums

CONSTANTS
  User,
  Id,                            \* ids of the collection
  InitialHolding,                \* Id -> [User -> Nat]
  StakeAmounts,                  \* amounts a user may stake or withdraw
  defaultTimeUnit,               \* arguments of the constructor
  defaultRewardsPerUnitTime,
  TimeUnits,                     \* what the owner may set
  Rewards,
  UINT_MAX,                      \* 2^256 - 1
  SCALE,                         \* a common multiple of the time units
  MaxConditions,                 \* bounds on the lists of conditions and on time
  MaxTime

ASSUME Staking1155Assumption ==
  /\ IsFiniteSet(User) /\ IsFiniteSet(Id)
  /\ InitialHolding \in [Id -> [User -> Nat]]
  /\ StakeAmounts \subseteq Nat
  /\ defaultTimeUnit \in Nat \ {0}
  /\ defaultRewardsPerUnitTime \in Nat
  /\ TimeUnits \subseteq Nat
  /\ Rewards \subseteq Nat
  /\ UINT_MAX \in Nat /\ MaxConditions \in Nat /\ MaxTime \in Nat \ {0}
  /\ SCALE \in Nat \ {0}
  /\ \A d \in (TimeUnits \ {0}) \cup {defaultTimeUnit} : SCALE % d = 0

VARIABLES
  now,                  \* block.timestamp
  defaultCondition,     \* condition number i at index i + 1
  stakingConditions,    \* stakingConditions[t], likewise; empty at first
  indexedTokens,
  stakersArray,         \* stakersArray[t]
  stakers,              \* stakers[t][u]
  holding,              \* the collection's balances, those of users
  owed                  \* SCALE times what u has earned with t and was not paid

conditionVars == <<defaultCondition, stakingConditions>>
stakeVars     == <<indexedTokens, stakersArray, holding>>
vars1155      == <<now, conditionVars, stakeVars, stakers, pot, owed>>

NewCondition(timeUnit, rewardsPerUnitTime) ==
  [timeUnit |-> timeUnit, rewardsPerUnitTime |-> rewardsPerUnitTime,
   startTimestamp |-> now, endTimestamp |-> 0]

NewStaker == [conditionId |-> 0, amount |-> 0, time |-> 0, unclaimed |-> 0]

Init1155 ==
  /\ now = 1
  /\ defaultCondition = <<NewCondition(defaultTimeUnit, defaultRewardsPerUnitTime)>>
  /\ stakingConditions = [t \in Id |-> <<>>]
  /\ indexedTokens = <<>>
  /\ stakersArray = [t \in Id |-> <<>>]
  /\ stakers = [t \in Id |-> [u \in User |-> NewStaker]]
  /\ holding = InitialHolding
  /\ owed = [t \in Id |-> [u \in User |-> 0]]
  /\ PotInit
-----------------------------------------------------------------------------
(* Conditions and rewards                                                   *)

\* The conditions the id t earns under: its own, or the defaults.
ConditionsOf(t) ==
  IF stakingConditions[t] = <<>> THEN defaultCondition ELSE stakingConditions[t]

Current(t) == Len(ConditionsOf(t)) - 1

\* The conditions that a settlement of u passes.
Passed(t, u) == stakers[t][u].conditionId..Current(t)

Seconds(t, u, i) ==
  LET condition == ConditionsOf(t)[i + 1]
  IN (IF condition.endTimestamp # 0 THEN condition.endTimestamp ELSE now)
       - (IF i # stakers[t][u].conditionId
          THEN condition.startTimestamp ELSE stakers[t][u].time)

\* What condition i gives, for a number of seconds; nothing before the one in
\* the record, or if the product overflows.
Part(t, u, i) ==
  LET condition == ConditionsOf(t)[i + 1]
      product == Seconds(t, u, i) * stakers[t][u].amount * condition.rewardsPerUnitTime
  IN IF i >= stakers[t][u].conditionId /\ product <= UINT_MAX
     THEN product \div condition.timeUnit ELSE 0

\* _calculateRewards
CalculateRewards(t, u) ==
  LET n == Len(ConditionsOf(t))
      parts == [i \in 0..(n - 1) |-> Part(t, u, i)]
  IN CheckedSum(parts, n, UINT_MAX)[n]

AvailableRewards(t, u) ==
  IF stakers[t][u].amount = 0
  THEN stakers[t][u].unclaimed
  ELSE stakers[t][u].unclaimed + CalculateRewards(t, u)

\* The sums and differences of a settlement that revert.
Settleable(t, u) ==
  /\ \A i \in Passed(t, u) :
       /\ Seconds(t, u, i) >= 0
       /\ Seconds(t, u, i) * stakers[t][u].amount <= UINT_MAX
  /\ stakers[t][u].unclaimed + CalculateRewards(t, u) <= UINT_MAX

\* Mutant: a record made under the defaults is numbered from the start.
MarkedFromStart(t, r) ==
  [r EXCEPT !.time = now,
            !.conditionId = IF stakingConditions[t] = <<>> THEN 0 ELSE Current(t)]

\* The record r as of now.
Marked(t, r) == [r EXCEPT !.time = now, !.conditionId = Current(t)]

\* _updateUnclaimedRewardsForStaker
Settled(t, u) ==
  Marked(t, [stakers[t][u] EXCEPT !.unclaimed = @ + CalculateRewards(t, u)])
-----------------------------------------------------------------------------
(* The functions of the users                                               *)

Stake(t, u, n) ==
  LET first == stakers[t][u].amount = 0
      staker == IF first THEN Marked(t, stakers[t][u]) ELSE Settled(t, u)
  IN
  /\ n # 0
  /\ n <= holding[t][u]
  /\ first \/ Settleable(t, u)
  /\ stakers' = [stakers EXCEPT ![t][u] = [staker EXCEPT !.amount = @ + n]]
  /\ stakersArray' = IF first THEN [stakersArray EXCEPT ![t] = Append(@, u)] ELSE stakersArray
  /\ indexedTokens' = IF t \in ToSet(indexedTokens) THEN indexedTokens
                      ELSE Append(indexedTokens, t)
  /\ holding' = [holding EXCEPT ![t][u] = @ - n]
  /\ UNCHANGED <<now, conditionVars, pot, owed>>

Withdraw(t, u, n) ==
  /\ n # 0
  /\ n <= stakers[t][u].amount
  /\ Settleable(t, u)
  /\ stakersArray' = IF n = stakers[t][u].amount
                     THEN [stakersArray EXCEPT ![t] = SwapPop(@, u)] ELSE stakersArray
  /\ stakers' = [stakers EXCEPT ![t][u] = [Settled(t, u) EXCEPT !.amount = @ - n]]
  /\ holding' = [holding EXCEPT ![t][u] = @ + n]
  /\ UNCHANGED <<now, conditionVars, indexedTokens, pot, owed>>

ClaimRewards(t, u) ==
  LET rewards == stakers[t][u].unclaimed + CalculateRewards(t, u)
  IN
  /\ Settleable(t, u)
  /\ rewards # 0
  /\ stakers' = [stakers EXCEPT ![t][u] = Marked(t, [@ EXCEPT !.unclaimed = 0])]
  /\ MintRewards(rewards)
  /\ owed' = [owed EXCEPT ![t][u] = @ - SCALE * rewards]
  /\ UNCHANGED <<now, conditionVars, stakeVars>>
-----------------------------------------------------------------------------
(* The functions of the owner                                               *)

\* The list s whose last condition ends now and is followed by another.
Superseded(s, timeUnit, rewardsPerUnitTime) ==
  Append([s EXCEPT ![Len(s)].endTimestamp = now],
         NewCondition(timeUnit, rewardsPerUnitTime))

\* Mutant: the copied list leaves its last condition open.
SetStakingConditionOpen(t, timeUnit, rewardsPerUnitTime) ==
  /\ timeUnit # 0
  /\ Len(ConditionsOf(t)) < MaxConditions
  /\ stakingConditions' = [stakingConditions EXCEPT ![t] =
       IF @ = <<>> THEN Append(defaultCondition, NewCondition(timeUnit, rewardsPerUnitTime))
       ELSE Superseded(@, timeUnit, rewardsPerUnitTime)]
  /\ UNCHANGED defaultCondition

\* _setStakingCondition: of an id that has none yet, the defaults are copied.
SetStakingCondition(t, timeUnit, rewardsPerUnitTime) ==
  /\ timeUnit # 0
  /\ Len(ConditionsOf(t)) < MaxConditions
  /\ stakingConditions' =
       [stakingConditions EXCEPT ![t] =
          Superseded(ConditionsOf(t), timeUnit, rewardsPerUnitTime)]
  /\ UNCHANGED defaultCondition

SetTimeUnit(t, timeUnit) ==
  LET condition == Last(ConditionsOf(t)) IN
  /\ timeUnit # condition.timeUnit
  /\ SetStakingCondition(t, timeUnit, condition.rewardsPerUnitTime)

SetRewardsPerUnitTime(t, rewardsPerUnitTime) ==
  LET condition == Last(ConditionsOf(t)) IN
  /\ rewardsPerUnitTime # condition.rewardsPerUnitTime
  /\ SetStakingCondition(t, condition.timeUnit, rewardsPerUnitTime)

SetDefaultStakingCondition(timeUnit, rewardsPerUnitTime) ==
  /\ timeUnit # 0
  /\ Len(defaultCondition) < MaxConditions
  /\ defaultCondition' = Superseded(defaultCondition, timeUnit, rewardsPerUnitTime)
  /\ UNCHANGED stakingConditions

SetDefaultTimeUnit(timeUnit) ==
  LET condition == Last(defaultCondition) IN
  /\ timeUnit # condition.timeUnit
  /\ SetDefaultStakingCondition(timeUnit, condition.rewardsPerUnitTime)

SetDefaultRewardsPerUnitTime(rewardsPerUnitTime) ==
  LET condition == Last(defaultCondition) IN
  /\ rewardsPerUnitTime # condition.rewardsPerUnitTime
  /\ SetDefaultStakingCondition(condition.timeUnit, rewardsPerUnitTime)
-----------------------------------------------------------------------------
\* What t earns u in a second, by the condition in force.
PerSecond(t, u) ==
  LET condition == Last(ConditionsOf(t))
  IN stakers[t][u].amount * condition.rewardsPerUnitTime * (SCALE \div condition.timeUnit)

Tick ==
  /\ now < MaxTime
  /\ now' = now + 1
  /\ owed' = [t \in Id |-> [u \in User |-> owed[t][u] + PerSecond(t, u)]]
  /\ UNCHANGED <<conditionVars, stakeVars, stakers, pot>>

StakerNext(t, u) ==
  \/ \E n \in StakeAmounts : Stake(t, u, n) \/ Withdraw(t, u, n)
  \/ ClaimRewards(t, u)

ConditionNext ==
  /\ \/ \E t \in Id, timeUnit \in TimeUnits : SetTimeUnit(t, timeUnit)
     \/ \E t \in Id, r \in Rewards : SetRewardsPerUnitTime(t, r)
     \/ \E timeUnit \in TimeUnits : SetDefaultTimeUnit(timeUnit)
     \/ \E r \in Rewards : SetDefaultRewardsPerUnitTime(r)
  /\ UNCHANGED <<now, stakeVars, stakers, pot, owed>>

Next1155 ==
  \/ Tick
  \/ \E t \in Id, u \in User : StakerNext(t, u)
  \/ ConditionNext
  \/ PotNext /\ UNCHANGED <<now, conditionVars, stakeVars, stakers, owed>>

Spec1155 == Init1155 /\ [][Next1155]_vars1155
-----------------------------------------------------------------------------
(* Properties *)

\* No settlement reverts, also when the record was made under the defaults
\* and the id has got a list of its own, or a longer one, since.
SettleableAcrossDefaults == \A t \in Id, u \in User : Settleable(t, u)

\* Each staker of an id is listed once for it, though entries are overwritten
\* and popped, and its record points into the list the id has now.
RecordsAgree ==
  \A t \in Id :
    /\ IsInjective(stakersArray[t])
    /\ ToSet(stakersArray[t]) = {u \in User : stakers[t][u].amount > 0}
    /\ \A u \in User : stakers[t][u].conditionId <= Current(t)

\* No second is paid twice or at a rate that was not in force for the id, no
\* matter when it left the defaults and what becomes of them later.
PaidByTheSecond ==
  \A t \in Id, u \in User : SCALE * AvailableRewards(t, u) <= owed[t][u]
=============================================================================

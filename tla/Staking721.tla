----------------------------- MODULE Staking721 -----------------------------
(***************************************************************************)
(* Staking721.sol (and Staking721Optimized.sol, the same code renamed and   *)
(* annotated): users stake NFTs and earn rewardsPerUnitTime for each of     *)
(* them per timeUnit.  Rewards are settled lazily: a staker's record keeps  *)
(* when and under which condition it was last settled, and a settlement     *)
(* walks the list of conditions from there to now.                          *)
(***************************************************************************)
EXTENDS Lists, Sums

CONSTANTS
  User,
  Token,           \* the ids of the collection
  InitialOwner,    \* Token -> User
  Nobody,          \* address(0)
  Contract,        \* the staking contract, as an owner of NFTs
  TimeUnits,       \* the time units and the rewards the admin may set
  Rewards,
  UINT_MAX,        \* 2^256 - 1
  MaxConditions,   \* bounds on the list of conditions and on time
  MaxTime

ASSUME StakingAssumption ==
  /\ IsFiniteSet(User) /\ IsFiniteSet(Token)
  /\ InitialOwner \in [Token -> User]
  /\ Nobody \notin User /\ Contract \notin User /\ Contract # Nobody
  /\ TimeUnits \subseteq Nat
  /\ Rewards \subseteq Nat
  /\ UINT_MAX \in Nat /\ MaxConditions \in Nat /\ MaxTime \in Nat \ {0}

VARIABLES
  now,                     \* block.timestamp
  stakingConditions,       \* condition id i at index i + 1
  indexedTokens,           \* the array
  isIndexed,               \* the tokens mapped to true
  stakersArray,
  stakerAddress,
  amountStaked,            \* stakers[u].amountStaked, and so on
  conditionIdOflastUpdate,
  timeOfLastUpdate,
  unclaimedRewards,
  nftOwner                 \* ownerOf in the collection

index   == <<indexedTokens, isIndexed>>
stakers == <<amountStaked, conditionIdOflastUpdate, timeOfLastUpdate, unclaimedRewards>>
stakingVars == <<now, stakingConditions, index, stakersArray, stakerAddress, stakers, nftOwner>>

nextConditionId == Len(stakingConditions)
Condition(i) == stakingConditions[i + 1]

NewCondition(timeUnit, rewardsPerUnitTime) ==
  [timeUnit |-> timeUnit, rewardsPerUnitTime |-> rewardsPerUnitTime,
   startTimestamp |-> now, endTimestamp |-> 0]

StakingInit(timeUnit, rewardsPerUnitTime) ==
  /\ now = 1
  /\ timeUnit # 0
  /\ stakingConditions = <<NewCondition(timeUnit, rewardsPerUnitTime)>>
  /\ indexedTokens = <<>>
  /\ isIndexed = {}
  /\ stakersArray = <<>>
  /\ stakerAddress = [t \in Token |-> Nobody]
  /\ amountStaked = [u \in User |-> 0]
  /\ conditionIdOflastUpdate = [u \in User |-> 0]
  /\ timeOfLastUpdate = [u \in User |-> 0]
  /\ unclaimedRewards = [u \in User |-> 0]
  /\ nftOwner = InitialOwner
-----------------------------------------------------------------------------
(* _calculateRewards *)

\* Mutant: every condition is counted from the staker's last update.
StartTimeOfStaker(u, i) == timeOfLastUpdate[u]

\* The part of condition i that the settlement of u covers.
StartTime(u, i) ==
  IF i # conditionIdOflastUpdate[u] THEN Condition(i).startTimestamp ELSE timeOfLastUpdate[u]
EndTime(i) ==
  IF Condition(i).endTimestamp # 0 THEN Condition(i).endTimestamp ELSE now

\* What condition i adds to the rewards: nothing before that of the last
\* update, or if the product does not fit, which SafeMath.tryMul reports.
Part(u, i) ==
  LET product == (EndTime(i) - StartTime(u, i)) * amountStaked[u]
                   * Condition(i).rewardsPerUnitTime
  IN IF i >= conditionIdOflastUpdate[u] /\ product <= UINT_MAX
     THEN product \div Condition(i).timeUnit ELSE 0

CalculateRewards(u) ==
  LET parts == [i \in 0..(nextConditionId - 1) |-> Part(u, i)]
  IN CheckedSum(parts, nextConditionId, UINT_MAX)[nextConditionId]

\* The checked sums and differences of a settlement.
Settleable(u) ==
  /\ \A i \in conditionIdOflastUpdate[u]..(nextConditionId - 1) :
       /\ StartTime(u, i) <= EndTime(i)
       /\ (EndTime(i) - StartTime(u, i)) * amountStaked[u] <= UINT_MAX
  /\ unclaimedRewards[u] + CalculateRewards(u) <= UINT_MAX

AvailableRewards(u) ==
  IF amountStaked[u] = 0
  THEN unclaimedRewards[u]
  ELSE unclaimedRewards[u] + CalculateRewards(u)

\* Mutant: the condition of the last update is not stored.
MarkSettledClockOnly(u) ==
  /\ timeOfLastUpdate' = [timeOfLastUpdate EXCEPT ![u] = now]
  /\ UNCHANGED conditionIdOflastUpdate

\* Mutant: the record points past the last condition.
MarkSettledNext(u) ==
  /\ timeOfLastUpdate' = [timeOfLastUpdate EXCEPT ![u] = now]
  /\ conditionIdOflastUpdate' = [conditionIdOflastUpdate EXCEPT ![u] = nextConditionId]

\* The record of u is settled up to now.
MarkSettled(u) ==
  /\ timeOfLastUpdate' = [timeOfLastUpdate EXCEPT ![u] = now]
  /\ conditionIdOflastUpdate' = [conditionIdOflastUpdate EXCEPT ![u] = nextConditionId - 1]

UpdateUnclaimedRewardsForStaker(u) ==
  /\ Settleable(u)
  /\ unclaimedRewards' = [unclaimedRewards EXCEPT ![u] = @ + CalculateRewards(u)]
  /\ MarkSettled(u)
-----------------------------------------------------------------------------
(* Staking and withdrawing *)

\* The lists of tokens a call of stake may pass.
TokenLists == UNION {[1..n -> Token] : n \in 0..Cardinality(Token)}

\* The tokens that were never staked before are pushed in order.
Index(ids) ==
  /\ isIndexed' = isIndexed \cup ToSet(ids)
  /\ indexedTokens' = indexedTokens \o Filtered(ids, Token \ isIndexed)

\* The collection refuses to transfer a token that u does not own, so a list
\* with a repeated id reverts.
Stake(u, ids) ==
  /\ ids # <<>>
  /\ IsInjective(ids)
  /\ \A t \in ToSet(ids) : nftOwner[t] = u
  /\ \/ /\ amountStaked[u] > 0
        /\ UpdateUnclaimedRewardsForStaker(u)
        /\ UNCHANGED stakersArray
     \/ /\ amountStaked[u] = 0
        /\ stakersArray' = Append(stakersArray, u)
        /\ MarkSettled(u)
        /\ UNCHANGED unclaimedRewards
  /\ nftOwner' = [t \in Token |-> IF t \in ToSet(ids) THEN Contract ELSE nftOwner[t]]
  /\ stakerAddress' = [t \in Token |-> IF t \in ToSet(ids) THEN u ELSE stakerAddress[t]]
  /\ Index(ids)
  /\ amountStaked' = [amountStaked EXCEPT ![u] = @ + Len(ids)]
  /\ UNCHANGED <<now, stakingConditions>>

\* Mutant: the last staker is dropped without being moved.
RemoveStakerPop(u) == Front(stakersArray)

\* stakersArray without u, if it is there.
RemoveStaker(u) ==
  IF u \in ToSet(stakersArray) THEN SwapPop(stakersArray, u) ELSE stakersArray

\* A repeated id reverts, its stakerAddress being reset by then.
Withdraw(u, ids) ==
  /\ ids # {}
  /\ amountStaked[u] >= Cardinality(ids)
  /\ \A t \in ids : stakerAddress[t] = u /\ nftOwner[t] = Contract
  /\ UpdateUnclaimedRewardsForStaker(u)
  /\ stakersArray' = IF amountStaked[u] = Cardinality(ids) THEN RemoveStaker(u) ELSE stakersArray
  /\ amountStaked' = [amountStaked EXCEPT ![u] = @ - Cardinality(ids)]
  /\ stakerAddress' = [t \in Token |-> IF t \in ids THEN Nobody ELSE stakerAddress[t]]
  /\ nftOwner' = [t \in Token |-> IF t \in ids THEN u ELSE nftOwner[t]]
  /\ UNCHANGED <<now, stakingConditions, index>>

\* _claimRewards; _mintRewards is up to the contract that inherits.
ClaimRewards(u) ==
  /\ Settleable(u)
  /\ unclaimedRewards[u] + CalculateRewards(u) # 0
  /\ MarkSettled(u)
  /\ unclaimedRewards' = [unclaimedRewards EXCEPT ![u] = 0]
  /\ UNCHANGED <<now, stakingConditions, index, stakersArray, stakerAddress, amountStaked,
                 nftOwner>>

SetStakingCondition(timeUnit, rewardsPerUnitTime) ==
  /\ timeUnit # 0
  /\ nextConditionId < MaxConditions
  /\ stakingConditions' =
       Append([stakingConditions EXCEPT ![nextConditionId].endTimestamp = now],
              NewCondition(timeUnit, rewardsPerUnitTime))
  /\ UNCHANGED <<now, index, stakersArray, stakerAddress, stakers, nftOwner>>

SetTimeUnit(timeUnit) ==
  LET condition == Condition(nextConditionId - 1) IN
  /\ timeUnit # condition.timeUnit
  /\ SetStakingCondition(timeUnit, condition.rewardsPerUnitTime)

SetRewardsPerUnitTime(rewardsPerUnitTime) ==
  LET condition == Condition(nextConditionId - 1) IN
  /\ rewardsPerUnitTime # condition.rewardsPerUnitTime
  /\ SetStakingCondition(condition.timeUnit, rewardsPerUnitTime)

\* A transfer that does not ask the receiver: the collection lets an owner
\* send a token to anybody, the contract included.
DirectTransfer(u, t, to) ==
  /\ nftOwner[t] = u
  /\ nftOwner' = [nftOwner EXCEPT ![t] = to]
  /\ UNCHANGED <<now, stakingConditions, index, stakersArray, stakerAddress, stakers>>

Tick ==
  /\ now < MaxTime
  /\ now' = now + 1
  /\ UNCHANGED <<stakingConditions, index, stakersArray, stakerAddress, stakers, nftOwner>>
-----------------------------------------------------------------------------
\* The token list of getStakeInfo: the indexed tokens whose staker is u.
TokensStaked(u) == Filtered(indexedTokens, {t \in Token : stakerAddress[t] = u})

(* Properties *)

\* The type of every variable.
StakingTypeOK ==
  /\ now \in 1..MaxTime
  /\ stakingConditions \in Seq([timeUnit : Nat \ {0}, rewardsPerUnitTime : Nat,
                                startTimestamp : Nat, endTimestamp : Nat])
  /\ indexedTokens \in Seq(Token)
  /\ isIndexed \subseteq Token
  /\ stakersArray \in Seq(User)
  /\ stakerAddress \in [Token -> User \cup {Nobody}]
  /\ amountStaked \in [User -> Nat]
  /\ conditionIdOflastUpdate \in [User -> 0..(nextConditionId - 1)]
  /\ timeOfLastUpdate \in [User -> Nat]
  /\ unclaimedRewards \in [User -> 0..UINT_MAX]
  /\ nftOwner \in [Token -> User \cup {Contract}]

\* The array of stakers lists exactly the accounts with a stake, each once,
\* though entries are overwritten and popped when a staker leaves.
StakersListed ==
  /\ IsInjective(stakersArray)
  /\ ToSet(stakersArray) = {u \in User : amountStaked[u] > 0}

\* getStakeInfo shows every staker all of its tokens and each of them once,
\* as many as are counted for its rewards, and the contract has them all.
StakeInfoComplete ==
  \A u \in User :
    /\ Len(TokensStaked(u)) = amountStaked[u]
    /\ ToSet(TokensStaked(u)) = {t \in Token : stakerAddress[t] = u}
    /\ \A t \in ToSet(TokensStaked(u)) : nftOwner[t] = Contract

\* The three indexes of stakers and tokens, each maintained in its own way,
\* tell the same story.
IndexesAgree == StakersListed /\ StakeInfoComplete

\* No settlement reverts: every record stays in range, and the time since the
\* last settlement is never negative in any condition, so neither a change of
\* conditions nor a second one in the same second locks a stake.
AlwaysSettleable == StakingTypeOK /\ \A u \in User : Settleable(u)
=============================================================================

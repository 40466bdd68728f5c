-------------------------- MODULE Staking721Proofs --------------------------
(***************************************************************************)
(* Theorems about the NFT staking extension with its pot of rewards, for    *)
(* every collection, set of users, history of conditions and sequence of    *)
(* calls: the indexes agree, no second is paid twice or at a rate that was  *)
(* not in force and, as long as the products of amounts, seconds and rates  *)
(* fit into a word, every settlement succeeds and no second is lost.        *)
(***************************************************************************)
EXTENDS Staking721Accrual, SumTheorems

\* The tokens that u has staked.
Held(u) == {t \in Token : stakerAddress[t] = u}

\* The variables of the indexes have their types; what was ever staked is
\* indexed once, what is staked now is with the contract, and the amounts
\* count the tokens.
ListsInv ==
  /\ indexedTokens \in Seq(Token)
  /\ isIndexed \subseteq Token
  /\ stakersArray \in Seq(User)
  /\ stakerAddress \in [Token -> User \cup {Nobody}]
  /\ amountStaked \in [User -> Nat]
  /\ nftOwner \in [Token -> User \cup {Contract}]
  /\ StakersListed
  /\ IsInjective(indexedTokens) /\ ToSet(indexedTokens) = isIndexed
  /\ \A t \in Token : stakerAddress[t] # Nobody => t \in isIndexed /\ nftOwner[t] = Contract
  /\ \A u \in User : amountStaked[u] = Cardinality(Held(u))

listVars == <<index, stakersArray, stakerAddress, amountStaked, nftOwner>>
-----------------------------------------------------------------------------
(* The indexes *)

\* The tokens of a user are finitely many.
LEMMA HeldFinite ==
  ASSUME NEW U \in SUBSET Token
  PROVE  IsFiniteSet(U) /\ Cardinality(U) \in Nat
BY StakingAssumption, FS_Subset, FS_CardinalityType

\* Nothing is staked, listed or indexed at first.
LEMMA ListsInit == AccrualInit => ListsInv
<1>1. SUFFICES ASSUME AccrualInit PROVE ListsInv
  OBVIOUS
<1>2. /\ indexedTokens = <<>> /\ isIndexed = {} /\ stakersArray = <<>>
      /\ stakerAddress = [t \in Token |-> Nobody]
      /\ amountStaked = [u \in User |-> 0] /\ nftOwner = InitialOwner
  BY <1>1 DEF AccrualInit, BaseInit, StakingInit
<1>3. InitialOwner \in [Token -> User] /\ Nobody \notin User
  BY StakingAssumption
<1>4. ToSet(<<>>) = {} /\ IsInjective(<<>>)
  BY DEF ToSet, IsInjective
<1>5. \A u \in User : Held(u) = {}
  BY <1>2, <1>3 DEF Held
<1>6. \A u \in User : amountStaked[u] = Cardinality(Held(u))
  BY <1>2, <1>5, FS_EmptySet
<1>7. StakersListed
  BY <1>2, <1>4 DEF StakersListed
<1>8. nftOwner \in [Token -> User \cup {Contract}]
  BY <1>2, <1>3
<1> QED BY <1>2, <1>4, <1>6, <1>7, <1>8 DEF ListsInv

\* The tokens of a list of new stakes join those of their staker; those of
\* the others stay.
LEMMA StakeKeepsLists ==
  ASSUME ListsInv, NEW u \in User, NEW ids \in TokenLists, Stake(u, ids)
  PROVE  ListsInv'
<1> DEFINE N == ToSet(ids)
<1>1. ids \in Seq(Token) /\ ids # <<>> /\ IsInjective(ids) /\ \A t \in N : nftOwner[t] = u
  <2>1. PICK n \in Nat : ids \in [1..n -> Token]
    BY DEF TokenLists
  <2> QED BY <2>1 DEF Stake
<1>2. N \in SUBSET Token
  BY <1>1 DEF ToSet
<1>3. IsFiniteSet(N) /\ Cardinality(N) = Len(ids) /\ Len(ids) \in Nat \ {0}
  BY <1>1, InjectiveLen
<1>4. /\ stakerAddress' = [t \in Token |-> IF t \in N THEN u ELSE stakerAddress[t]]
      /\ nftOwner' = [t \in Token |-> IF t \in N THEN Contract ELSE nftOwner[t]]
      /\ isIndexed' = isIndexed \cup N
      /\ indexedTokens' = indexedTokens \o Filtered(ids, Token \ isIndexed)
      /\ amountStaked' = [amountStaked EXCEPT ![u] = @ + Len(ids)]
      /\ stakersArray' = IF amountStaked[u] > 0 THEN stakersArray ELSE Append(stakersArray, u)
  <2>1. amountStaked[u] \in Nat
    BY DEF ListsInv
  <2> QED BY <2>1 DEF Stake, Index
<1> HIDE DEF N
<1>5. u # Nobody /\ u # Contract
  BY StakingAssumption
<1>6. \A t \in N : stakerAddress[t] = Nobody
  BY <1>1, <1>2, <1>5 DEF ListsInv
<1>7. /\ stakerAddress' \in [Token -> User \cup {Nobody}]
      /\ nftOwner' \in [Token -> User \cup {Contract}]
      /\ isIndexed' \subseteq Token
      /\ amountStaked' \in [User -> Nat]
  <2>1. stakerAddress' \in [Token -> User \cup {Nobody}]
    BY <1>4 DEF ListsInv
  <2>2. nftOwner' \in [Token -> User \cup {Contract}]
    BY <1>4 DEF ListsInv
  <2>3. isIndexed' \subseteq Token
    BY <1>2, <1>4 DEF ListsInv
  <2>4. amountStaked' \in [User -> Nat]
    BY <1>3, <1>4 DEF ListsInv
  <2> QED BY <2>1, <2>2, <2>3, <2>4
<1>8. /\ indexedTokens' \in Seq(Token)
      /\ IsInjective(indexedTokens') /\ ToSet(indexedTokens') = isIndexed'
  <2> DEFINE F == Filtered(ids, Token \ isIndexed)
  <2>1. F \in Seq(Token) /\ ToSet(F) = N \cap (Token \ isIndexed) /\ IsInjective(F)
    BY <1>1, FilteredSet DEF N
  <2>2. /\ indexedTokens \in Seq(Token) /\ IsInjective(indexedTokens)
        /\ ToSet(indexedTokens) = isIndexed
    BY DEF ListsInv
  <2> HIDE DEF F
  <2>3. ToSet(indexedTokens) \cap ToSet(F) = {}
    BY <2>1, <2>2
  <2>4. /\ ToSet(indexedTokens \o F) = isIndexed \cup ToSet(F)
        /\ IsInjective(indexedTokens \o F)
    BY <2>1, <2>2, <2>3, ConcatSet
  <2>5. indexedTokens' = indexedTokens \o F
    BY <1>4 DEF F
  <2>6. isIndexed \cup ToSet(F) = isIndexed'
    <3>1. \A x : x \in isIndexed \cup ToSet(F) <=> x \in isIndexed \cup N
      BY <1>2, <2>1
    <3>2. isIndexed \cup ToSet(F) = isIndexed \cup N
      BY <3>1
    <3>3. isIndexed' = isIndexed \cup N
      BY <1>4, Zenon
    <3> QED BY <3>2, <3>3, Zenon
  <2>7. indexedTokens' \in Seq(Token)
    BY <2>1, <2>2, <2>5
  <2>8. IsInjective(indexedTokens')
    BY <2>4, <2>5, Zenon
  <2>9. ToSet(indexedTokens') = isIndexed'
    BY <2>4, <2>5, <2>6, Zenon
  <2> QED BY <2>7, <2>8, <2>9
<1>9. \A t \in Token : stakerAddress'[t] # Nobody => t \in isIndexed' /\ nftOwner'[t] = Contract
  BY <1>4 DEF ListsInv
<1>10. \A v \in User : amountStaked'[v] = Cardinality(Held(v)')
  <2>1. SUFFICES ASSUME NEW v \in User PROVE amountStaked'[v] = Cardinality(Held(v)')
    OBVIOUS
  <2>2. amountStaked[v] = Cardinality(Held(v))
    BY DEF ListsInv
  <2>3. CASE v # u
    <3>1. Held(v)' = Held(v)
      BY <1>2, <1>4, <1>6, <2>3, StakingAssumption DEF Held, ListsInv
    <3> QED BY <1>4, <2>2, <2>3, <3>1 DEF ListsInv
  <2>4. CASE v = u
    <3>1. Held(u)' = Held(u) \cup N /\ Held(u) \cap N = {}
      BY <1>2, <1>4, <1>5, <1>6 DEF Held
    <3>2. Held(u) \in SUBSET Token
      BY DEF Held
    <3>3. IsFiniteSet(Held(u)) /\ Cardinality(Held(u)) \in Nat
      BY <3>2, HeldFinite
    <3>4. Cardinality(Held(u)') = Cardinality(Held(u)) + Len(ids)
      <4>1. Cardinality(Held(u) \cap N) = 0
        BY <3>1, FS_EmptySet
      <4>2. Cardinality(Held(u) \cup N)
              = Cardinality(Held(u)) + Cardinality(N) - Cardinality(Held(u) \cap N)
        BY <1>3, <3>3, FS_Union
      <4> QED BY <1>3, <3>1, <3>3, <4>1, <4>2
    <3> QED BY <1>4, <2>2, <2>4, <3>4 DEF ListsInv
  <2> QED BY <2>3, <2>4
<1>11. stakersArray' \in Seq(User) /\ StakersListed'
  <2>1. /\ stakersArray \in Seq(User) /\ IsInjective(stakersArray)
        /\ ToSet(stakersArray) = {v \in User : amountStaked[v] > 0}
        /\ amountStaked \in [User -> Nat]
    BY DEF ListsInv, StakersListed
  <2>2. {v \in User : amountStaked'[v] > 0} = ToSet(stakersArray) \cup {u}
    BY <1>3, <1>4, <2>1
  <2>3. CASE amountStaked[u] > 0
    <3>1. stakersArray' = stakersArray /\ u \in ToSet(stakersArray)
      BY <1>4, <2>1, <2>3
    <3> QED BY <2>1, <2>2, <3>1 DEF StakersListed
  <2>4. CASE ~(amountStaked[u] > 0)
    <3>1. stakersArray' = Append(stakersArray, u) /\ u \notin ToSet(stakersArray)
      BY <1>4, <2>1, <2>4
    <3>2. IsInjective(stakersArray')
      BY <2>1, <3>1, PushInjective
    <3>3. ToSet(stakersArray') = ToSet(stakersArray) \cup {u}
      BY <2>1, <3>1, AppendSet
    <3> QED BY <2>1, <2>2, <3>1, <3>2, <3>3 DEF StakersListed
  <2> QED BY <2>3, <2>4
<1> QED BY <1>7, <1>8, <1>9, <1>10, <1>11, Zenon DEF ListsInv

\* Withdrawn tokens leave the stakes of their staker, who leaves the list with
\* the last of them.
LEMMA WithdrawKeepsLists ==
  ASSUME ListsInv, NEW u \in User, NEW ids \in SUBSET Token, Withdraw(u, ids)
  PROVE  ListsInv'
<1>1. /\ IsFiniteSet(ids) /\ Cardinality(ids) \in Nat /\ Cardinality(ids) # 0
      /\ Cardinality(ids) <= amountStaked[u]
      /\ \A t \in ids : stakerAddress[t] = u
  <2>1. IsFiniteSet(ids) /\ Cardinality(ids) \in Nat
    BY HeldFinite
  <2>2. ids # {} /\ Cardinality(ids) <= amountStaked[u] /\ \A t \in ids : stakerAddress[t] = u
    BY <2>1 DEF Withdraw, ListsInv
  <2> QED BY <2>1, <2>2, FS_EmptySet
<1>2. /\ stakerAddress' = [t \in Token |-> IF t \in ids THEN Nobody ELSE stakerAddress[t]]
      /\ nftOwner' = [t \in Token |-> IF t \in ids THEN u ELSE nftOwner[t]]
      /\ isIndexed' = isIndexed /\ indexedTokens' = indexedTokens
      /\ amountStaked' = [amountStaked EXCEPT ![u] = @ - Cardinality(ids)]
      /\ stakersArray' = IF amountStaked[u] = Cardinality(ids)
                         THEN RemoveStaker(u) ELSE stakersArray
  BY DEF Withdraw, index
<1>3. u # Nobody /\ u # Contract
  BY StakingAssumption
<1>4. /\ stakerAddress' \in [Token -> User \cup {Nobody}]
      /\ nftOwner' \in [Token -> User \cup {Contract}]
      /\ amountStaked' \in [User -> Nat]
  <2>1. stakerAddress' \in [Token -> User \cup {Nobody}]
    BY <1>2 DEF ListsInv
  <2>2. nftOwner' \in [Token -> User \cup {Contract}]
    BY <1>2 DEF ListsInv
  <2>3. amountStaked' \in [User -> Nat]
    BY <1>1, <1>2 DEF ListsInv
  <2> QED BY <2>1, <2>2, <2>3
<1>5. \A t \in Token : stakerAddress'[t] # Nobody => t \in isIndexed' /\ nftOwner'[t] = Contract
  BY <1>2 DEF ListsInv
<1>6. \A v \in User : amountStaked'[v] = Cardinality(Held(v)')
  <2>1. SUFFICES ASSUME NEW v \in User PROVE amountStaked'[v] = Cardinality(Held(v)')
    OBVIOUS
  <2>2. amountStaked[v] = Cardinality(Held(v))
    BY DEF ListsInv
  <2>3. CASE v # u
    <3>1. Held(v)' = Held(v)
      BY <1>1, <1>2, <2>3, StakingAssumption DEF Held, ListsInv
    <3> QED BY <1>2, <2>2, <2>3, <3>1 DEF ListsInv
  <2>4. CASE v = u
    <3>1. Held(u)' = Held(u) \ ids /\ Held(u) \cap ids = ids
      BY <1>1, <1>2, <1>3 DEF Held
    <3>2. Held(u) \in SUBSET Token
      BY DEF Held
    <3>3. IsFiniteSet(Held(u)) /\ Cardinality(Held(u)) \in Nat
      BY <3>2, HeldFinite
    <3>4. Cardinality(Held(u)') = Cardinality(Held(u)) - Cardinality(ids)
      <4>1. Cardinality(Held(u) \ ids) = Cardinality(Held(u)) - Cardinality(Held(u) \cap ids)
        BY <3>3, FS_Difference
      <4> QED BY <3>1, <4>1
    <3> QED BY <1>2, <2>2, <2>4, <3>4 DEF ListsInv
  <2> QED BY <2>3, <2>4
<1>7. stakersArray' \in Seq(User) /\ StakersListed'
  <2>1. /\ stakersArray \in Seq(User) /\ IsInjective(stakersArray)
        /\ ToSet(stakersArray) = {v \in User : amountStaked[v] > 0}
        /\ amountStaked \in [User -> Nat]
    BY DEF ListsInv, StakersListed
  <2>2. CASE amountStaked[u] = Cardinality(ids)
    <3>1. u \in ToSet(stakersArray)
      BY <1>1, <2>1, <2>2
    <3>2. stakersArray' = SwapPop(stakersArray, u)
      BY <1>2, <2>2, <3>1 DEF RemoveStaker
    <3>3. /\ stakersArray' \in Seq(User) /\ IsInjective(stakersArray')
          /\ ToSet(stakersArray') = ToSet(stakersArray) \ {u}
      BY <2>1, <3>1, <3>2, SwapPopSet
    <3>4. {v \in User : amountStaked'[v] > 0} = ToSet(stakersArray) \ {u}
      BY <1>1, <1>2, <2>1, <2>2
    <3> QED BY <3>3, <3>4 DEF StakersListed
  <2>3. CASE amountStaked[u] # Cardinality(ids)
    <3>1. stakersArray' = stakersArray
      BY <1>2, <2>3
    <3>2. {v \in User : amountStaked'[v] > 0} = ToSet(stakersArray)
      BY <1>1, <1>2, <2>1, <2>3
    <3> QED BY <2>1, <3>1, <3>2 DEF StakersListed
  <2> QED BY <2>2, <2>3
<1>8. /\ indexedTokens' \in Seq(Token) /\ isIndexed' \subseteq Token
      /\ IsInjective(indexedTokens') /\ ToSet(indexedTokens') = isIndexed'
  BY <1>2 DEF ListsInv
<1> QED BY <1>4, <1>5, <1>6, <1>7, <1>8, Zenon DEF ListsInv

\* Nothing else touches the indexes, and no user can move a staked token.
LEMMA ListsStep == ListsInv /\ [AccrualNext]_accrualVars => ListsInv'
<1>1. SUFFICES ASSUME ListsInv, [AccrualNext]_accrualVars PROVE ListsInv'
  OBVIOUS
<1>2. ASSUME UNCHANGED listVars PROVE ListsInv'
  <2>1. /\ indexedTokens' = indexedTokens /\ isIndexed' = isIndexed
        /\ stakersArray' = stakersArray /\ stakerAddress' = stakerAddress
        /\ amountStaked' = amountStaked /\ nftOwner' = nftOwner
    BY <1>2 DEF listVars, index
  <2> QED BY <1>1, <2>1 DEF ListsInv, StakersListed, Held
<1>3. ASSUME NEW u \in User, StakeOrWithdraw(u) PROVE ListsInv'
  BY <1>1, <1>3, StakeKeepsLists, WithdrawKeepsLists DEF StakeOrWithdraw
<1>4. ASSUME NEW u \in User, TransferAround(u) PROVE ListsInv'
  <2>1. PICK t \in Token, to \in User \cup {Contract} : DirectTransfer(u, t, to)
    BY <1>4 DEF TransferAround
  <2>2. /\ nftOwner[t] = u /\ nftOwner' = [nftOwner EXCEPT ![t] = to]
        /\ indexedTokens' = indexedTokens /\ isIndexed' = isIndexed
        /\ stakersArray' = stakersArray /\ stakerAddress' = stakerAddress
        /\ amountStaked' = amountStaked
    BY <2>1 DEF DirectTransfer, index, stakers
  <2>3. nftOwner' \in [Token -> User \cup {Contract}]
    BY <1>1, <2>2 DEF ListsInv
  <2>4. u # Contract
    BY StakingAssumption
  <2>5. \A s \in Token : stakerAddress'[s] # Nobody => s \in isIndexed' /\ nftOwner'[s] = Contract
    BY <1>1, <2>2, <2>4 DEF ListsInv
  <2> QED BY <1>1, <2>2, <2>3, <2>5 DEF ListsInv, StakersListed, Held
<1>5. ASSUME NEW u \in User, ClaimFromPot(u) PROVE UNCHANGED listVars
  BY <1>5 DEF ClaimFromPot, ClaimRewards, listVars
<1>6. ASSUME OwnerNext PROVE UNCHANGED listVars
  BY <1>6 DEF OwnerNext, SetTimeUnit, SetRewardsPerUnitTime, SetStakingCondition, listVars,
              stakingVars, stakers
<1>7. ASSUME Tick PROVE UNCHANGED listVars
  BY <1>7 DEF Tick, listVars, stakers
<1>8. ASSUME UNCHANGED accrualVars PROVE UNCHANGED listVars
  BY <1>8 DEF accrualVars, baseVars, stakingVars, stakers, listVars
<1> QED BY <1>1, <1>2, <1>3, <1>4, <1>5, <1>6, <1>7, <1>8 DEF AccrualNext

\* What the view shows follows from what is kept.
LEMMA ListsAgree == ListsInv => IndexesAgree
<1>1. SUFFICES ASSUME ListsInv, NEW u \in User
               PROVE  /\ Len(TokensStaked(u)) = amountStaked[u]
                      /\ ToSet(TokensStaked(u)) = {t \in Token : stakerAddress[t] = u}
                      /\ \A t \in ToSet(TokensStaked(u)) : nftOwner[t] = Contract
  BY DEF ListsInv, IndexesAgree, StakeInfoComplete
<1>2. /\ TokensStaked(u) \in Seq(Token)
      /\ ToSet(TokensStaked(u)) = ToSet(indexedTokens) \cap Held(u)
      /\ IsInjective(TokensStaked(u))
  BY <1>1, FilteredSet DEF ListsInv, TokensStaked, Held
<1>3. Held(u) \subseteq ToSet(indexedTokens) /\ \A t \in Held(u) : nftOwner[t] = Contract
  BY <1>1, StakingAssumption DEF ListsInv, Held
<1>4. ToSet(TokensStaked(u)) = Held(u)
  BY <1>2, <1>3
<1>5. Len(TokensStaked(u)) = Cardinality(Held(u))
  BY <1>2, <1>4, InjectiveLen
<1> QED BY <1>1, <1>3, <1>4, <1>5 DEF ListsInv, Held

\* IndexesAgree, for any collection and any users: the array of stakers, the
\* amounts and the indexed tokens tell the same story, and the contract holds
\* every token it counts.
THEOREM StakesListed == AccrualSpec => []IndexesAgree
<1>1. AccrualInit => ListsInv
  BY ListsInit
<1>2. ListsInv /\ [AccrualNext]_accrualVars => ListsInv'
  BY ListsStep
<1>3. ListsInv => IndexesAgree
  BY ListsAgree
<1> QED BY <1>1, <1>2, <1>3, PTL DEF AccrualSpec
-----------------------------------------------------------------------------
(* Time *)

\* The rates the owner may set.
Rates == Rewards \cup {ctorRewardsPerUnitTime}

\* The conditions follow one another without a gap up to now, the last being
\* open, and no record of a staker is ahead of its condition.
TimesInv ==
  /\ now \in 1..MaxTime
  /\ stakingConditions \in Seq([timeUnit : Nat \ {0}, rewardsPerUnitTime : Rates,
                                startTimestamp : 1..now, endTimestamp : 0..now])
  /\ nextConditionId >= 1
  /\ \A i \in 0..(nextConditionId - 1) : SCALE % Condition(i).timeUnit = 0
  /\ \A i \in 0..(nextConditionId - 2) :
       /\ Condition(i).endTimestamp = Condition(i + 1).startTimestamp
       /\ Condition(i).startTimestamp <= Condition(i).endTimestamp
  /\ Condition(nextConditionId - 1).endTimestamp = 0
  /\ conditionIdOflastUpdate \in [User -> 0..(nextConditionId - 1)]
  /\ timeOfLastUpdate \in [User -> Nat]
  /\ \A u \in User : timeOfLastUpdate[u] <= EndTime(conditionIdOflastUpdate[u])
  /\ unclaimedRewards \in [User -> 0..UINT_MAX]

\* The conditions that a settlement of u passes.
Passed(u) == conditionIdOflastUpdate[u]..(nextConditionId - 1)

\* The seconds of condition i that it covers.
Elapsed(u, i) == EndTime(i) - StartTime(u, i)

\* The rewards that may be set are naturals.
LEMMA RatesNat == Rates \subseteq Nat
BY StakingAssumption, BaseAssumption DEF Rates

\* Every condition's type.
LEMMA ConditionType ==
  ASSUME TimesInv, NEW i \in 0..(nextConditionId - 1)
  PROVE  /\ nextConditionId \in Nat
         /\ Condition(i) \in [timeUnit : Nat \ {0}, rewardsPerUnitTime : Rates,
                              startTimestamp : 1..now, endTimestamp : 0..now]
         /\ Condition(i).timeUnit \in Nat \ {0}
         /\ Condition(i).rewardsPerUnitTime \in Rates
         /\ Condition(i).startTimestamp \in 1..now
         /\ Condition(i).endTimestamp \in 0..now
         /\ SCALE % Condition(i).timeUnit = 0
<1>1. nextConditionId \in Nat /\ i + 1 \in 1..nextConditionId
  BY DEF TimesInv, nextConditionId
<1>2. Condition(i) \in [timeUnit : Nat \ {0}, rewardsPerUnitTime : Rates,
                        startTimestamp : 1..now, endTimestamp : 0..now]
  <2> DEFINE C == [timeUnit : Nat \ {0}, rewardsPerUnitTime : Rates,
                   startTimestamp : 1..now, endTimestamp : 0..now]
  <2>1. stakingConditions \in Seq(C) /\ i + 1 \in 1..Len(stakingConditions)
    BY <1>1 DEF TimesInv, nextConditionId
  <2> HIDE DEF C
  <2>2. stakingConditions[i + 1] \in C
    BY <2>1
  <2> QED BY <2>2 DEF Condition, C
<1>3. SCALE % Condition(i).timeUnit = 0
  BY DEF TimesInv
<1> QED BY <1>1, <1>2, <1>3

\* Before and after a step.
LEMMA ConditionsTyped ==
  TimesInv => \A i \in 0..(nextConditionId - 1) :
                Condition(i).timeUnit \in Nat \ {0} /\ Condition(i).rewardsPerUnitTime \in Rates
BY ConditionType

\* The same after a step.
LEMMA ConditionsTypedPrimed ==
  TimesInv' => (\A i \in 0..(nextConditionId - 1) :
    Condition(i).timeUnit \in Nat \ {0} /\ Condition(i).rewardsPerUnitTime \in Rates)'
BY ConditionsTyped, PTL

\* A settlement covers a number of seconds of every condition it passes.
LEMMA ElapsedNat ==
  ASSUME TimesInv, NEW u \in User, NEW i \in Passed(u)
  PROVE  /\ i \in 0..(nextConditionId - 1)
         /\ EndTime(i) \in 1..now /\ StartTime(u, i) \in Nat
         /\ Elapsed(u, i) \in Nat /\ Elapsed(u, i) <= now
<1>1. nextConditionId \in Nat \ {0} /\ now \in Nat /\ now >= 1
  BY DEF TimesInv, nextConditionId
<1>2. conditionIdOflastUpdate[u] \in 0..(nextConditionId - 1) /\ timeOfLastUpdate[u] \in Nat
  BY DEF TimesInv
<1>3. i \in 0..(nextConditionId - 1) /\ i \in Int
  BY <1>1, <1>2 DEF Passed
<1>4. Condition(i).startTimestamp \in 1..now /\ Condition(i).endTimestamp \in 0..now
  BY <1>3, ConditionType
<1>5. EndTime(i) \in 1..now
  BY <1>1, <1>4 DEF EndTime
<1>6. Condition(i).startTimestamp <= EndTime(i)
  <2>1. CASE i = nextConditionId - 1
    BY <1>1, <1>4, <2>1 DEF TimesInv, EndTime
  <2>2. CASE i # nextConditionId - 1
    <3>1. i \in 0..(nextConditionId - 2)
      BY <1>1, <1>3, <2>2
    <3>2. Condition(i).startTimestamp <= Condition(i).endTimestamp
      BY <3>1 DEF TimesInv
    <3> QED BY <1>1, <1>4, <3>2 DEF EndTime
  <2> QED BY <2>1, <2>2
<1>7. timeOfLastUpdate[u] <= EndTime(conditionIdOflastUpdate[u])
  BY DEF TimesInv
<1>8. StartTime(u, i) \in Nat /\ StartTime(u, i) <= EndTime(i)
  <2>1. CASE i = conditionIdOflastUpdate[u]
    BY <1>2, <1>7, <2>1 DEF StartTime
  <2>2. CASE i # conditionIdOflastUpdate[u]
    BY <1>4, <1>6, <2>2 DEF StartTime
  <2> QED BY <2>1, <2>2
<1> HIDE DEF TimesInv
<1> QED BY <1>1, <1>3, <1>5, <1>8 DEF Elapsed

\* The last condition ends now.
LEMMA LastEnds ==
  ASSUME TimesInv
  PROVE  /\ nextConditionId \in Nat \ {0} /\ nextConditionId - 1 \in 0..(nextConditionId - 1)
         /\ EndTime(nextConditionId - 1) = now /\ now \in 1..MaxTime /\ now \in Nat
<1>1. MaxTime \in Nat
  BY StakingAssumption
<1> QED BY <1>1 DEF TimesInv, nextConditionId, EndTime

\* The times hold when the contract is created.
LEMMA TimesInit == AccrualInit => TimesInv
<1>1. SUFFICES ASSUME AccrualInit PROVE TimesInv
  OBVIOUS
<1> DEFINE c == NewCondition(ctorTimeUnit, ctorRewardsPerUnitTime)
<1>2. /\ now = 1 /\ stakingConditions = <<c>>
      /\ conditionIdOflastUpdate = [u \in User |-> 0]
      /\ timeOfLastUpdate = [u \in User |-> 0]
      /\ unclaimedRewards = [u \in User |-> 0]
  BY <1>1 DEF AccrualInit, BaseInit, StakingInit
<1>3. ctorTimeUnit \in Nat \ {0} /\ SCALE % ctorTimeUnit = 0
  BY BaseAssumption, ScaleAssumption
<1>4. UINT_MAX \in Nat /\ MaxTime \in Nat \ {0}
  BY StakingAssumption
<1>5. /\ c \in [timeUnit : Nat \ {0}, rewardsPerUnitTime : Rates,
                startTimestamp : 1..now, endTimestamp : 0..now]
      /\ c.timeUnit = ctorTimeUnit /\ c.endTimestamp = 0
  BY <1>2, <1>3 DEF NewCondition, Rates
<1> HIDE DEF c
<1>6. nextConditionId = 1 /\ Condition(0) = c
  BY <1>2 DEF nextConditionId, Condition
<1>7. EndTime(0) = now
  BY <1>5, <1>6 DEF EndTime
<1>8. 0..(nextConditionId - 1) = {0} /\ 0..(nextConditionId - 2) = {}
  BY <1>6
<1>9. \A u \in User : timeOfLastUpdate[u] <= EndTime(conditionIdOflastUpdate[u])
  BY <1>2, <1>7
<1>10. stakingConditions \in Seq([timeUnit : Nat \ {0}, rewardsPerUnitTime : Rates,
                                  startTimestamp : 1..now, endTimestamp : 0..now])
  BY <1>2, <1>5
<1>11. \A i \in 0..(nextConditionId - 1) : SCALE % Condition(i).timeUnit = 0
  BY <1>3, <1>5, <1>6, <1>8
<1>12. Condition(nextConditionId - 1).endTimestamp = 0
  BY <1>5, <1>6
<1>13. /\ conditionIdOflastUpdate \in [User -> 0..(nextConditionId - 1)]
       /\ timeOfLastUpdate \in [User -> Nat]
       /\ unclaimedRewards \in [User -> 0..UINT_MAX]
       /\ nextConditionId >= 1 /\ now \in 1..MaxTime
  BY <1>2, <1>4, <1>6
<1> HIDE DEF c
<1> QED BY <1>8, <1>9, <1>10, <1>11, <1>12, <1>13, Zenon DEF TimesInv
-----------------------------------------------------------------------------
(* Rewards *)

\* What condition i is worth to u, SCALE times and not rounded.
Worth(u, i) ==
  IF i \in Passed(u)
  THEN Elapsed(u, i) * amountStaked[u] * Condition(i).rewardsPerUnitTime
         * (SCALE \div Condition(i).timeUnit)
  ELSE 0

\* What u has earned since its last settlement.
Earned(u) ==
  PartialSum([i \in 0..(nextConditionId - 1) |-> Worth(u, i)], nextConditionId)[nextConditionId]

\* The product behind a part, and what follows from it.
Product(u, i) == Elapsed(u, i) * amountStaked[u] * Condition(i).rewardsPerUnitTime

\* The product of a part is a natural, and so are its factors.
LEMMA ProductNat ==
  ASSUME ListsInv, TimesInv, NEW u \in User, NEW i \in Passed(u)
  PROVE  /\ Product(u, i) \in Nat
         /\ Elapsed(u, i) * amountStaked[u] \in Nat
         /\ Condition(i).timeUnit \in Nat \ {0}
         /\ SCALE % Condition(i).timeUnit = 0
         /\ Worth(u, i) = Product(u, i) * (SCALE \div Condition(i).timeUnit)
         /\ SCALE \div Condition(i).timeUnit \in Nat
<1>1. Elapsed(u, i) \in Nat /\ i \in 0..(nextConditionId - 1)
  BY ElapsedNat
<1>2. amountStaked[u] \in Nat
  BY DEF ListsInv
<1>3. /\ Condition(i).rewardsPerUnitTime \in Nat /\ Condition(i).timeUnit \in Nat \ {0}
      /\ SCALE % Condition(i).timeUnit = 0
  BY <1>1, ConditionType, RatesNat
<1>4. Elapsed(u, i) * amountStaked[u] \in Nat
  BY <1>1, <1>2, MulNat
<1>5. Product(u, i) \in Nat
  BY <1>3, <1>4, MulNat DEF Product
<1>6. SCALE \div Condition(i).timeUnit \in Nat
  BY <1>3, DivNat, ScaleAssumption
<1>7. Worth(u, i) = Product(u, i) * (SCALE \div Condition(i).timeUnit)
  BY DEF Worth, Product
<1> QED BY <1>3, <1>4, <1>5, <1>6, <1>7

\* What _calculateRewards adds for a condition, by the product.
LEMMA PartValue ==
  ASSUME ListsInv, TimesInv, NEW u \in User, NEW i \in 0..(nextConditionId - 1)
  PROVE  Part(u, i) = IF i \in Passed(u) /\ Product(u, i) <= UINT_MAX
                      THEN Product(u, i) \div Condition(i).timeUnit ELSE 0
<1>1. conditionIdOflastUpdate[u] \in 0..(nextConditionId - 1) /\ nextConditionId \in Nat
  BY DEF TimesInv, nextConditionId
<1>2. i >= conditionIdOflastUpdate[u] <=> i \in Passed(u)
  BY <1>1 DEF Passed
<1> QED BY <1>2, Zenon DEF Part, Product, Elapsed

\* A part is a number, and SCALE times it is at most what it stands for.
LEMMA PartBounds ==
  ASSUME ListsInv, TimesInv, NEW u \in User, NEW i \in 0..(nextConditionId - 1)
  PROVE  Part(u, i) \in Nat /\ Worth(u, i) \in Nat /\ SCALE * Part(u, i) <= Worth(u, i)
<1>1. CASE i \notin Passed(u)
  <2>1. Part(u, i) = 0 /\ Worth(u, i) = 0
    BY <1>1, PartValue DEF Worth
  <2>2. SCALE * 0 = 0
    BY ScaleAssumption
  <2> QED BY <2>1, <2>2
<1>2. CASE i \in Passed(u)
  <2> DEFINE x == Product(u, i)
             d == Condition(i).timeUnit
             m == SCALE \div d
  <2>1. x \in Nat /\ d \in Nat \ {0} /\ SCALE % d = 0 /\ Worth(u, i) = x * m /\ m \in Nat
    BY <1>2, ProductNat
  <2>2. Part(u, i) = IF x <= UINT_MAX THEN x \div d ELSE 0
    BY <1>2, PartValue
  <2>3. SCALE \in Nat \ {0}
    BY ScaleAssumption
  <2> HIDE DEF x, d
  <2>4. SCALE * (x \div d) <= x * m
    BY <2>1, <2>3, ScaledQuotient
  <2>5. x \div d \in Nat
    BY <2>1, DivNat
  <2>6. x * m \in Nat
    BY <2>1, MulNat
  <2>7. SCALE * 0 = 0
    BY <2>3
  <2>8. CASE x <= UINT_MAX
    <3>1. Part(u, i) = x \div d
      BY <2>2, <2>8
    <3> QED BY <2>1, <2>4, <2>5, <2>6, <3>1, Zenon
  <2>9. CASE ~(x <= UINT_MAX)
    <3>1. Part(u, i) = 0
      BY <2>2, <2>9
    <3>2. SCALE * Part(u, i) = 0
      BY <2>7, <3>1, Zenon
    <3> HIDE DEF m
    <3> QED BY <2>1, <2>6, <3>1, <3>2
  <2> QED BY <2>8, <2>9
<1> QED BY <1>1, <1>2

\* What a settlement gives is in range and, SCALE times, at most what it is
\* worth, whatever overflowed on the way.
LEMMA CalculatedBounds ==
  ASSUME ListsInv, TimesInv, NEW u \in User
  PROVE  /\ CalculateRewards(u) \in 0..UINT_MAX
         /\ Earned(u) \in Nat
         /\ SCALE * CalculateRewards(u) <= Earned(u)
<1> DEFINE n == nextConditionId
           f == [i \in 0..(n - 1) |-> Part(u, i)]
           g == [i \in 0..(n - 1) |-> Worth(u, i)]
<1>1. n \in Nat
  BY LastEnds
<1>2. UINT_MAX \in Nat
  BY StakingAssumption
<1>3. SCALE \in Nat
  BY ScaleAssumption
<1>4. f \in [0..(n - 1) -> Nat] /\ g \in [0..(n - 1) -> Nat]
      /\ \A k \in 0..(n - 1) : SCALE * f[k] <= g[k]
  BY PartBounds
<1>5. CalculateRewards(u) = CheckedSum(f, n, UINT_MAX)[n] /\ Earned(u) = PartialSum(g, n)[n]
  BY DEF CalculateRewards, Earned
<1> HIDE DEF f, g, n
<1>6. CheckedSum(f, n, UINT_MAX)[n] \in 0..UINT_MAX
  <2>1. n \in 0..n
    BY <1>1
  <2>2. CheckedSum(f, n, UINT_MAX) \in [0..n -> 0..UINT_MAX]
    BY <1>1, <1>2, <1>4, CheckedSumRec
  <2> QED BY <2>1, <2>2
<1>7. PartialSum(g, n)[n] \in Nat
  BY <1>1, <1>4, PartialSumRec
<1>8. SCALE * CheckedSum(f, n, UINT_MAX)[n] <= PartialSum(g, n)[n]
  BY <1>1, <1>2, <1>3, <1>4, CheckedSumLe
<1> QED BY <1>5, <1>6, <1>7, <1>8, Zenon
-----------------------------------------------------------------------------
(* What the steps do to the time and to what is earned *)

\* A settlement of u, as far as its record goes.
LEMMA MarkedTimes ==
  ASSUME TimesInv, NEW u \in User, MarkSettled(u), UNCHANGED <<now, stakingConditions>>,
         unclaimedRewards' \in [User -> 0..UINT_MAX]
  PROVE  TimesInv'
<1>1. /\ now' = now /\ stakingConditions' = stakingConditions
      /\ nextConditionId' = nextConditionId
      /\ \A i : Condition(i)' = Condition(i) /\ EndTime(i)' = EndTime(i)
  BY DEF nextConditionId, Condition, EndTime
<1>2. /\ timeOfLastUpdate' = [timeOfLastUpdate EXCEPT ![u] = now]
      /\ conditionIdOflastUpdate' = [conditionIdOflastUpdate EXCEPT ![u] = nextConditionId - 1]
  BY DEF MarkSettled
<1>3. /\ nextConditionId - 1 \in 0..(nextConditionId - 1)
      /\ EndTime(nextConditionId - 1) = now /\ now \in Nat
  BY LastEnds
<1>4. conditionIdOflastUpdate' \in [User -> 0..(nextConditionId - 1)]
  BY <1>2, <1>3 DEF TimesInv
<1>5. timeOfLastUpdate' \in [User -> Nat]
  BY <1>2, <1>3 DEF TimesInv
<1>6. \A v \in User : timeOfLastUpdate'[v] <= EndTime(conditionIdOflastUpdate'[v])
  <2>1. SUFFICES ASSUME NEW v \in User
                 PROVE  timeOfLastUpdate'[v] <= EndTime(conditionIdOflastUpdate'[v])
    OBVIOUS
  <2>2. timeOfLastUpdate[v] <= EndTime(conditionIdOflastUpdate[v])
    BY DEF TimesInv
  <2>3. CASE v = u
    <3>1. timeOfLastUpdate'[v] = now /\ conditionIdOflastUpdate'[v] = nextConditionId - 1
      BY <1>2, <2>3 DEF TimesInv
    <3> QED BY <1>3, <3>1
  <2>4. CASE v # u
    <3>1. /\ timeOfLastUpdate'[v] = timeOfLastUpdate[v]
          /\ conditionIdOflastUpdate'[v] = conditionIdOflastUpdate[v]
      BY <1>2, <2>4 DEF TimesInv
    <3> QED BY <2>2, <3>1
  <2> QED BY <2>3, <2>4
<1>7. /\ now \in 1..MaxTime
      /\ stakingConditions \in Seq([timeUnit : Nat \ {0}, rewardsPerUnitTime : Rates,
                                    startTimestamp : 1..now, endTimestamp : 0..now])
      /\ nextConditionId >= 1
      /\ \A i \in 0..(nextConditionId - 1) : SCALE % Condition(i).timeUnit = 0
      /\ \A i \in 0..(nextConditionId - 2) :
           /\ Condition(i).endTimestamp = Condition(i + 1).startTimestamp
           /\ Condition(i).startTimestamp <= Condition(i).endTimestamp
      /\ Condition(nextConditionId - 1).endTimestamp = 0
  BY DEF TimesInv
<1>8. Rates' = Rates
  BY DEF Rates
<1> QED BY <1>1, <1>4, <1>5, <1>6, <1>7, <1>8, Zenon DEF TimesInv

\* The time units that may follow one another.
Divisors == {d \in Nat \ {0} : SCALE % d = 0}

\* A condition that is superseded ends where it stood, and the next begins.
LEMMA SupersededTimes ==
  ASSUME TimesInv, NEW n, n = nextConditionId,
         NEW timeUnit \in Divisors, NEW r \in Rates,
         SetStakingCondition(timeUnit, r)
  PROVE  /\ TimesInv'
         /\ nextConditionId' = n + 1
         /\ \A i \in 0..(n - 1) :
              /\ EndTime(i)' = EndTime(i)
              /\ Condition(i)'.startTimestamp = Condition(i).startTimestamp
              /\ Condition(i)'.timeUnit = Condition(i).timeUnit
              /\ Condition(i)'.rewardsPerUnitTime = Condition(i).rewardsPerUnitTime
         /\ Condition(n)'.startTimestamp = now
         /\ EndTime(n)' = now
<1> DEFINE C == [timeUnit : Nat \ {0}, rewardsPerUnitTime : Rates,
                 startTimestamp : 1..now, endTimestamp : 0..now]
           new == NewCondition(timeUnit, r)
           s == [stakingConditions EXCEPT ![n].endTimestamp = now]
<1>1. /\ timeUnit \in Nat \ {0} /\ SCALE % timeUnit = 0
      /\ stakingConditions' = Append(s, new)
      /\ now' = now /\ conditionIdOflastUpdate' = conditionIdOflastUpdate
      /\ timeOfLastUpdate' = timeOfLastUpdate /\ unclaimedRewards' = unclaimedRewards
  BY DEF Divisors, SetStakingCondition, stakers
<1>2. /\ n \in Nat \ {0} /\ n - 1 \in 0..(n - 1) /\ EndTime(n - 1) = now
      /\ now \in 1..MaxTime /\ now \in Nat
  BY LastEnds
<1>3. stakingConditions \in Seq(C) /\ Len(stakingConditions) = n
  BY DEF TimesInv, nextConditionId
<1>4. /\ new \in C /\ new.startTimestamp = now /\ new.endTimestamp = 0
      /\ new.timeUnit = timeUnit
  BY <1>1, <1>2 DEF NewCondition
<1>5. /\ s \in Seq(C) /\ Len(s) = n
      /\ \A i \in 1..n : s[i] = IF i = n THEN [stakingConditions[n] EXCEPT !.endTimestamp = now]
                                ELSE stakingConditions[i]
  <2>1. stakingConditions[n] \in C /\ now \in 0..now
    <3>1. stakingConditions[n] \in C
      <4> HIDE DEF C
      <4> QED BY <1>2, <1>3
    <3> QED BY <1>2, <3>1
  <2>2. [stakingConditions[n] EXCEPT !.endTimestamp = now] \in C
    BY <2>1
  <2>3. s = [stakingConditions EXCEPT ![n] = [stakingConditions[n] EXCEPT !.endTimestamp = now]]
    OBVIOUS
  <2> DEFINE last == [stakingConditions[n] EXCEPT !.endTimestamp = now]
  <2> HIDE DEF C, last, s
  <2>4. last \in C /\ s = [stakingConditions EXCEPT ![n] = last]
    BY <2>2, <2>3 DEF last
  <2>5. s \in Seq(C) /\ Len(s) = n
        /\ \A i \in 1..n : s[i] = IF i = n THEN last ELSE stakingConditions[i]
    BY <1>2, <1>3, <2>4
  <2> QED BY <2>5 DEF last
<1>6. /\ stakingConditions' \in Seq(C) /\ nextConditionId' = n + 1
      /\ \A i \in 1..n : stakingConditions'[i] = s[i]
      /\ stakingConditions'[n + 1] = new
  <2> HIDE DEF C, s, new
  <2> QED BY <1>1, <1>2, <1>3, <1>4, <1>5 DEF nextConditionId
<1> HIDE DEF new, s
<1>7. \A i \in 0..(n - 1) : Condition(i)' = IF i = n - 1
                                            THEN [Condition(n - 1) EXCEPT !.endTimestamp = now]
                                            ELSE Condition(i)
  <2>1. SUFFICES ASSUME NEW i \in 0..(n - 1)
                 PROVE  stakingConditions'[i + 1]
                          = IF i = n - 1
                            THEN [stakingConditions[(n - 1) + 1] EXCEPT !.endTimestamp = now]
                            ELSE stakingConditions[i + 1]
    BY DEF Condition
  <2>2. i + 1 \in 1..n /\ (n - 1) + 1 = n /\ (i = n - 1 <=> i + 1 = n)
    BY <1>2
  <2> QED BY <1>5, <1>6, <2>2, Zenon
<1>8. Condition(n)' = new
  BY <1>6 DEF Condition
<1>9. \A i \in 0..(n - 1) : Condition(i) \in C
  BY ConditionType
<1>10. \A i \in 0..(n - 1) :
         /\ EndTime(i)' = EndTime(i)
         /\ Condition(i)'.startTimestamp = Condition(i).startTimestamp
         /\ Condition(i)'.timeUnit = Condition(i).timeUnit
         /\ Condition(i)'.rewardsPerUnitTime = Condition(i).rewardsPerUnitTime
  <2>1. SUFFICES ASSUME NEW i \in 0..(n - 1)
                 PROVE  /\ EndTime(i)' = EndTime(i)
                        /\ Condition(i)'.startTimestamp = Condition(i).startTimestamp
                        /\ Condition(i)'.timeUnit = Condition(i).timeUnit
                        /\ Condition(i)'.rewardsPerUnitTime = Condition(i).rewardsPerUnitTime
    OBVIOUS
  <2>2. CASE i # n - 1
    <3>1. Condition(i)' = Condition(i)
      BY <1>7, <2>2
    <3> QED BY <1>1, <3>1 DEF EndTime
  <2>3. CASE i = n - 1
    <3>1. Condition(i)' = [Condition(i) EXCEPT !.endTimestamp = now] /\ Condition(i) \in C
      BY <1>7, <1>9, <2>3
    <3>2. /\ Condition(i)'.endTimestamp = now
          /\ Condition(i)'.startTimestamp = Condition(i).startTimestamp
          /\ Condition(i)'.timeUnit = Condition(i).timeUnit
          /\ Condition(i)'.rewardsPerUnitTime = Condition(i).rewardsPerUnitTime
      BY <3>1
    <3>3. EndTime(i)' = now
      BY <1>1, <3>2 DEF EndTime
    <3>4. EndTime(i) = now
      BY <1>2, <2>3
    <3> QED BY <3>2, <3>3, <3>4
  <2> QED BY <2>2, <2>3
<1>11. EndTime(n)' = now
  BY <1>1, <1>4, <1>8 DEF EndTime
<1>12. \A i \in 0..n : SCALE % Condition(i)'.timeUnit = 0
  <2>1. SUFFICES ASSUME NEW i \in 0..n PROVE SCALE % Condition(i)'.timeUnit = 0
    OBVIOUS
  <2>2. CASE i = n
    <3>1. Condition(i)' = new
      BY <1>8, <2>2
    <3> QED BY <1>1, <1>4, <3>1
  <2>3. CASE i # n
    <3>1. i \in 0..(n - 1)
      BY <1>2, <2>3
    <3>2. SCALE % Condition(i).timeUnit = 0
      BY <3>1 DEF TimesInv
    <3> QED BY <1>10, <3>1, <3>2
  <2> QED BY <2>2, <2>3
<1>13. \A i \in 0..(n - 1) :
         /\ Condition(i)'.endTimestamp = Condition(i + 1)'.startTimestamp
         /\ Condition(i)'.startTimestamp <= Condition(i)'.endTimestamp
  <2>1. SUFFICES ASSUME NEW i \in 0..(n - 1)
                 PROVE  /\ Condition(i)'.endTimestamp = Condition(i + 1)'.startTimestamp
                        /\ Condition(i)'.startTimestamp <= Condition(i)'.endTimestamp
    OBVIOUS
  <2>2. CASE i = n - 1
    <3>1. i + 1 = n /\ Condition(i) \in C
      BY <1>2, <1>9, <2>2
    <3>2. Condition(i)' = [Condition(i) EXCEPT !.endTimestamp = now]
      BY <1>7, <2>2
    <3>3. Condition(i)'.endTimestamp = now /\ Condition(i)'.startTimestamp <= now
      BY <3>1, <3>2
    <3>4. Condition(i + 1)'.startTimestamp = now
      BY <1>4, <1>8, <3>1
    <3> QED BY <3>3, <3>4
  <2>3. CASE i # n - 1
    <3>1. i \in 0..(n - 2) /\ i + 1 \in 0..(n - 1)
      BY <1>2, <2>3
    <3>2. /\ Condition(i).endTimestamp = Condition(i + 1).startTimestamp
          /\ Condition(i).startTimestamp <= Condition(i).endTimestamp
      BY <3>1 DEF TimesInv
    <3>3. Condition(i)' = Condition(i)
      BY <1>7, <2>3
    <3>4. Condition(i + 1)'.startTimestamp = Condition(i + 1).startTimestamp
      BY <1>10, <3>1
    <3> QED BY <3>2, <3>3, <3>4
  <2> QED BY <2>2, <2>3
<1>14. conditionIdOflastUpdate' \in [User -> 0..n]
  <2>1. conditionIdOflastUpdate \in [User -> 0..(n - 1)]
    BY DEF TimesInv
  <2> QED BY <1>1, <1>2, <2>1
<1> DEFINE NewEnd(i) == IF stakingConditions'[i + 1].endTimestamp # 0
                        THEN stakingConditions'[i + 1].endTimestamp ELSE now'
<1>19. \A i \in 0..(n - 1) : NewEnd(i) = EndTime(i)
  <2>1. SUFFICES ASSUME NEW i \in 0..(n - 1) PROVE NewEnd(i) = EndTime(i)
    OBVIOUS
  <2>2. EndTime(i)' = EndTime(i)
    BY <1>10
  <2>3. EndTime(i)' = NewEnd(i)
    BY DEF EndTime, Condition
  <2> QED BY <2>2, <2>3
<1>20. \A u \in User : timeOfLastUpdate'[u] <= NewEnd(conditionIdOflastUpdate'[u])
  <2>1. /\ conditionIdOflastUpdate \in [User -> 0..(n - 1)]
        /\ \A u \in User : timeOfLastUpdate[u] <= EndTime(conditionIdOflastUpdate[u])
    BY DEF TimesInv
  <2> HIDE DEF NewEnd
  <2> QED BY <1>1, <1>19, <2>1
<1>21. \A u \in User : timeOfLastUpdate'[u] <= EndTime(conditionIdOflastUpdate[u])'
  <2> QED BY <1>20, Zenon DEF EndTime, Condition
<1>15. (n + 1) - 1 = n /\ (n + 1) - 2 = n - 1 /\ n + 1 >= 1
  BY <1>2
<1>16. /\ timeOfLastUpdate' \in [User -> Nat] /\ unclaimedRewards' \in [User -> 0..UINT_MAX]
  BY <1>1 DEF TimesInv
<1>17. TimesInv'
  <2>1. /\ nextConditionId' - 1 = n /\ nextConditionId' - 2 = n - 1 /\ nextConditionId' >= 1
        /\ now' \in 1..MaxTime
    BY <1>1, <1>2, <1>6, <1>15
  <2>2. Condition(nextConditionId - 1)'.endTimestamp = 0
    <3>1. Condition(nextConditionId - 1)' = Condition(n)'
      BY <2>1 DEF Condition
    <3> QED BY <1>4, <1>8, <3>1
  <2>3. stakingConditions' \in Seq([timeUnit : Nat \ {0}, rewardsPerUnitTime : Rates',
                                    startTimestamp : 1..now', endTimestamp : 0..now'])
    BY <1>1, <1>6 DEF Rates
  <2>4. \A i \in 0..(nextConditionId' - 1) : SCALE % Condition(i)'.timeUnit = 0
    BY <1>12, <2>1
  <2>5. \A i \in 0..(nextConditionId' - 2) :
          /\ Condition(i)'.endTimestamp = Condition(i + 1)'.startTimestamp
          /\ Condition(i)'.startTimestamp <= Condition(i)'.endTimestamp
    BY <1>13, <2>1
  <2>6. conditionIdOflastUpdate' \in [User -> 0..(nextConditionId' - 1)]
    BY <1>14, <2>1
  <2> QED BY <1>16, <1>21, <2>1, <2>2, <2>3, <2>4, <2>5, <2>6, Zenon DEF TimesInv
<1>18. Condition(n)'.startTimestamp = now
  BY <1>4, <1>8
<1> QED BY <1>6, <1>10, <1>11, <1>17, <1>18

\* A second more belongs to the last condition.
LEMMA TickTimes ==
  ASSUME TimesInv, Tick, NEW n, n = nextConditionId
  PROVE  /\ TimesInv'
         /\ nextConditionId' = n
         /\ \A i \in 0..(n - 1) :
              /\ Condition(i)' = Condition(i)
              /\ EndTime(i)' = IF i = n - 1 THEN now + 1 ELSE EndTime(i)
<1>1. /\ now < MaxTime /\ now' = now + 1 /\ stakingConditions' = stakingConditions
      /\ conditionIdOflastUpdate' = conditionIdOflastUpdate
      /\ timeOfLastUpdate' = timeOfLastUpdate /\ unclaimedRewards' = unclaimedRewards
  BY DEF Tick, stakers
<1>2. /\ n \in Nat \ {0} /\ n - 1 \in 0..(n - 1) /\ EndTime(n - 1) = now
      /\ now \in 1..MaxTime /\ now \in Nat /\ MaxTime \in Nat
  BY LastEnds, StakingAssumption
<1>3. nextConditionId' = n /\ \A i : Condition(i)' = Condition(i)
  BY <1>1 DEF nextConditionId, Condition
<1>4. \A i \in 0..(n - 1) : EndTime(i)' = IF i = n - 1 THEN now + 1 ELSE EndTime(i)
  <2>1. SUFFICES ASSUME NEW i \in 0..(n - 1)
                 PROVE  EndTime(i)' = IF i = n - 1 THEN now + 1 ELSE EndTime(i)
    OBVIOUS
  <2>2. CASE i = n - 1
    <3>1. Condition(i).endTimestamp = 0
      BY <2>2 DEF TimesInv
    <3>2. Condition(i)'.endTimestamp = 0
      BY <1>3, <3>1
    <3> QED BY <1>1, <2>2, <3>2 DEF EndTime
  <2>3. CASE i # n - 1
    <3>1. i \in 0..(n - 2) /\ i + 1 \in 0..(n - 1)
      BY <1>2, <2>3
    <3>2. Condition(i).endTimestamp = Condition(i + 1).startTimestamp
      BY <3>1 DEF TimesInv
    <3>3. Condition(i + 1).startTimestamp \in 1..now
      BY <3>1, ConditionType
    <3>4. Condition(i).endTimestamp # 0
      BY <1>2, <3>2, <3>3
    <3> QED BY <1>3, <2>3, <3>4 DEF EndTime
  <2> QED BY <2>2, <2>3
<1> DEFINE C == [timeUnit : Nat \ {0}, rewardsPerUnitTime : Rates,
                 startTimestamp : 1..now, endTimestamp : 0..now]
           D == [timeUnit : Nat \ {0}, rewardsPerUnitTime : Rates',
                 startTimestamp : 1..now', endTimestamp : 0..now']
           NewEnd(i) == IF stakingConditions'[i + 1].endTimestamp # 0
                        THEN stakingConditions'[i + 1].endTimestamp ELSE now'
<1>5. stakingConditions' \in Seq(D)
  <2>1. stakingConditions \in Seq(C)
    BY DEF TimesInv
  <2>2. \A r \in C : r \in D
    <3>1. 1..now \subseteq 1..now' /\ 0..now \subseteq 0..now' /\ Rates' = Rates
      BY <1>1, <1>2 DEF Rates
    <3> QED BY <3>1
  <2> HIDE DEF C, D
  <2> QED BY <1>1, <2>1, <2>2
<1>6. \A v \in User : timeOfLastUpdate'[v] <= NewEnd(conditionIdOflastUpdate'[v])
  <2>1. SUFFICES ASSUME NEW v \in User
                 PROVE  timeOfLastUpdate[v] <= NewEnd(conditionIdOflastUpdate[v])
    BY <1>1
  <2>2. /\ conditionIdOflastUpdate[v] \in 0..(n - 1) /\ timeOfLastUpdate[v] \in Nat
        /\ timeOfLastUpdate[v] <= EndTime(conditionIdOflastUpdate[v])
    BY DEF TimesInv
  <2>3. PICK i \in 0..(n - 1) : i = conditionIdOflastUpdate[v]
    BY <2>2
  <2>4. EndTime(i)' = NewEnd(i)
    BY DEF EndTime, Condition
  <2>5. EndTime(i)' = IF i = n - 1 THEN now + 1 ELSE EndTime(i)
    BY <1>4
  <2> HIDE DEF NewEnd
  <2>6. timeOfLastUpdate[v] <= NewEnd(i)
    BY <1>2, <2>2, <2>3, <2>4, <2>5
  <2> QED BY <2>3, <2>6
<1>7. \A v \in User : timeOfLastUpdate'[v] <= EndTime(conditionIdOflastUpdate[v])'
  BY <1>6, Zenon DEF EndTime, Condition
<1>8. TimesInv'
  <2>1. now' \in 1..MaxTime
    BY <1>1, <1>2
  <2>2. /\ nextConditionId' >= 1
        /\ \A i \in 0..(nextConditionId' - 1) : SCALE % Condition(i)'.timeUnit = 0
        /\ \A i \in 0..(nextConditionId' - 2) :
             /\ Condition(i)'.endTimestamp = Condition(i + 1)'.startTimestamp
             /\ Condition(i)'.startTimestamp <= Condition(i)'.endTimestamp
    BY <1>2, <1>3 DEF TimesInv
  <2>3. Condition(nextConditionId - 1)'.endTimestamp = 0
    <3>1. Condition(nextConditionId - 1)' = Condition(nextConditionId - 1)
      BY <1>1 DEF Condition, nextConditionId
    <3> QED BY <3>1 DEF TimesInv
  <2>4. /\ conditionIdOflastUpdate' \in [User -> 0..(nextConditionId' - 1)]
        /\ timeOfLastUpdate' \in [User -> Nat] /\ unclaimedRewards' \in [User -> 0..UINT_MAX]
    BY <1>1, <1>3 DEF TimesInv
  <2> QED BY <1>5, <1>7, <2>1, <2>2, <2>3, <2>4, Zenon DEF TimesInv
<1> QED BY <1>3, <1>4, <1>8

\* A second adds what the last condition gives for it.
LEMMA TickEarns ==
  ASSUME ListsInv, TimesInv, Tick, NEW u \in User
  PROVE  PerSecond(u) \in Nat /\ Earned(u)' = Earned(u) + PerSecond(u)
<1>1. PICK n : n = nextConditionId
  OBVIOUS
<1>2. /\ nextConditionId' = n
      /\ \A i \in 0..(n - 1) : /\ Condition(i)' = Condition(i)
                               /\ EndTime(i)' = IF i = n - 1 THEN now + 1 ELSE EndTime(i)
  BY <1>1, TickTimes
<1>3. /\ n \in Nat \ {0} /\ n - 1 \in 0..(n - 1) /\ EndTime(n - 1) = now
      /\ now \in Nat
  BY <1>1, LastEnds
<1>4. /\ amountStaked' = amountStaked /\ timeOfLastUpdate' = timeOfLastUpdate
      /\ conditionIdOflastUpdate' = conditionIdOflastUpdate
  BY DEF Tick, stakers
<1>5. Passed(u)' = Passed(u) /\ n - 1 \in Passed(u)
  <2>1. conditionIdOflastUpdate[u] \in 0..(n - 1)
    BY <1>1 DEF TimesInv
  <2> QED BY <1>1, <1>2, <1>3, <1>4, <2>1 DEF Passed
<1> DEFINE f == [i \in 0..(n - 1) |-> Worth(u, i)]
           g == [i \in 0..(n - 1) |-> Worth(u, i)']
           a == amountStaked[u]
           r == Condition(n - 1).rewardsPerUnitTime
           m == SCALE \div Condition(n - 1).timeUnit
           e == Elapsed(u, n - 1)
<1>6. f \in [0..(n - 1) -> Nat]
  BY <1>1, PartBounds
<1>7. \A i \in 0..(n - 1) : StartTime(u, i)' = StartTime(u, i)
  BY <1>2, <1>4 DEF StartTime
<1>8. \A i \in 0..(n - 1) : i # n - 1 => g[i] = f[i]
  <2>1. SUFFICES ASSUME NEW i \in 0..(n - 1), i # n - 1 PROVE Worth(u, i)' = Worth(u, i)
    OBVIOUS
  <2>2. Elapsed(u, i)' = Elapsed(u, i)
    BY <1>2, <1>7, <2>1 DEF Elapsed
  <2>3. Condition(i)' = Condition(i)
    BY <1>2
  <2> QED BY <1>4, <1>5, <2>2, <2>3 DEF Worth
<1>9. /\ a \in Nat /\ r \in Nat /\ m \in Nat /\ e \in Nat
      /\ Worth(u, n - 1) = e * a * r * m
  <2>1. /\ Elapsed(u, n - 1) \in Nat /\ a \in Nat
    BY <1>1, <1>5, ElapsedNat DEF ListsInv
  <2>2. r \in Nat
    BY <1>1, <1>3, ConditionType, RatesNat
  <2>3. m \in Nat
    BY <1>1, <1>5, ProductNat
  <2> QED BY <1>5, <2>1, <2>2, <2>3 DEF Worth
<1>10. Worth(u, n - 1)' = (e + 1) * a * r * m
  <2>1. PICK k \in 0..(n - 1) : k = n - 1
    BY <1>3
  <2>2. Elapsed(u, k)' = e + 1
    <3>1. EndTime(k)' = now + 1 /\ StartTime(u, k)' = StartTime(u, k) /\ EndTime(k) = now
      BY <1>2, <1>3, <1>7, <2>1
    <3>2. StartTime(u, k) \in Nat
      BY <1>1, <1>5, <2>1, ElapsedNat
    <3> QED BY <1>3, <2>1, <3>1, <3>2 DEF Elapsed
  <2>3. Condition(k)' = Condition(n - 1)
    BY <1>2, <2>1
  <2>4. k \in Passed(u)'
    BY <1>5, <2>1
  <2>5. Worth(u, k)' = (e + 1) * a * r * m
    BY <1>4, <2>2, <2>3, <2>4 DEF Worth
  <2> QED BY <2>1, <2>5
<1>11. PerSecond(u) = a * r * m
  BY <1>1 DEF PerSecond
<1>12. a * r * m \in Nat /\ (e + 1) * a * r * m = e * a * r * m + a * r * m
  <2> HIDE DEF a, r, m, e
  <2>1. a * r \in Nat /\ a * r * m \in Nat
    BY <1>9, MulNat
  <2>2. (e + 1) * a * r * m = (e + 1) * (a * r * m) /\ e * a * r * m = e * (a * r * m)
    BY <1>9
  <2> QED BY <1>9, <2>1, <2>2
<1>13. Earned(u) = PartialSum(f, n)[n] /\ Earned(u)' = PartialSum(g, n)[n]
  BY <1>1, <1>2 DEF Earned
<1>14. g[n - 1] = f[n - 1] + a * r * m
  <2>1. g[n - 1] = Worth(u, n - 1)' /\ f[n - 1] = Worth(u, n - 1)
    BY <1>3
  <2> QED BY <1>9, <1>10, <1>12, <2>1
<1>15. g \in [0..(n - 1) -> Nat]
  <2>1. \A i \in 0..(n - 1) : g[i] \in Nat
    <3> SUFFICES ASSUME NEW i \in 0..(n - 1) PROVE g[i] \in Nat
      OBVIOUS
    <3>1. f[i] \in Nat
      BY <1>6
    <3> HIDE DEF f, g
    <3> QED BY <1>8, <1>12, <1>14, <3>1
  <2> QED BY <2>1
<1> DEFINE x == a * r * m
<1>16. x \in Nat /\ g[n - 1] = f[n - 1] + x /\ PerSecond(u) = x
  BY <1>11, <1>12, <1>14
<1> HIDE DEF f, g, x
<1>17. PartialSum(g, n)[n] = PartialSum(f, n)[n] + x
  BY <1>3, <1>6, <1>8, <1>15, <1>16, PartialSumChange
<1> QED BY <1>13, <1>16, <1>17

\* A condition that begins now has earned nothing, and what the others gave
\* stays.
LEMMA SupersededEarns ==
  ASSUME ListsInv, TimesInv, NEW timeUnit \in Divisors, NEW r \in Rates,
         SetStakingCondition(timeUnit, r), NEW u \in User
  PROVE  Earned(u)' = Earned(u)
<1>1. PICK n : n = nextConditionId
  OBVIOUS
<1>2. /\ nextConditionId' = n + 1
      /\ \A i \in 0..(n - 1) :
           /\ EndTime(i)' = EndTime(i)
           /\ Condition(i)'.startTimestamp = Condition(i).startTimestamp
           /\ Condition(i)'.timeUnit = Condition(i).timeUnit
           /\ Condition(i)'.rewardsPerUnitTime = Condition(i).rewardsPerUnitTime
      /\ Condition(n)'.startTimestamp = now
      /\ EndTime(n)' = now
      /\ TimesInv'
  BY <1>1, SupersededTimes
<1>3. n \in Nat \ {0} /\ now \in Nat
  BY <1>1, LastEnds
<1>4. /\ amountStaked' = amountStaked /\ timeOfLastUpdate' = timeOfLastUpdate
      /\ conditionIdOflastUpdate' = conditionIdOflastUpdate
  BY DEF SetStakingCondition, stakers
<1>5. conditionIdOflastUpdate[u] \in 0..(n - 1)
  BY <1>1 DEF TimesInv
<1>6. Passed(u)' = Passed(u) \cup {n} /\ n \notin Passed(u)
  BY <1>1, <1>2, <1>3, <1>4, <1>5 DEF Passed
<1> DEFINE f == [i \in 0..(n - 1) |-> Worth(u, i)]
           g == [i \in 0..n |-> Worth(u, i)']
<1>7. f \in [0..(n - 1) -> Nat]
  BY <1>1, PartBounds
<1>8. \A i \in 0..(n - 1) : g[i] = f[i]
  <2>1. SUFFICES ASSUME NEW i \in 0..(n - 1) PROVE Worth(u, i)' = Worth(u, i)
    BY <1>3
  <2>2. StartTime(u, i)' = StartTime(u, i)
    BY <1>2, <1>4 DEF StartTime
  <2>3. Elapsed(u, i)' = Elapsed(u, i)
    BY <1>2, <2>2 DEF Elapsed
  <2>4. i # n
    BY <1>3
  <2>5. i \in Passed(u)' <=> i \in Passed(u)
    BY <1>6, <2>4
  <2>6. /\ Condition(i)'.timeUnit = Condition(i).timeUnit
        /\ Condition(i)'.rewardsPerUnitTime = Condition(i).rewardsPerUnitTime
    BY <1>2
  <2> QED BY <1>4, <2>3, <2>5, <2>6, Zenon DEF Worth
<1>9. g[n] = 0
  <2>1. StartTime(u, n)' = now
    <3>1. n # conditionIdOflastUpdate'[u]
      BY <1>3, <1>4, <1>5
    <3> QED BY <1>2, <3>1 DEF StartTime
  <2>2. Elapsed(u, n)' = 0
    BY <1>2, <1>3, <2>1 DEF Elapsed
  <2>3. amountStaked'[u] \in Nat
    BY <1>4 DEF ListsInv
  <2>4. Condition(n)'.rewardsPerUnitTime \in Nat /\ (SCALE \div Condition(n)'.timeUnit) \in Nat
    <3>1. n \in 0..(nextConditionId' - 1)
      BY <1>2, <1>3
    <3>2. \A i \in 0..(nextConditionId' - 1) :
            Condition(i)'.timeUnit \in Nat \ {0} /\ Condition(i)'.rewardsPerUnitTime \in Rates
      BY <1>2, ConditionsTypedPrimed
    <3>3. SCALE \in Nat
      BY ScaleAssumption
    <3> QED BY <3>1, <3>2, <3>3, RatesNat, DivNat
  <2>5. Worth(u, n)' = 0 * amountStaked'[u] * Condition(n)'.rewardsPerUnitTime
                         * (SCALE \div Condition(n)'.timeUnit)
    BY <1>6, <2>2 DEF Worth
  <2>6. Worth(u, n)' = 0
    <3> DEFINE a == amountStaked'[u]
               b == Condition(n)'.rewardsPerUnitTime
               c == SCALE \div Condition(n)'.timeUnit
    <3>1. a \in Nat /\ b \in Nat /\ c \in Nat /\ Worth(u, n)' = 0 * a * b * c
      BY <2>3, <2>4, <2>5
    <3> HIDE DEF a, b, c
    <3>2. 0 * a = 0 /\ 0 * b = 0 /\ 0 * c = 0
      BY <3>1
    <3> QED BY <3>1, <3>2
  <2> QED BY <1>3, <2>6
<1>10. g \in [0..n -> Nat] /\ Earned(u) = PartialSum(f, n)[n]
       /\ Earned(u)' = PartialSum(g, n + 1)[n + 1]
  <2>1. \A i \in 0..n : g[i] \in Nat
    <3> SUFFICES ASSUME NEW i \in 0..n PROVE g[i] \in Nat
      OBVIOUS
    <3>1. CASE i = n
      BY <1>9, <3>1
    <3>2. CASE i # n
      <4>1. i \in 0..(n - 1)
        BY <1>3, <3>2
      <4>2. f[i] \in Nat /\ g[i] = f[i]
        BY <1>7, <1>8, <4>1
      <4> HIDE DEF f, g
      <4> QED BY <4>2
    <3> QED BY <3>1, <3>2
  <2>2. (n + 1) - 1 = n
    BY <1>3
  <2> QED BY <1>1, <1>2, <2>1, <2>2 DEF Earned
<1> HIDE DEF f, g
<1>11. g \in [0..((n + 1) - 1) -> Nat] /\ n + 1 \in Nat /\ n <= n + 1 /\ n \in 0..((n + 1) - 1)
  BY <1>3, <1>10
<1>12. PartialSum(g, n + 1)[n] = PartialSum(f, n)[n]
  BY <1>3, <1>7, <1>8, <1>11, PartialSumPrefix
<1>13. /\ PartialSum(g, n + 1)[n + 1] = PartialSum(g, n + 1)[n] + g[n]
       /\ PartialSum(g, n + 1)[n] \in Nat
  <2>1. n \in 0..(n + 1)
    BY <1>3
  <2> QED BY <1>11, <2>1, PartialSumRec
<1> QED BY <1>9, <1>10, <1>12, <1>13

\* After a settlement nothing is earned yet.
LEMMA SettledEarns ==
  ASSUME ListsInv', TimesInv, TimesInv', NEW u \in User, MarkSettled(u),
         UNCHANGED <<now, stakingConditions>>
  PROVE  Earned(u)' = 0
<1>1. PICK n : n = nextConditionId
  OBVIOUS
<1>2. n \in Nat \ {0} /\ now \in Nat /\ EndTime(n - 1) = now /\ n - 1 \in 0..(n - 1)
  BY <1>1, LastEnds
<1>3. nextConditionId' = n /\ (\A i : Condition(i)' = Condition(i) /\ EndTime(i)' = EndTime(i))
  BY <1>1 DEF nextConditionId, Condition, EndTime
<1>4. timeOfLastUpdate'[u] = now /\ conditionIdOflastUpdate'[u] = n - 1
  BY <1>1 DEF MarkSettled, TimesInv
<1>5. Passed(u)' = {n - 1}
  BY <1>2, <1>3, <1>4 DEF Passed
<1> DEFINE g == [i \in 0..(n - 1) |-> Worth(u, i)']
<1>6. \A i \in 0..(n - 1) : g[i] = 0
  <2>1. SUFFICES ASSUME NEW i \in 0..(n - 1), i = n - 1 PROVE Worth(u, i)' = 0
    <3>1. \A i \in 0..(n - 1) : i # n - 1 => Worth(u, i)' = 0
      BY <1>5 DEF Worth
    <3> QED BY <3>1
  <2>2. StartTime(u, i)' = now /\ EndTime(i)' = now
    BY <1>2, <1>3, <1>4, <2>1 DEF StartTime
  <2>3. Elapsed(u, i)' = 0
    BY <1>2, <2>2 DEF Elapsed
  <2>4. amountStaked'[u] \in Nat
    BY DEF ListsInv
  <2>5. Condition(i)'.rewardsPerUnitTime \in Nat /\ (SCALE \div Condition(i)'.timeUnit) \in Nat
    <3>1. Condition(i).timeUnit \in Nat \ {0} /\ Condition(i).rewardsPerUnitTime \in Nat
      BY <1>1, ConditionType, RatesNat
    <3>2. SCALE \in Nat
      BY ScaleAssumption
    <3> QED BY <1>3, <3>1, <3>2, DivNat
  <2>6. Worth(u, i)' = 0 * amountStaked'[u] * Condition(i)'.rewardsPerUnitTime
                         * (SCALE \div Condition(i)'.timeUnit)
    BY <1>5, <2>1, <2>3 DEF Worth
  <2> DEFINE a == amountStaked'[u]
             b == Condition(i)'.rewardsPerUnitTime
             c == SCALE \div Condition(i)'.timeUnit
  <2>7. a \in Nat /\ b \in Nat /\ c \in Nat /\ Worth(u, i)' = 0 * a * b * c
    BY <2>4, <2>5, <2>6
  <2> HIDE DEF a, b, c
  <2>8. 0 * a = 0 /\ 0 * b = 0 /\ 0 * c = 0
    BY <2>7
  <2> QED BY <2>7, <2>8
<1>7. g \in [0..(n - 1) -> Nat] /\ Earned(u)' = PartialSum(g, n)[n]
  BY <1>3, <1>6 DEF Earned
<1> HIDE DEF g
<1>8. PartialSum(g, n)[n] = PartialSum(g, n)[0] /\ PartialSum(g, n)[0] = 0
  <2>1. 0 \in 0..n /\ n \in 0..n /\ 0 <= n
    BY <1>2
  <2>2. PartialSum(g, n)[n] = PartialSum(g, n)[0]
    BY <1>2, <1>6, <1>7, <2>1, PartialSumFlat
  <2>3. PartialSum(g, n)[0] = 0
    BY <1>2, <1>7, PartialSumRec
  <2> QED BY <2>2, <2>3
<1> QED BY <1>7, <1>8

\* What a user has earned depends on its record, the conditions and the time.
LEMMA KeptEarns ==
  ASSUME NEW u \in User, UNCHANGED <<now, stakingConditions>>,
         amountStaked'[u] = amountStaked[u], timeOfLastUpdate'[u] = timeOfLastUpdate[u],
         conditionIdOflastUpdate'[u] = conditionIdOflastUpdate[u]
  PROVE  Earned(u)' = Earned(u)
<1>1. /\ nextConditionId' = nextConditionId
      /\ \A i : /\ Condition(i)' = Condition(i) /\ EndTime(i)' = EndTime(i)
                /\ StartTime(u, i)' = StartTime(u, i)
  BY DEF nextConditionId, Condition, EndTime, StartTime
<1>2. \A i : Elapsed(u, i)' = Elapsed(u, i)
  BY <1>1 DEF Elapsed
<1>3. Passed(u)' = Passed(u)
  BY <1>1 DEF Passed
<1>4. \A i : Worth(u, i)' = Worth(u, i)
  BY <1>1, <1>2, <1>3 DEF Worth
<1> QED BY <1>1, <1>4 DEF Earned

\* Without a stake nothing is earned.
LEMMA NothingEarned ==
  ASSUME ListsInv, TimesInv, NEW u \in User, amountStaked[u] = 0
  PROVE  Earned(u) = 0
<1> DEFINE n == nextConditionId
           f == [i \in 0..(n - 1) |-> Worth(u, i)]
<1>1. n \in Nat
  BY LastEnds
<1>2. \A i \in 0..(n - 1) : f[i] = 0
  <2>1. SUFFICES ASSUME NEW i \in 0..(n - 1), i \in Passed(u) PROVE Worth(u, i) = 0
    BY DEF Worth
  <2> DEFINE a == Elapsed(u, i)
             b == Condition(i).rewardsPerUnitTime
             c == SCALE \div Condition(i).timeUnit
  <2>2. a \in Nat /\ b \in Nat /\ c \in Nat
    BY <2>1, ElapsedNat, ConditionType, RatesNat, ProductNat
  <2>3. Worth(u, i) = a * 0 * b * c
    BY <2>1 DEF Worth
  <2> HIDE DEF a, b, c
  <2>4. a * 0 = 0 /\ 0 * b = 0 /\ 0 * c = 0
    BY <2>2
  <2> QED BY <2>3, <2>4
<1>3. f \in [0..(n - 1) -> Nat] /\ Earned(u) = PartialSum(f, n)[n]
  BY <1>2 DEF Earned
<1> HIDE DEF f, n
<1>4. 0 \in 0..n /\ n \in 0..n /\ 0 <= n
  BY <1>1
<1>5. PartialSum(f, n)[n] = PartialSum(f, n)[0]
  BY <1>1, <1>2, <1>3, <1>4, PartialSumFlat
<1>6. PartialSum(f, n)[0] = 0
  BY <1>1, <1>3, PartialSumRec
<1> QED BY <1>3, <1>5, <1>6
-----------------------------------------------------------------------------
(* Settlements and changes of the conditions *)

\* What a settlement does: it settles the record of its user alone, and adds
\* what it calculates, unless there was no stake.
LEMMA Settlement ==
  ASSUME ListsInv, TimesInv, NEW u \in User, StakeOrWithdraw(u)
  PROVE  /\ TimesInv' /\ MarkSettled(u) /\ UNCHANGED <<now, stakingConditions>>
         /\ \A v \in User \ {u} : amountStaked'[v] = amountStaked[v]
         /\ \/ /\ unclaimedRewards'
                    = [unclaimedRewards EXCEPT ![u] = @ + CalculateRewards(u)]
               /\ Settleable(u)
            \/ unclaimedRewards' = unclaimedRewards /\ amountStaked[u] = 0
<1>1. /\ MarkSettled(u) /\ UNCHANGED <<now, stakingConditions>>
      /\ \A v \in User \ {u} : amountStaked'[v] = amountStaked[v]
      /\ \/ /\ unclaimedRewards'
                 = [unclaimedRewards EXCEPT ![u] = @ + CalculateRewards(u)]
            /\ Settleable(u)
         \/ unclaimedRewards' = unclaimedRewards /\ amountStaked[u] = 0
  <2>1. CASE \E ids \in TokenLists : Stake(u, ids)
    <3>1. PICK ids \in TokenLists : Stake(u, ids)
      BY <2>1
    <3>2. /\ MarkSettled(u) /\ UNCHANGED <<now, stakingConditions>>
          /\ \/ /\ unclaimedRewards'
                     = [unclaimedRewards EXCEPT ![u] = @ + CalculateRewards(u)]
                /\ Settleable(u)
             \/ unclaimedRewards' = unclaimedRewards /\ amountStaked[u] = 0
      BY <3>1, Zenon DEF Stake, UpdateUnclaimedRewardsForStaker
    <3>3. amountStaked' = [amountStaked EXCEPT ![u] = @ + Len(ids)]
      BY <3>1 DEF Stake
    <3> QED BY <3>2, <3>3 DEF ListsInv
  <2>2. CASE \E ids \in SUBSET Token : Withdraw(u, ids)
    <3>1. PICK ids \in SUBSET Token : Withdraw(u, ids)
      BY <2>2
    <3>2. /\ MarkSettled(u) /\ UNCHANGED <<now, stakingConditions>>
          /\ unclaimedRewards' = [unclaimedRewards EXCEPT ![u] = @ + CalculateRewards(u)]
          /\ Settleable(u)
      BY <3>1, Zenon DEF Withdraw, UpdateUnclaimedRewardsForStaker
    <3>3. amountStaked' = [amountStaked EXCEPT ![u] = @ - Cardinality(ids)]
      BY <3>1 DEF Withdraw
    <3> QED BY <3>2, <3>3 DEF ListsInv
  <2> QED BY <2>1, <2>2 DEF StakeOrWithdraw
<1>2. unclaimedRewards' \in [User -> 0..UINT_MAX]
  <2>1. unclaimedRewards \in [User -> 0..UINT_MAX] /\ UINT_MAX \in Nat
    BY StakingAssumption DEF TimesInv
  <2>2. CalculateRewards(u) \in 0..UINT_MAX
    BY CalculatedBounds
  <2>3. ASSUME Settleable(u) PROVE unclaimedRewards[u] + CalculateRewards(u) <= UINT_MAX
    BY <2>3 DEF Settleable
  <2> QED BY <1>1, <2>1, <2>2, <2>3
<1> QED BY <1>1, <1>2, MarkedTimes

\* A claim settles too, and what it pays is no longer unclaimed.
LEMMA Claim ==
  ASSUME ListsInv, TimesInv, NEW u \in User, ClaimFromPot(u)
  PROVE  /\ TimesInv' /\ MarkSettled(u) /\ UNCHANGED <<now, stakingConditions, amountStaked>>
         /\ unclaimedRewards' = [unclaimedRewards EXCEPT ![u] = 0]
<1>1. /\ MarkSettled(u) /\ UNCHANGED <<now, stakingConditions, amountStaked>>
      /\ unclaimedRewards' = [unclaimedRewards EXCEPT ![u] = 0]
  BY DEF ClaimFromPot, ClaimRewards
<1>2. unclaimedRewards' \in [User -> 0..UINT_MAX]
  BY <1>1, StakingAssumption DEF TimesInv
<1> QED BY <1>1, <1>2, MarkedTimes

\* The records of the other users stay, and so does what they have earned.
LEMMA OthersEarn ==
  ASSUME TimesInv, NEW u \in User, MarkSettled(u), UNCHANGED <<now, stakingConditions>>,
         NEW v \in User \ {u}, amountStaked'[v] = amountStaked[v]
  PROVE  Earned(v)' = Earned(v)
<1>1. /\ timeOfLastUpdate'[v] = timeOfLastUpdate[v]
      /\ conditionIdOflastUpdate'[v] = conditionIdOflastUpdate[v]
  BY DEF MarkSettled, TimesInv
<1> QED BY <1>1, KeptEarns

\* The owner supersedes a condition by another, or only moves reward tokens.
LEMMA OwnerSupersedes ==
  ASSUME TimesInv, OwnerNext
  PROVE  \/ \E d \in Divisors, r \in Rates : SetStakingCondition(d, r)
         \/ UNCHANGED stakingVars
<1> DEFINE c == Condition(nextConditionId - 1)
<1>1. c.rewardsPerUnitTime \in Rates /\ c.timeUnit \in Divisors
  BY LastEnds, ConditionType DEF Divisors
<1>2. ASSUME NEW timeUnit \in TimeUnits, SetTimeUnit(timeUnit)
      PROVE  \E d \in Divisors, r \in Rates : SetStakingCondition(d, r)
  <2>1. SetStakingCondition(timeUnit, c.rewardsPerUnitTime) /\ timeUnit # 0
    BY <1>2 DEF SetTimeUnit, SetStakingCondition
  <2>2. timeUnit \in Divisors
    BY <2>1, StakingAssumption, ScaleAssumption DEF Divisors
  <2> QED BY <1>1, <2>1, <2>2
<1>3. ASSUME NEW s \in Rewards, SetRewardsPerUnitTime(s)
      PROVE  \E d \in Divisors, r \in Rates : SetStakingCondition(d, r)
  BY <1>1, <1>3 DEF SetRewardsPerUnitTime, Rates
<1> QED BY <1>2, <1>3 DEF OwnerNext
-----------------------------------------------------------------------------
(* The steps, as far as the accounting goes *)

EarnedStays(u) == Earned(u)' = Earned(u)

\* Nothing is earned, settled or paid.
Quiet ==
  /\ UNCHANGED <<now, unclaimedRewards, owed, divisions>>
  /\ \A u \in User : EarnedStays(u)

\* A second passes.
Passes ==
  /\ now' = now + 1
  /\ UNCHANGED <<unclaimedRewards, divisions>>
  /\ owed' = [u \in User |-> owed[u] + PerSecond(u)]
  /\ \A u \in User : PerSecond(u) \in Nat /\ Earned(u)' = Earned(u) + PerSecond(u)

\* The rewards of u are settled; what it had earned is not earned any more.
Resets(u) ==
  /\ now' = now
  /\ divisions' = [divisions EXCEPT ![u] = @ + OpenDivisions(u)]
  /\ Earned(u)' = 0
  /\ \A v \in User \ {u} : EarnedStays(v)

Collects(u) ==
  /\ Resets(u)
  /\ owed' = owed
  /\ \/ unclaimedRewards' = [unclaimedRewards EXCEPT ![u] = @ + CalculateRewards(u)]
     \/ unclaimedRewards' = unclaimedRewards /\ Earned(u) = 0

Pays(u) ==
  /\ Resets(u)
  /\ owed' = [owed EXCEPT ![u] = @ - SCALE * (unclaimedRewards[u] + CalculateRewards(u))]
  /\ unclaimedRewards' = [unclaimedRewards EXCEPT ![u] = 0]

TimedInv == ListsInv /\ TimesInv

\* Both hold when the contract is created.
LEMMA TimedInit == AccrualInit => TimedInv
BY ListsInit, TimesInit DEF TimedInv

\* Nothing is earned where no time passes and no record changes.
LEMMA QuietStep ==
  ASSUME TimedInv, ListsInv', UNCHANGED <<now, stakingConditions, stakers, owed, divisions>>
  PROVE  TimedInv' /\ Quiet
<1>1. TimesInv'
  BY DEF TimedInv, TimesInv, nextConditionId, Condition, EndTime, Rates, stakers
<1>2. \A u \in User : EarnedStays(u)
  BY KeptEarns DEF stakers, EarnedStays
<1>3. UNCHANGED <<now, unclaimedRewards, owed, divisions>>
  BY DEF stakers
<1> QED BY <1>1, <1>2, <1>3 DEF TimedInv, Quiet

\* Every step is one of these, and keeps the times and the lists.
LEMMA Effects ==
  ASSUME TimedInv, [AccrualNext]_accrualVars
  PROVE  TimedInv' /\ (Quiet \/ Passes \/ \E u \in User : Collects(u) \/ Pays(u))
<1>1. ListsInv /\ TimesInv /\ ListsInv'
  BY ListsStep DEF TimedInv
<1>2. ASSUME Tick, owed' = [u \in User |-> owed[u] + PerSecond(u)], UNCHANGED divisions
      PROVE  TimedInv' /\ Passes
  <2>1. TimesInv'
    BY <1>1, <1>2, TickTimes
  <2>2. \A u \in User : PerSecond(u) \in Nat /\ Earned(u)' = Earned(u) + PerSecond(u)
    BY <1>1, <1>2, TickEarns
  <2>3. now' = now + 1 /\ UNCHANGED unclaimedRewards
    BY <1>2 DEF Tick, stakers
  <2> QED BY <1>1, <1>2, <2>1, <2>2, <2>3 DEF TimedInv, Passes
<1>3. ASSUME OwnerNext, UNCHANGED <<owed, divisions>> PROVE TimedInv' /\ Quiet
  <2>1. ASSUME NEW d \in Divisors, NEW r \in Rates, SetStakingCondition(d, r)
        PROVE  TimedInv' /\ Quiet
    <3>1. TimesInv'
      <4>1. PICK n : n = nextConditionId
        OBVIOUS
      <4> QED BY <1>1, <2>1, <4>1, SupersededTimes
    <3>2. \A u \in User : EarnedStays(u)
      BY <1>1, <2>1, SupersededEarns DEF EarnedStays
    <3>3. UNCHANGED <<now, unclaimedRewards>>
      BY <2>1 DEF SetStakingCondition, stakers
    <3> QED BY <1>1, <1>3, <3>1, <3>2, <3>3 DEF TimedInv, Quiet
  <2>2. ASSUME UNCHANGED stakingVars PROVE TimedInv' /\ Quiet
    BY <1>1, <1>3, <2>2, QuietStep DEF stakingVars
  <2> QED BY <1>1, <1>3, <2>1, <2>2, OwnerSupersedes
<1>4. ASSUME NEW u \in User, StakeOrWithdraw(u), Settles(u) PROVE TimedInv' /\ Collects(u)
  <2>1. /\ TimesInv' /\ MarkSettled(u) /\ UNCHANGED <<now, stakingConditions>>
        /\ \A v \in User \ {u} : amountStaked'[v] = amountStaked[v]
        /\ \/ unclaimedRewards' = [unclaimedRewards EXCEPT ![u] = @ + CalculateRewards(u)]
           \/ unclaimedRewards' = unclaimedRewards /\ amountStaked[u] = 0
    BY <1>1, <1>4, Settlement
  <2>2. Earned(u)' = 0 /\ \A v \in User \ {u} : EarnedStays(v)
    BY <1>1, <2>1, SettledEarns, OthersEarn DEF EarnedStays
  <2>3. amountStaked[u] = 0 => Earned(u) = 0
    BY <1>1, NothingEarned
  <2> QED BY <1>1, <1>4, <2>1, <2>2, <2>3 DEF TimedInv, Settles, Collects, Resets
<1>5. ASSUME NEW u \in User, ClaimFromPot(u), Paid(u) PROVE TimedInv' /\ Pays(u)
  <2>1. /\ TimesInv' /\ MarkSettled(u) /\ UNCHANGED <<now, stakingConditions, amountStaked>>
        /\ unclaimedRewards' = [unclaimedRewards EXCEPT ![u] = 0]
    BY <1>1, <1>5, Claim
  <2>2. Earned(u)' = 0 /\ \A v \in User \ {u} : EarnedStays(v)
    BY <1>1, <2>1, SettledEarns, OthersEarn DEF EarnedStays
  <2> QED BY <1>1, <1>5, <2>1, <2>2 DEF TimedInv, Paid, Pays, Resets
<1>6. ASSUME NEW u \in User, TransferAround(u), UNCHANGED <<owed, divisions>>
      PROVE  TimedInv' /\ Quiet
  BY <1>1, <1>6, QuietStep DEF TransferAround, DirectTransfer
<1>7. ASSUME UNCHANGED accrualVars PROVE TimedInv' /\ Quiet
  BY <1>1, <1>7, QuietStep DEF accrualVars, baseVars, stakingVars
<1> QED BY <1>2, <1>3, <1>4, <1>5, <1>6, <1>7 DEF AccrualNext
-----------------------------------------------------------------------------
(* No second paid twice *)

\* The ledgers of the accounting are numbers, and that of what is owed covers,
\* for every user, what is settled and not claimed and what is earned since.
OwedInv ==
  /\ owed \in [User -> Nat] /\ divisions \in [User -> Nat]
  /\ \A u \in User : SCALE * unclaimedRewards[u] + Earned(u) <= owed[u]

AccrualInv == TimedInv /\ OwedInv

\* The divisions of a settlement are a number.
LEMMA DivisionsNat ==
  ASSUME TimesInv, NEW u \in User
  PROVE  OpenDivisions(u) \in Nat
<1> DEFINE D == {i \in conditionIdOflastUpdate[u]..(nextConditionId - 1) :
                  ((EndTime(i) - StartTime(u, i)) * amountStaked[u]
                     * Condition(i).rewardsPerUnitTime) % Condition(i).timeUnit # 0}
           I == conditionIdOflastUpdate[u]..(nextConditionId - 1)
<1>1. conditionIdOflastUpdate[u] \in Int /\ nextConditionId - 1 \in Int
  BY LastEnds DEF TimesInv
<1>2. IsFiniteSet(I)
  BY <1>1, FS_Interval
<1>3. D \subseteq I
  OBVIOUS
<1> HIDE DEF D, I
<1>4. IsFiniteSet(D) /\ Cardinality(D) \in Nat
  BY <1>2, <1>3, FS_Subset, FS_CardinalityType
<1> QED BY <1>4 DEF OpenDivisions, D

\* What is settled, calculated and earned, scaled.
LEMMA Scaled ==
  ASSUME TimedInv, NEW u \in User
  PROVE  /\ SCALE \in Nat \ {0} /\ UINT_MAX \in Nat
         /\ unclaimedRewards \in [User -> 0..UINT_MAX] /\ unclaimedRewards[u] \in Nat
         /\ CalculateRewards(u) \in Nat /\ Earned(u) \in Nat
         /\ SCALE * unclaimedRewards[u] \in Nat /\ SCALE * CalculateRewards(u) \in Nat
         /\ SCALE * (unclaimedRewards[u] + CalculateRewards(u))
              = SCALE * unclaimedRewards[u] + SCALE * CalculateRewards(u)
         /\ SCALE * CalculateRewards(u) <= Earned(u)
         /\ SCALE * 0 = 0
<1> DEFINE w == unclaimedRewards[u]
           x == CalculateRewards(u)
<1>1. SCALE \in Nat \ {0} /\ UINT_MAX \in Nat
  BY StakingAssumption, ScaleAssumption
<1>2. unclaimedRewards \in [User -> 0..UINT_MAX] /\ w \in Nat
  BY <1>1 DEF TimedInv, TimesInv
<1>3. x \in Nat /\ Earned(u) \in Nat /\ SCALE * x <= Earned(u)
  BY <1>1, CalculatedBounds DEF TimedInv
<1> HIDE DEF w, x
<1>4. SCALE * w \in Nat /\ SCALE * x \in Nat /\ SCALE * (w + x) = SCALE * w + SCALE * x
      /\ SCALE * 0 = 0
  BY <1>1, <1>2, <1>3
<1> QED BY <1>1, <1>2, <1>3, <1>4 DEF w, x

\* Nothing is owed when the contract is created.
LEMMA AccrualInitInv == AccrualInit => AccrualInv
<1>1. SUFFICES ASSUME AccrualInit PROVE AccrualInv
  OBVIOUS
<1>2. TimedInv
  BY <1>1, TimedInit
<1>3. /\ owed = [u \in User |-> 0] /\ divisions = [u \in User |-> 0]
      /\ unclaimedRewards = [u \in User |-> 0] /\ amountStaked = [u \in User |-> 0]
  BY <1>1 DEF AccrualInit, BaseInit, StakingInit
<1>4. \A u \in User : Earned(u) = 0
  BY <1>2, <1>3, NothingEarned DEF TimedInv
<1>5. SCALE * 0 = 0
  BY ScaleAssumption
<1>6. OwedInv
  BY <1>3, <1>4, <1>5 DEF OwedInv
<1> QED BY <1>2, <1>6 DEF AccrualInv

\* Whatever happens to another user.
LEMMA OwedByOthers ==
  ASSUME AccrualInv, NEW u \in User, Resets(u), NEW v \in User \ {u},
         owed'[v] = owed[v], unclaimedRewards'[v] = unclaimedRewards[v]
  PROVE  SCALE * unclaimedRewards'[v] + Earned(v)' <= owed'[v]
BY DEF AccrualInv, OwedInv, Resets, EarnedStays

\* What is owed still covers it after every step.
LEMMA AccrualStep == AccrualInv /\ [AccrualNext]_accrualVars => AccrualInv'
<1>1. SUFFICES ASSUME AccrualInv, [AccrualNext]_accrualVars PROVE AccrualInv'
  OBVIOUS
<1>2. TimedInv /\ TimedInv' /\ (Quiet \/ Passes \/ \E u \in User : Collects(u) \/ Pays(u))
  BY <1>1, Effects DEF AccrualInv
<1>3. /\ owed \in [User -> Nat] /\ divisions \in [User -> Nat]
      /\ \A u \in User : SCALE * unclaimedRewards[u] + Earned(u) <= owed[u]
      /\ unclaimedRewards \in [User -> 0..UINT_MAX]
  BY <1>1 DEF AccrualInv, OwedInv, TimedInv, TimesInv
<1>4. CASE Quiet
  BY <1>2, <1>3, <1>4 DEF AccrualInv, OwedInv, Quiet, EarnedStays
<1>5. CASE Passes
  <2>1. owed' \in [User -> Nat] /\ divisions' \in [User -> Nat]
    BY <1>3, <1>5 DEF Passes
  <2>2. ASSUME NEW u \in User PROVE SCALE * unclaimedRewards'[u] + Earned(u)' <= owed'[u]
    <3>1. /\ owed'[u] = owed[u] + PerSecond(u) /\ Earned(u)' = Earned(u) + PerSecond(u)
          /\ unclaimedRewards' = unclaimedRewards /\ PerSecond(u) \in Nat
      BY <1>5 DEF Passes
    <3>2. SCALE * unclaimedRewards[u] \in Nat /\ Earned(u) \in Nat /\ owed[u] \in Nat
      BY <1>2, <1>3, Scaled
    <3> QED BY <1>3, <3>1, <3>2
  <2> QED BY <1>2, <2>1, <2>2 DEF AccrualInv, OwedInv
<1>6. ASSUME NEW u \in User, Collects(u) PROVE AccrualInv'
  <2>1. owed' = owed /\ divisions' \in [User -> Nat]
    BY <1>2, <1>3, <1>6, DivisionsNat DEF Collects, Resets, TimedInv
  <2>2. ASSUME NEW v \in User \ {u} PROVE SCALE * unclaimedRewards'[v] + Earned(v)' <= owed'[v]
    <3>1. unclaimedRewards'[v] = unclaimedRewards[v]
      BY <1>3, <1>6 DEF Collects
    <3> QED BY <1>1, <1>6, <2>1, <3>1, OwedByOthers DEF Collects
  <2>3. SCALE * unclaimedRewards'[u] + Earned(u)' <= owed'[u]
    <3>1. /\ Earned(u)' = 0
          /\ \/ unclaimedRewards'[u] = unclaimedRewards[u] + CalculateRewards(u)
             \/ unclaimedRewards'[u] = unclaimedRewards[u]
      BY <1>3, <1>6 DEF Collects, Resets
    <3>2. SCALE * unclaimedRewards[u] + Earned(u) <= owed[u] /\ owed[u] \in Nat
      BY <1>3
    <3> QED BY <1>2, <2>1, <3>1, <3>2, Scaled
  <2> QED BY <1>2, <1>3, <2>1, <2>2, <2>3 DEF AccrualInv, OwedInv
<1>7. ASSUME NEW u \in User, Pays(u) PROVE AccrualInv'
  <2>1. /\ owed' = [owed EXCEPT ![u] = @ - SCALE * (unclaimedRewards[u] + CalculateRewards(u))]
        /\ unclaimedRewards' = [unclaimedRewards EXCEPT ![u] = 0]
        /\ Resets(u)
    BY <1>7 DEF Pays
  <2>2. owed' \in [User -> Nat]
    <3>1. SCALE * unclaimedRewards[u] + Earned(u) <= owed[u] /\ owed[u] \in Nat
      BY <1>3
    <3>2. owed[u] - SCALE * (unclaimedRewards[u] + CalculateRewards(u)) \in Nat
      BY <1>2, <3>1, Scaled
    <3> QED BY <1>3, <2>1, <3>2
  <2>3. divisions' \in [User -> Nat]
    BY <1>2, <1>3, <2>1, DivisionsNat DEF Resets, TimedInv
  <2>4. ASSUME NEW v \in User \ {u} PROVE SCALE * unclaimedRewards'[v] + Earned(v)' <= owed'[v]
    <3>1. unclaimedRewards'[v] = unclaimedRewards[v] /\ owed'[v] = owed[v]
      BY <1>3, <2>1
    <3> QED BY <1>1, <2>1, <3>1, OwedByOthers
  <2>5. SCALE * unclaimedRewards'[u] + Earned(u)' <= owed'[u]
    <3>1. unclaimedRewards'[u] = 0 /\ Earned(u)' = 0 /\ owed'[u] \in Nat
      BY <1>3, <2>1, <2>2 DEF Resets
    <3> QED BY <1>2, <3>1, Scaled
  <2> QED BY <1>2, <2>2, <2>3, <2>4, <2>5 DEF AccrualInv, OwedInv
<1> QED BY <1>2, <1>4, <1>5, <1>6, <1>7

\* What the view shows is covered, then.
LEMMA NotOverpaid == AccrualInv => NeverOverpaid
<1>1. SUFFICES ASSUME AccrualInv, NEW u \in User
               PROVE  SCALE * AvailableRewards(u) <= owed[u]
  BY DEF NeverOverpaid
<1>2. TimedInv /\ SCALE * unclaimedRewards[u] + Earned(u) <= owed[u] /\ owed[u] \in Nat
  BY <1>1 DEF AccrualInv, OwedInv
<1>3. \/ AvailableRewards(u) = unclaimedRewards[u]
      \/ AvailableRewards(u) = unclaimedRewards[u] + CalculateRewards(u)
  BY DEF AvailableRewards
<1> QED BY <1>2, <1>3, Scaled

\* NeverOverpaid, for any collection, users and histories of conditions:
\* however the time unit and the rewards change between two settlements, no
\* second is paid twice or at a rate that was not in force.
THEOREM NoneOverpaid == AccrualSpec => []NeverOverpaid
<1>1. AccrualInit => AccrualInv
  BY AccrualInitInv
<1>2. AccrualInv /\ [AccrualNext]_accrualVars => AccrualInv'
  BY AccrualStep
<1>3. AccrualInv => NeverOverpaid
  BY NotOverpaid
<1> QED BY <1>1, <1>2, <1>3, PTL DEF AccrualSpec
-----------------------------------------------------------------------------
(* No settlement refused, and no second lost *)

\* R bounds the rewards, and what all tokens earn in the time there is fits
\* into a word.
Fits(R) ==
  /\ R \in Nat \ {0} /\ \A r \in Rates : r <= R
  /\ MaxTime * (Cardinality(Token) * R) <= UINT_MAX

RewardsFit == \E R : Fits(R)

\* SCALE times what all tokens earn in a second, at most.
Ceiling(R) == SCALE * (Cardinality(Token) * R)

FitInv(R) == AccrualInv /\ \A u \in User : owed[u] <= now * Ceiling(R)

\* The bounds are naturals.
LEMMA CeilingNat ==
  ASSUME NEW R, Fits(R)
  PROVE  /\ R \in Nat \ {0} /\ Cardinality(Token) \in Nat /\ SCALE \in Nat \ {0}
         /\ Cardinality(Token) * R \in Nat /\ Ceiling(R) \in Nat
         /\ MaxTime \in Nat /\ UINT_MAX \in Nat
<1>1. Cardinality(Token) \in Nat
  BY StakingAssumption, FS_CardinalityType
<1>2. SCALE \in Nat \ {0} /\ R \in Nat \ {0} /\ MaxTime \in Nat /\ UINT_MAX \in Nat
  BY ScaleAssumption, StakingAssumption DEF Fits
<1>3. Cardinality(Token) * R \in Nat
  BY <1>1, <1>2, MulNat
<1>4. SCALE * (Cardinality(Token) * R) \in Nat
  BY <1>2, <1>3, MulNat
<1> QED BY <1>1, <1>2, <1>3, <1>4 DEF Ceiling

\* Nobody stakes more tokens than there are.
LEMMA AmountBound ==
  ASSUME ListsInv, NEW u \in User
  PROVE  amountStaked[u] \in Nat /\ amountStaked[u] <= Cardinality(Token)
<1>1. Held(u) \subseteq Token /\ IsFiniteSet(Token)
  BY StakingAssumption DEF Held
<1>2. Cardinality(Held(u)) <= Cardinality(Token)
  BY <1>1, FS_Subset
<1> QED BY <1>2 DEF ListsInv

\* What a second adds is below the ceiling.
LEMMA PerSecondBound ==
  ASSUME TimedInv, NEW R, Fits(R), NEW u \in User
  PROVE  PerSecond(u) <= Ceiling(R)
<1> DEFINE c == Condition(nextConditionId - 1)
           a == amountStaked[u]
           r == c.rewardsPerUnitTime
           d == c.timeUnit
           m == SCALE \div d
           T == Cardinality(Token)
<1>1. a \in Nat /\ a <= T /\ T \in Nat /\ R \in Nat /\ SCALE \in Nat \ {0}
  BY AmountBound, CeilingNat DEF TimedInv
<1>2. r \in Nat /\ r <= R /\ d \in Nat \ {0} /\ SCALE % d = 0
  <2>1. r \in Rates /\ d \in Nat \ {0} /\ SCALE % d = 0
    BY LastEnds, ConditionType DEF TimedInv
  <2> QED BY <2>1, RatesNat DEF Fits
<1>3. m \in Nat /\ SCALE = d * m
  BY <1>1, <1>2, ScaleDivides
<1>4. PerSecond(u) = a * r * m
  BY DEF PerSecond
<1> HIDE DEF a, r, d, m, T, c
<1>5. m <= SCALE
  <2>1. 1 * m <= d * m
    BY <1>2, <1>3, ProductBound
  <2> QED BY <1>3, <2>1
<1>6. a * r \in Nat /\ T * R \in Nat /\ a * r <= T * R
  BY <1>1, <1>2, ProductBound
<1>7. (a * r) * m <= (T * R) * SCALE
  BY <1>1, <1>3, <1>5, <1>6, ProductBound
<1>8. (T * R) * SCALE = SCALE * (T * R)
  BY <1>1, <1>6
<1> QED BY <1>4, <1>7, <1>8 DEF Ceiling, T

\* The bound holds when the contract is created.
LEMMA FitInit == ASSUME NEW R, Fits(R) PROVE AccrualInit => FitInv(R)
<1>1. SUFFICES ASSUME AccrualInit PROVE FitInv(R)
  OBVIOUS
<1>2. AccrualInv /\ owed = [u \in User |-> 0] /\ now = 1
  BY <1>1, AccrualInitInv DEF AccrualInit, BaseInit, StakingInit
<1>3. 1 * Ceiling(R) >= 0
  BY CeilingNat
<1> QED BY <1>2, <1>3 DEF FitInv

\* Only the passing of time adds to what is owed.
LEMMA FitStep ==
  ASSUME NEW R, Fits(R)
  PROVE  FitInv(R) /\ [AccrualNext]_accrualVars => FitInv(R)'
<1>1. SUFFICES ASSUME FitInv(R), [AccrualNext]_accrualVars PROVE FitInv(R)'
  OBVIOUS
<1>2. /\ AccrualInv /\ AccrualInv' /\ TimedInv
      /\ Quiet \/ Passes \/ \E u \in User : Collects(u) \/ Pays(u)
  BY <1>1, AccrualStep, Effects DEF FitInv, AccrualInv
<1>3. /\ owed \in [User -> Nat] /\ now \in Nat
      /\ \A u \in User : owed[u] <= now * Ceiling(R)
  BY <1>1, <1>2, LastEnds DEF FitInv, AccrualInv, OwedInv, TimedInv
<1>4. Ceiling(R) \in Nat /\ SCALE \in Nat
  BY CeilingNat
<1>5. ASSUME now' = now, \A u \in User : owed'[u] <= owed[u] PROVE FitInv(R)'
  <2>1. owed' \in [User -> Nat]
    BY <1>2 DEF AccrualInv, OwedInv
  <2>2. now * Ceiling(R) \in Nat
    BY <1>3, <1>4, MulNat
  <2>3. \A u \in User : owed'[u] <= now * Ceiling(R)
    BY <1>3, <1>5, <2>1, <2>2
  <2>4. \A u \in User : owed'[u] <= now' * Ceiling(R)
    BY <1>5, <2>3
  <2> QED BY <1>2, <2>4 DEF FitInv, Ceiling
<1>6. CASE Quiet
  BY <1>3, <1>5, <1>6 DEF Quiet
<1>7. CASE Passes
  <2>1. ASSUME NEW u \in User PROVE owed'[u] <= now' * Ceiling(R)
    <3>1. owed'[u] = owed[u] + PerSecond(u) /\ PerSecond(u) \in Nat /\ now' = now + 1
      BY <1>7 DEF Passes
    <3>2. PerSecond(u) <= Ceiling(R)
      BY <1>2, PerSecondBound
    <3>3. (now + 1) * Ceiling(R) = now * Ceiling(R) + Ceiling(R) /\ now * Ceiling(R) \in Nat
      BY <1>3, <1>4
    <3>4. owed[u] \in Nat /\ owed[u] <= now * Ceiling(R)
      BY <1>3
    <3> QED BY <1>4, <3>1, <3>2, <3>3, <3>4
  <2> QED BY <1>2, <2>1 DEF FitInv, Ceiling
<1>8. ASSUME NEW u \in User, Collects(u) PROVE FitInv(R)'
  BY <1>3, <1>5, <1>8 DEF Collects, Resets
<1>9. ASSUME NEW u \in User, Pays(u) PROVE FitInv(R)'
  <2>1. /\ owed' = [owed EXCEPT ![u] = @ - SCALE * (unclaimedRewards[u] + CalculateRewards(u))]
        /\ now' = now
    BY <1>9 DEF Pays, Resets
  <2>2. SCALE * (unclaimedRewards[u] + CalculateRewards(u)) \in Nat
    BY <1>2, Scaled
  <2>3. \A v \in User : owed'[v] <= owed[v]
    BY <1>3, <2>1, <2>2
  <2> QED BY <1>5, <2>1, <2>3
<1> QED BY <1>2, <1>6, <1>7, <1>8, <1>9

\* No product of a settlement leaves the word.
LEMMA ProductFits ==
  ASSUME TimedInv, NEW R, Fits(R), NEW u \in User, NEW i \in Passed(u)
  PROVE  Elapsed(u, i) * amountStaked[u] <= UINT_MAX /\ Product(u, i) <= UINT_MAX
<1> DEFINE e == Elapsed(u, i)
           a == amountStaked[u]
           r == Condition(i).rewardsPerUnitTime
           T == Cardinality(Token)
<1>1. e \in Nat /\ e <= MaxTime /\ MaxTime \in Nat
  BY ElapsedNat, LastEnds, StakingAssumption DEF TimedInv
<1>2. a \in Nat /\ a <= T /\ T \in Nat
  BY AmountBound, CeilingNat DEF TimedInv
<1>3. r \in Nat /\ r <= R /\ R \in Nat \ {0}
  BY ElapsedNat, ConditionType, RatesNat DEF TimedInv, Fits
<1>4. MaxTime * (T * R) <= UINT_MAX /\ UINT_MAX \in Nat
  BY CeilingNat DEF Fits
<1>5. Product(u, i) = e * a * r
  BY DEF Product
<1> HIDE DEF e, a, r, T
<1>6. e * a \in Nat /\ MaxTime * T \in Nat /\ e * a <= MaxTime * T
  BY <1>1, <1>2, ProductBound
<1>7. /\ (e * a) * r \in Nat /\ (MaxTime * T) * R \in Nat
      /\ (e * a) * r <= (MaxTime * T) * R
  BY <1>3, <1>6, ProductBound
<1>8. (MaxTime * T) * R = MaxTime * (T * R)
  BY <1>1, <1>2, <1>3
<1>9. (MaxTime * T) * 1 <= (MaxTime * T) * R
  BY <1>3, <1>6, ProductBound
<1>10. (MaxTime * T) * 1 = MaxTime * T
  BY <1>6
<1>11. e * a <= UINT_MAX
  BY <1>4, <1>6, <1>7, <1>8, <1>9, <1>10
<1>12. (e * a) * r <= UINT_MAX
  BY <1>4, <1>7, <1>8
<1> QED BY <1>5, <1>11, <1>12 DEF e, a

\* The parts of a settlement, all of them.
AllParts(u) ==
  PartialSum([i \in 0..(nextConditionId - 1) |-> Part(u, i)], nextConditionId)[nextConditionId]

\* No more than what was earned.
LEMMA PartsBelowEarned ==
  ASSUME TimedInv, NEW u \in User
  PROVE  AllParts(u) \in Nat /\ SCALE * AllParts(u) <= Earned(u)
<1> DEFINE n == nextConditionId
           f == [i \in 0..(n - 1) |-> Part(u, i)]
           g == [i \in 0..(n - 1) |-> Worth(u, i)]
           max == PartialSum(f, n)[n]
<1>1. n \in Nat /\ SCALE \in Nat
  BY LastEnds, ScaleAssumption DEF TimedInv
<1>2. /\ f \in [0..(n - 1) -> Nat] /\ g \in [0..(n - 1) -> Nat]
      /\ \A i \in 0..(n - 1) : SCALE * f[i] <= g[i]
  BY PartBounds DEF TimedInv
<1>3. AllParts(u) = max /\ Earned(u) = PartialSum(g, n)[n]
  BY DEF AllParts, Earned
<1> HIDE DEF n, f, g
<1>4. max \in Nat
  BY <1>1, <1>2, PartialSumRec
<1>5. CheckedSum(f, n, max)[n] = max
  <2>1. PartialSum(f, n)[n] <= max
    BY <1>4
  <2> HIDE DEF max
  <2>2. CheckedSum(f, n, max)[n] = PartialSum(f, n)[n]
    BY <1>1, <1>2, <1>4, <2>1, CheckedSumExact
  <2> QED BY <2>2 DEF max
<1> HIDE DEF max
<1>6. SCALE * CheckedSum(f, n, max)[n] <= PartialSum(g, n)[n]
  BY <1>1, <1>2, <1>4, CheckedSumLe
<1> QED BY <1>3, <1>4, <1>5, <1>6

\* What is owed fits, so nothing of a settlement is left out.
LEMMA Exact ==
  ASSUME NEW R, Fits(R), FitInv(R), NEW u \in User
  PROVE  /\ CalculateRewards(u) = AllParts(u)
         /\ unclaimedRewards[u] + CalculateRewards(u) <= UINT_MAX
<1> DEFINE w == unclaimedRewards[u]
           x == CalculateRewards(u)
           p == AllParts(u)
           K == Cardinality(Token) * R
<1>1. TimedInv /\ AccrualInv
  BY DEF FitInv, AccrualInv
<1>2. /\ SCALE \in Nat \ {0} /\ UINT_MAX \in Nat /\ w \in Nat /\ x \in Nat
      /\ SCALE * w \in Nat /\ SCALE * x <= Earned(u) /\ Earned(u) \in Nat
  BY <1>1, Scaled
<1>3. p \in Nat /\ SCALE * p <= Earned(u)
  BY <1>1, PartsBelowEarned
<1>4. SCALE * w + Earned(u) <= owed[u] /\ owed[u] \in Nat /\ owed[u] <= now * Ceiling(R)
  BY DEF FitInv, AccrualInv, OwedInv
<1>5. /\ K \in Nat /\ MaxTime \in Nat /\ now \in Nat /\ now <= MaxTime
      /\ MaxTime * K <= UINT_MAX /\ Ceiling(R) = SCALE * K
  BY <1>1, CeilingNat, LastEnds DEF TimedInv, Fits, Ceiling
<1> HIDE DEF w, x, p, K
<1>6. now * (SCALE * K) <= SCALE * UINT_MAX /\ SCALE * UINT_MAX \in Nat
  <2>1. now * K \in Nat /\ MaxTime * K \in Nat /\ now * K <= MaxTime * K
    BY <1>5, ProductBound
  <2>2. SCALE * (now * K) <= SCALE * UINT_MAX /\ SCALE * UINT_MAX \in Nat
    BY <1>2, <1>5, <2>1, ProductBound
  <2>3. now * (SCALE * K) = SCALE * (now * K)
    BY <1>2, <1>5
  <2> QED BY <2>2, <2>3
<1>7. SCALE * w + Earned(u) <= SCALE * UINT_MAX
  <2>1. owed[u] <= SCALE * UINT_MAX
    <3> DEFINE c == SCALE * UINT_MAX
    <3>1. c \in Nat /\ now * (SCALE * K) <= c /\ owed[u] <= now * (SCALE * K)
      BY <1>4, <1>5, <1>6
    <3>2. now * (SCALE * K) \in Nat
      BY <1>2, <1>5, MulNat
    <3> HIDE DEF c
    <3>3. owed[u] <= c
      BY <1>4, <3>1, <3>2
    <3> QED BY <3>3 DEF c
  <2> DEFINE c == SCALE * UINT_MAX
             z == SCALE * w
  <2>2. c \in Nat /\ z \in Nat /\ owed[u] <= c /\ z + Earned(u) <= owed[u]
    BY <1>2, <1>4, <1>6, <2>1
  <2> HIDE DEF c, z
  <2>3. z + Earned(u) <= c
    BY <1>2, <1>4, <2>2
  <2> QED BY <2>3 DEF c, z
<1>8. p <= UINT_MAX
  <2>1. SCALE * p \in Nat
    BY <1>2, <1>3, MulNat
  <2>2. SCALE * p <= SCALE * UINT_MAX
    BY <1>2, <1>3, <1>6, <1>7, <2>1
  <2> QED BY <1>2, <1>3, <2>2, MulCancel
<1>9. w + x <= UINT_MAX
  <2>1. SCALE * (w + x) = SCALE * w + SCALE * x /\ SCALE * x \in Nat
    BY <1>2, MulNat
  <2>2. SCALE * (w + x) <= SCALE * UINT_MAX
    BY <1>2, <1>6, <1>7, <2>1
  <2>3. w + x \in Nat
    BY <1>2
  <2> QED BY <1>2, <2>2, <2>3, MulCancel
<1>10. x = p
  <2> DEFINE n == nextConditionId
             f == [i \in 0..(n - 1) |-> Part(u, i)]
  <2>1. n \in Nat /\ f \in [0..(n - 1) -> Nat]
    BY <1>1, LastEnds, PartBounds DEF TimedInv
  <2>2. x = CheckedSum(f, n, UINT_MAX)[n] /\ p = PartialSum(f, n)[n]
    BY DEF x, p, CalculateRewards, AllParts
  <2> HIDE DEF n, f
  <2>3. CheckedSum(f, n, UINT_MAX)[n] = PartialSum(f, n)[n]
    BY <1>2, <1>8, <2>1, <2>2, CheckedSumExact
  <2> QED BY <2>2, <2>3
<1> QED BY <1>9, <1>10 DEF w, x, p

\* Every settlement succeeds.
LEMMA FitSettles == ASSUME NEW R, Fits(R) PROVE FitInv(R) => AlwaysSettleable
<1>1. SUFFICES ASSUME FitInv(R) PROVE AlwaysSettleable
  OBVIOUS
<1>2. TimedInv
  BY <1>1 DEF FitInv, AccrualInv
<1>3. ASSUME NEW u \in User PROVE Settleable(u)
  <2>1. \A i \in Passed(u) : /\ StartTime(u, i) <= EndTime(i)
                             /\ Elapsed(u, i) * amountStaked[u] <= UINT_MAX
    <3>1. SUFFICES ASSUME NEW i \in Passed(u) PROVE StartTime(u, i) <= EndTime(i)
      BY <1>2, ProductFits
    <3>2. /\ EndTime(i) \in Nat /\ StartTime(u, i) \in Nat
          /\ EndTime(i) - StartTime(u, i) \in Nat
      BY <1>2, LastEnds, ElapsedNat DEF TimedInv, Elapsed
    <3> QED BY <3>2
  <2>2. unclaimedRewards[u] + CalculateRewards(u) <= UINT_MAX
    BY <1>1, Exact
  <2> QED BY <2>1, <2>2 DEF Settleable, Passed, Elapsed
<1>4. StakingTypeOK
  <2> DEFINE C == [timeUnit : Nat \ {0}, rewardsPerUnitTime : Rates,
                   startTimestamp : 1..now, endTimestamp : 0..now]
             D == [timeUnit : Nat \ {0}, rewardsPerUnitTime : Nat,
                   startTimestamp : Nat, endTimestamp : Nat]
  <2>1. \A c \in C : c \in D
    <3>1. 1..now \subseteq Nat /\ 0..now \subseteq Nat
      BY <1>2, LastEnds DEF TimedInv
    <3> QED BY <3>1, RatesNat
  <2>2. stakingConditions \in Seq(C)
    BY <1>2 DEF TimedInv, TimesInv
  <2> HIDE DEF C, D
  <2>3. stakingConditions \in Seq(D)
    BY <2>1, <2>2
  <2> USE DEF C, D
  <2> QED BY <1>2, <2>3, Zenon DEF TimedInv, ListsInv, TimesInv, StakingTypeOK
<1> QED BY <1>3, <1>4 DEF AlwaysSettleable

\* AlwaysSettleable, for any collection, users and histories of conditions
\* whose rewards fit into a word: neither a change of the conditions nor a
\* second one in the same second locks a stake.
THEOREM NoneLocked == RewardsFit => (AccrualSpec => []AlwaysSettleable)
<1>1. SUFFICES ASSUME NEW R, Fits(R) PROVE AccrualSpec => []AlwaysSettleable
  BY DEF RewardsFit
<1>2. AccrualInit => FitInv(R)
  BY <1>1, FitInit
<1>3. FitInv(R) /\ [AccrualNext]_accrualVars => FitInv(R)'
  BY <1>1, FitStep
<1>4. FitInv(R) => AlwaysSettleable
  BY <1>1, FitSettles
<1> QED BY <1>2, <1>3, <1>4, PTL DEF AccrualSpec

\* What a settlement loses: less than a unit for every open division.
LEMMA SettlementLoss ==
  ASSUME TimedInv, NEW R, Fits(R), NEW u \in User
  PROVE  Earned(u) <= SCALE * AllParts(u) + (SCALE - 1) * OpenDivisions(u)
<1> DEFINE n == nextConditionId
           open(i) == IF i \in Passed(u) /\ Product(u, i) % Condition(i).timeUnit # 0
                      THEN 1 ELSE 0
           e == [i \in 0..(n - 1) |-> Worth(u, i)]
           f == [i \in 0..(n - 1) |-> Part(u, i)]
           g == [i \in 0..(n - 1) |-> open(i)]
<1>1. n \in Nat /\ SCALE \in Nat \ {0} /\ SCALE - 1 \in Nat
  BY LastEnds, ScaleAssumption DEF TimedInv
<1>2. e \in [0..(n - 1) -> Nat] /\ f \in [0..(n - 1) -> Nat]
  BY PartBounds DEF TimedInv
<1>3. g \in [0..(n - 1) -> 0..1] /\ g \in [0..(n - 1) -> Nat]
  OBVIOUS
<1>4. \A i \in 0..(n - 1) : e[i] <= SCALE * f[i] + (SCALE - 1) * g[i]
  <2>1. SUFFICES ASSUME NEW i \in 0..(n - 1)
                 PROVE  Worth(u, i) <= SCALE * Part(u, i) + (SCALE - 1) * open(i)
    OBVIOUS
  <2>2. CASE i \notin Passed(u)
    <3>1. Worth(u, i) = 0 /\ Part(u, i) = 0 /\ open(i) = 0
      BY <2>2, PartValue DEF Worth, TimedInv
    <3>2. SCALE * 0 = 0 /\ (SCALE - 1) * 0 = 0
      BY <1>1
    <3> QED BY <3>1, <3>2
  <2>3. CASE i \in Passed(u)
    <3> DEFINE x == Product(u, i)
               d == Condition(i).timeUnit
               m == SCALE \div d
               q == x \div d
    <3>1. x \in Nat /\ d \in Nat \ {0} /\ SCALE % d = 0 /\ Worth(u, i) = x * m
      BY <2>3, ProductNat DEF TimedInv
    <3>2. Part(u, i) = q
      BY <2>3, ProductFits, PartValue DEF TimedInv
    <3>3. open(i) = IF x % d = 0 THEN 0 ELSE 1
      BY <2>3
    <3> HIDE DEF x, d, open
    <3>4. q \in Nat
      BY <3>1, DivNat
    <3>5. (x % d = 0 => x * m = SCALE * q) /\ x * m <= SCALE * q + (SCALE - 1)
      BY <1>1, <3>1, ScaledQuotient
    <3> HIDE DEF m, q
    <3>6. /\ (SCALE - 1) * 0 = 0 /\ (SCALE - 1) * 1 = SCALE - 1
          /\ SCALE * q \in Nat
      BY <1>1, <3>4
    <3> QED BY <1>1, <3>1, <3>2, <3>3, <3>5, <3>6
  <2> QED BY <2>2, <2>3
<1>5. Earned(u) = PartialSum(e, n)[n] /\ AllParts(u) = PartialSum(f, n)[n]
  BY DEF Earned, AllParts
<1>6. OpenDivisions(u) = Cardinality({k \in 0..(n - 1) : g[k] = 1})
  <2>1. conditionIdOflastUpdate[u] \in 0..(n - 1)
    BY DEF TimedInv, TimesInv
  <2>2. {i \in conditionIdOflastUpdate[u]..(n - 1) : Product(u, i) % Condition(i).timeUnit # 0}
          = {k \in 0..(n - 1) : g[k] = 1}
    <3>1. \A i \in 0..(n - 1) : i \in Passed(u) <=> i \in conditionIdOflastUpdate[u]..(n - 1)
      BY DEF Passed
    <3>2. conditionIdOflastUpdate[u]..(n - 1) \subseteq 0..(n - 1)
      BY <1>1, <2>1
    <3>3. \A k \in 0..(n - 1) :
            g[k] = 1 <=> k \in Passed(u) /\ Product(u, k) % Condition(k).timeUnit # 0
      OBVIOUS
    <3> HIDE DEF g, n
    <3> QED BY <3>1, <3>2, <3>3
  <2> QED BY <2>2 DEF OpenDivisions, Product, Elapsed
<1> HIDE DEF n, e, f, g
<1>7. PartialSum(g, n)[n] = Cardinality({k \in 0..(n - 1) : g[k] = 1})
  BY <1>1, <1>3, PartialSumCounts
<1>8. PartialSum(e, n)[n]
        <= SCALE * PartialSum(f, n)[n] + (SCALE - 1) * PartialSum(g, n)[n]
  BY <1>1, <1>2, <1>3, <1>4, PartialSumCombined
<1> QED BY <1>5, <1>6, <1>7, <1>8

\* What is owed and neither settled nor earned since was lost in a division.
LossInv ==
  \A u \in User :
    owed[u] <= SCALE * unclaimedRewards[u] + Earned(u) + (SCALE - 1) * divisions[u]

\* Nothing is lost when the contract is created.
LEMMA LossInit == AccrualInit => LossInv
<1>1. SUFFICES ASSUME AccrualInit PROVE LossInv
  OBVIOUS
<1>2. TimedInv
  BY <1>1, TimedInit
<1>3. /\ owed = [u \in User |-> 0] /\ divisions = [u \in User |-> 0]
      /\ unclaimedRewards = [u \in User |-> 0] /\ amountStaked = [u \in User |-> 0]
  BY <1>1 DEF AccrualInit, BaseInit, StakingInit
<1>4. \A u \in User : Earned(u) = 0
  BY <1>2, <1>3, NothingEarned DEF TimedInv
<1>5. SCALE * 0 = 0 /\ (SCALE - 1) * 0 = 0
  BY ScaleAssumption
<1> QED BY <1>3, <1>4, <1>5 DEF LossInv

\* The scaled ledgers, as numbers.
LEMMA ScaledLoss ==
  ASSUME AccrualInv, NEW u \in User
  PROVE  /\ owed[u] \in Nat /\ divisions[u] \in Nat /\ OpenDivisions(u) \in Nat
         /\ (SCALE - 1) * divisions[u] \in Nat /\ (SCALE - 1) * OpenDivisions(u) \in Nat
         /\ (SCALE - 1) * (divisions[u] + OpenDivisions(u))
              = (SCALE - 1) * divisions[u] + (SCALE - 1) * OpenDivisions(u)
<1>1. owed[u] \in Nat /\ divisions[u] \in Nat /\ OpenDivisions(u) \in Nat
  BY DivisionsNat DEF AccrualInv, OwedInv, TimedInv
<1> DEFINE c == SCALE - 1
           x == divisions[u]
           y == OpenDivisions(u)
<1>2. c \in Nat
  BY ScaleAssumption
<1> HIDE DEF c, x, y
<1>3. x \in Nat /\ y \in Nat
  BY <1>1 DEF x, y
<1>4. c * x \in Nat /\ c * y \in Nat /\ c * (x + y) = c * x + c * y
  BY <1>2, <1>3
<1> QED BY <1>1, <1>4 DEF c, x, y

\* Whatever happens to another user.
LEMMA LossOfOthers ==
  ASSUME LossInv, NEW u \in User, Resets(u), NEW v \in User \ {u},
         owed'[v] = owed[v], unclaimedRewards'[v] = unclaimedRewards[v],
         divisions'[v] = divisions[v]
  PROVE  owed'[v] <= SCALE * unclaimedRewards'[v] + Earned(v)' + (SCALE - 1) * divisions'[v]
BY DEF LossInv, Resets, EarnedStays

\* A step loses nothing but the remainders of its divisions.
LEMMA LossStep ==
  ASSUME NEW R, Fits(R)
  PROVE  FitInv(R) /\ LossInv /\ [AccrualNext]_accrualVars => LossInv'
<1>1. SUFFICES ASSUME FitInv(R), LossInv, [AccrualNext]_accrualVars PROVE LossInv'
  OBVIOUS
<1>2. /\ AccrualInv /\ TimedInv
      /\ Quiet \/ Passes \/ \E u \in User : Collects(u) \/ Pays(u)
  BY <1>1, Effects DEF FitInv, AccrualInv
<1>3. /\ owed \in [User -> Nat] /\ divisions \in [User -> Nat]
      /\ unclaimedRewards \in [User -> 0..UINT_MAX]
      /\ \A u \in User :
           owed[u] <= SCALE * unclaimedRewards[u] + Earned(u) + (SCALE - 1) * divisions[u]
  BY <1>1, <1>2 DEF AccrualInv, OwedInv, TimedInv, TimesInv, LossInv
<1>4. CASE Quiet
  BY <1>3, <1>4 DEF LossInv, Quiet, EarnedStays
<1>5. CASE Passes
  <2>1. ASSUME NEW u \in User
        PROVE  owed'[u] <= SCALE * unclaimedRewards'[u] + Earned(u)' + (SCALE - 1) * divisions'[u]
    <3>1. /\ owed'[u] = owed[u] + PerSecond(u) /\ Earned(u)' = Earned(u) + PerSecond(u)
          /\ unclaimedRewards' = unclaimedRewards /\ divisions' = divisions
          /\ PerSecond(u) \in Nat
      BY <1>5 DEF Passes
    <3>2. /\ SCALE * unclaimedRewards[u] \in Nat /\ Earned(u) \in Nat /\ owed[u] \in Nat
          /\ (SCALE - 1) * divisions[u] \in Nat
      BY <1>2, Scaled, ScaledLoss
    <3>3. owed[u] <= SCALE * unclaimedRewards[u] + Earned(u) + (SCALE - 1) * divisions[u]
      BY <1>3
    <3> QED BY <3>1, <3>2, <3>3
  <2> QED BY <2>1 DEF LossInv
<1>6. ASSUME NEW u \in User, Collects(u) PROVE LossInv'
  <2>1. /\ Resets(u) /\ owed' = owed
        /\ \A v \in User \ {u} : unclaimedRewards'[v] = unclaimedRewards[v]
                                 /\ divisions'[v] = divisions[v]
        /\ divisions'[u] = divisions[u] + OpenDivisions(u)
    BY <1>3, <1>6 DEF Collects, Resets
  <2>2. ASSUME NEW v \in User \ {u}
        PROVE  owed'[v] <= SCALE * unclaimedRewards'[v] + Earned(v)' + (SCALE - 1) * divisions'[v]
    BY <1>1, <2>1, LossOfOthers
  <2>3. owed'[u] <= SCALE * unclaimedRewards'[u] + Earned(u)' + (SCALE - 1) * divisions'[u]
    <3> DEFINE a == SCALE * unclaimedRewards[u]
               b == SCALE * CalculateRewards(u)
               c == (SCALE - 1) * divisions[u]
               d == (SCALE - 1) * OpenDivisions(u)
    <3>1. /\ a \in Nat /\ b \in Nat /\ c \in Nat /\ d \in Nat
          /\ Earned(u) \in Nat /\ owed[u] \in Nat
          /\ SCALE * (unclaimedRewards[u] + CalculateRewards(u)) = a + b
          /\ (SCALE - 1) * divisions'[u] = c + d
      BY <1>2, <2>1, Scaled, ScaledLoss
    <3>2. owed[u] <= a + Earned(u) + c
      BY <1>3
    <3>3. Earned(u) <= b + d
      BY <1>1, <1>2, Exact, SettlementLoss
    <3>4. Earned(u)' = 0
      BY <2>1 DEF Resets
    <3>5. \/ SCALE * unclaimedRewards'[u] = a + b
          \/ SCALE * unclaimedRewards'[u] = a /\ Earned(u) = 0
      BY <1>3, <1>6, <3>1 DEF Collects
    <3> HIDE DEF a, b, c, d
    <3> QED BY <2>1, <3>1, <3>2, <3>3, <3>4, <3>5
  <2> QED BY <2>2, <2>3 DEF LossInv
<1>7. ASSUME NEW u \in User, Pays(u) PROVE LossInv'
  <2>1. /\ Resets(u)
        /\ \A v \in User \ {u} : unclaimedRewards'[v] = unclaimedRewards[v]
                                 /\ divisions'[v] = divisions[v] /\ owed'[v] = owed[v]
        /\ divisions'[u] = divisions[u] + OpenDivisions(u)
        /\ owed'[u] = owed[u] - SCALE * (unclaimedRewards[u] + CalculateRewards(u))
        /\ unclaimedRewards'[u] = 0
    BY <1>3, <1>7 DEF Pays, Resets
  <2>2. ASSUME NEW v \in User \ {u}
        PROVE  owed'[v] <= SCALE * unclaimedRewards'[v] + Earned(v)' + (SCALE - 1) * divisions'[v]
    BY <1>1, <2>1, LossOfOthers
  <2>3. owed'[u] <= SCALE * unclaimedRewards'[u] + Earned(u)' + (SCALE - 1) * divisions'[u]
    <3> DEFINE a == SCALE * unclaimedRewards[u]
               b == SCALE * CalculateRewards(u)
               c == (SCALE - 1) * divisions[u]
               d == (SCALE - 1) * OpenDivisions(u)
    <3>1. /\ a \in Nat /\ b \in Nat /\ c \in Nat /\ d \in Nat
          /\ Earned(u) \in Nat /\ owed[u] \in Nat
          /\ SCALE * (unclaimedRewards[u] + CalculateRewards(u)) = a + b
          /\ (SCALE - 1) * divisions'[u] = c + d
          /\ SCALE * unclaimedRewards'[u] = 0
      BY <1>2, <2>1, Scaled, ScaledLoss
    <3>2. owed[u] <= a + Earned(u) + c
      BY <1>3
    <3>3. Earned(u) <= b + d
      BY <1>1, <1>2, Exact, SettlementLoss
    <3>4. Earned(u)' = 0 /\ owed'[u] = owed[u] - (a + b)
      BY <2>1, <3>1 DEF Resets
    <3> HIDE DEF a, b, c, d
    <3> QED BY <3>1, <3>2, <3>3, <3>4
  <2> QED BY <2>2, <2>3 DEF LossInv
<1> QED BY <1>2, <1>4, <1>5, <1>6, <1>7

\* What the view shows misses no more.
LEMMA LossCounted ==
  ASSUME NEW R, Fits(R)
  PROVE  FitInv(R) /\ LossInv => LossBounded
<1>1. SUFFICES ASSUME FitInv(R), LossInv, NEW u \in User
               PROVE  owed[u] - SCALE * AvailableRewards(u)
                        <= (SCALE - 1) * (divisions[u] + OpenDivisions(u))
  BY DEF LossBounded
<1> DEFINE a == SCALE * unclaimedRewards[u]
           b == SCALE * CalculateRewards(u)
           c == (SCALE - 1) * divisions[u]
           d == (SCALE - 1) * OpenDivisions(u)
<1>2. AccrualInv /\ TimedInv
  BY <1>1 DEF FitInv, AccrualInv
<1>3. /\ a \in Nat /\ b \in Nat /\ c \in Nat /\ d \in Nat
      /\ Earned(u) \in Nat /\ owed[u] \in Nat
      /\ SCALE * (unclaimedRewards[u] + CalculateRewards(u)) = a + b
      /\ (SCALE - 1) * (divisions[u] + OpenDivisions(u)) = c + d
  BY <1>2, Scaled, ScaledLoss
<1>4. owed[u] <= a + Earned(u) + c
  BY <1>1 DEF LossInv
<1>5. Earned(u) <= b + d
  BY <1>1, <1>2, Exact, SettlementLoss
<1>6. \/ SCALE * AvailableRewards(u) = a + b
      \/ SCALE * AvailableRewards(u) = a /\ Earned(u) = 0
  BY <1>2, <1>3, NothingEarned DEF AvailableRewards, TimedInv
<1> HIDE DEF a, b, c, d
<1> QED BY <1>3, <1>4, <1>5, <1>6

\* LossBounded, for any collection, users and histories of conditions whose
\* rewards fit into a word: what a staker misses is less than one unit for
\* every division of its settlements that left a remainder.
THEOREM NoneLost == RewardsFit => (AccrualSpec => []LossBounded)
<1>1. SUFFICES ASSUME NEW R, Fits(R) PROVE AccrualSpec => []LossBounded
  BY DEF RewardsFit
<1>2. AccrualInit => FitInv(R) /\ LossInv
  BY <1>1, FitInit, LossInit
<1>3. FitInv(R) /\ LossInv /\ [AccrualNext]_accrualVars => (FitInv(R) /\ LossInv)'
  BY <1>1, FitStep, LossStep
<1>4. FitInv(R) /\ LossInv => LossBounded
  BY <1>1, LossCounted
<1> QED BY <1>2, <1>3, <1>4, PTL DEF AccrualSpec
=============================================================================

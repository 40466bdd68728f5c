----------------------- MODULE TokenDistributorProofs -----------------------
(***************************************************************************)
(* Theorems about TokenDistributor, for every number of users, periods,     *)
(* rates, supplies and blocks: types, stakes, the emission it refines, what *)
(* backs the stakes, what the view promises, and that the gas-optimized     *)
(* rewrite implements it.                                                   *)
(***************************************************************************)
EXTENDS TokenDistributorBacking, TokenDistributorRewritten, SumTheorems

\* The lengths and rates of the schedule are naturals.
LEMMA ScheduleTypes ==
  /\ LastPeriod \in Nat
  /\ NUMBER_PERIODS = LastPeriod + 1
  /\ Length \in [0..LastPeriod -> Nat]
  /\ StakingRate \in [0..LastPeriod -> Nat]
  /\ OthersRate \in [0..LastPeriod -> Nat]
BY ConstructorRequires DEF LastPeriod, Length, StakingRate, OthersRate, StakingPeriod

\* Where periods start and end.
LEMMA PeriodStartTypes ==
  /\ \A q \in 0..NUMBER_PERIODS : PeriodStart(q) \in Nat
  /\ PeriodStart(0) = START_BLOCK
  /\ \A q \in 0..LastPeriod : PeriodStart(q + 1) = PeriodStart(q) + Length[q]
<1> DEFINE P == Offset
<1>1. NUMBER_PERIODS \in Nat /\ Length \in [0..(NUMBER_PERIODS - 1) -> Nat]
  BY ScheduleTypes
<1>2. /\ P \in [0..NUMBER_PERIODS -> Nat]
      /\ P[0] = 0
      /\ \A k \in 0..(NUMBER_PERIODS - 1) : P[k + 1] = P[k] + Length[k]
  BY <1>1, PartialSumRec DEF Offset
<1>3. START_BLOCK \in Nat
  BY ConstructorRequires
<1>4. \A q : PeriodStart(q) = START_BLOCK + P[q]
  BY DEF PeriodStart
<1> HIDE DEF P
<1>5. \A q \in 0..NUMBER_PERIODS : PeriodStart(q) \in Nat
  BY <1>2, <1>3, <1>4
<1>6. \A q \in 0..LastPeriod : q + 1 \in 0..NUMBER_PERIODS /\ q \in 0..NUMBER_PERIODS
  BY ScheduleTypes
<1>7. ASSUME NEW q \in 0..LastPeriod PROVE PeriodStart(q + 1) = PeriodStart(q) + Length[q]
  <2>1. P[q + 1] = P[q] + Length[q] /\ P[q] \in Nat /\ Length[q] \in Nat
    BY <1>2, <1>6, ScheduleTypes
  <2> QED BY <2>1, <1>3, <1>4
<1>8. 0 \in 0..NUMBER_PERIODS
  BY <1>1
<1> QED BY <1>2, <1>3, <1>4, <1>5, <1>7

\* The end block and the rates are those of the current period: the
\* strengthening that makes the type invariant inductive.
ScheduleInv ==
  /\ endBlock = PeriodStart(currentPhase + 1)
  /\ rewardPerBlockForStaking = StakingRate[currentPhase]
  /\ rewardPerBlockForOthers = OthersRate[currentPhase]

\* The loop of _updatePool stops at the end of the first period that is not
\* over, or in the last one.
LEMMA LoopExit ==
  ASSUME TypeOK, ScheduleInv
  PROVE  /\ PhaseReached \in currentPhase..LastPeriod
         /\ \A p \in currentPhase..LastPeriod : EndOf(p) = PeriodStart(p + 1)
         /\ block <= EndOf(PhaseReached) \/ PhaseReached = LastPeriod
         /\ \A q \in currentPhase..(PhaseReached - 1) : block > EndOf(q)
<1> DEFINE Exit(p) == block <= EndOf(p) \/ p = LastPeriod
           T == {p \in currentPhase..LastPeriod : Exit(p)}
           First(p) == Exit(p) /\ \A q \in currentPhase..(p - 1) : block > EndOf(q)
<1>1. currentPhase \in 0..LastPeriod /\ block \in Nat
  BY DEF TypeOK
<1>2. \A p \in currentPhase..LastPeriod : EndOf(p) = PeriodStart(p + 1)
  <2> DEFINE P == Offset
  <2>1. NUMBER_PERIODS \in Nat /\ Length \in [0..(NUMBER_PERIODS - 1) -> Nat]
    BY ScheduleTypes
  <2>2. P \in [0..NUMBER_PERIODS -> Nat]
    BY <2>1, PartialSumRec DEF Offset
  <2>3. TAKE p \in currentPhase..LastPeriod
  <2>4. EndOf(p) = endBlock + P[p + 1] - P[currentPhase + 1]
    BY DEF EndOf
  <2>5. endBlock = START_BLOCK + P[currentPhase + 1] /\ PeriodStart(p + 1) = START_BLOCK + P[p + 1]
    BY DEF ScheduleInv, PeriodStart
  <2> HIDE DEF P
  <2>6. p + 1 \in 0..NUMBER_PERIODS /\ currentPhase + 1 \in 0..NUMBER_PERIODS
    BY <1>1, ScheduleTypes
  <2>7. P[p + 1] \in Nat /\ P[currentPhase + 1] \in Nat
    BY <2>2, <2>6
  <2> QED BY <2>4, <2>5, <2>7, ConstructorRequires
<1>3. \A p \in currentPhase..LastPeriod : EndOf(p) \in Nat
  <2> TAKE p \in currentPhase..LastPeriod
  <2>1. p + 1 \in 0..NUMBER_PERIODS
    BY <1>1, ScheduleTypes
  <2> QED BY <2>1, <1>2, PeriodStartTypes
<1>4. T # {} /\ T \subseteq Nat
  <2>1. Exit(LastPeriod)
    OBVIOUS
  <2> HIDE DEF Exit
  <2>2. LastPeriod \in T
    BY <2>1, <1>1, ScheduleTypes
  <2> QED BY <2>2, <1>1
<1>5. PICK p \in T : \A k \in T : p <= k
  <2> HIDE DEF T
  <2> QED BY <1>4, LeastNat
<1>6. p \in currentPhase..LastPeriod /\ Exit(p)
  BY <1>5
<1>7. ASSUME NEW q \in currentPhase..(p - 1) PROVE block > EndOf(q)
  <2>1. q \in currentPhase..LastPeriod /\ q < p
    BY <1>1, <1>6, ScheduleTypes
  <2>2. ~Exit(q)
    <3>1. q \notin T
      BY <1>5, <2>1, <1>4
    <3> HIDE DEF Exit
    <3> QED BY <3>1, <2>1
  <2>3. EndOf(q) \in Nat
    BY <2>1, <1>3
  <2> QED BY <2>2, <2>3, <1>1
<1>8. First(p)
  BY <1>6, <1>7
<1>9. PhaseReached = CHOOSE r \in currentPhase..LastPeriod : First(r)
  BY DEF PhaseReached
<1>10. PhaseReached \in currentPhase..LastPeriod /\ First(PhaseReached)
  <2> HIDE DEF First
  <2> QED BY <1>6, <1>8, <1>9
<1> QED BY <1>2, <1>10
-----------------------------------------------------------------------------
\* A multiplier between two blocks in order is a number of blocks.
LEMMA MultiplierNat ==
  ASSUME NEW from \in Nat, NEW to \in Nat, NEW end \in Nat, from <= to
  PROVE  Multiplier(from, to, end) \in Nat
BY DEF Multiplier

\* No period the loop crosses ends after the current block, except the one it
\* stops in.
LEMMA RoundRewardNat ==
  ASSUME TypeOK, ScheduleInv, NEW rates \in [0..LastPeriod -> Nat]
  PROVE  RoundReward(rates) \in [0..(NUMBER_PERIODS - 1) -> Nat] /\ NUMBER_PERIODS \in Nat
<1> DEFINE R == RoundReward(rates)
<1>1. ASSUME NEW q \in 0..LastPeriod PROVE R[q] \in Nat
  <2>1. R[q] = IF q \in (currentPhase + 1)..PhaseReached
               THEN Multiplier(EndOf(q - 1), block, EndOf(q)) * rates[q] ELSE 0
    BY DEF RoundReward
  <2>2. CASE q \in (currentPhase + 1)..PhaseReached
    <3>1. currentPhase \in Nat /\ PhaseReached \in currentPhase..LastPeriod /\ LastPeriod \in Nat
      BY LoopExit, ScheduleTypes DEF TypeOK
    <3>2. q - 1 \in currentPhase..LastPeriod /\ q - 1 \in currentPhase..(PhaseReached - 1)
          /\ q \in currentPhase..LastPeriod /\ q \in 0..NUMBER_PERIODS /\ q + 1 \in 0..NUMBER_PERIODS
          /\ q - 1 + 1 = q
      BY <3>1, <2>2, ScheduleTypes
    <3>3. block > EndOf(q - 1) /\ EndOf(q - 1) = PeriodStart(q) /\ EndOf(q) = PeriodStart(q + 1)
      BY <3>2, LoopExit
    <3>4. EndOf(q - 1) \in Nat /\ EndOf(q) \in Nat
      BY <3>2, <3>3, PeriodStartTypes
    <3>5. Multiplier(EndOf(q - 1), block, EndOf(q)) \in Nat
      <4>1. EndOf(q - 1) <= block /\ block \in Nat
        BY <3>3, <3>4 DEF TypeOK
      <4> QED BY <4>1, <3>4, MultiplierNat
    <3> QED BY <3>5, <2>1, <2>2, MulNat
  <2>3. CASE q \notin (currentPhase + 1)..PhaseReached
    BY <2>1, <2>3
  <2> QED BY <2>2, <2>3
<1>2. R \in [0..(NUMBER_PERIODS - 1) -> Nat] /\ NUMBER_PERIODS \in Nat
  <2>1. R = [q \in 0..LastPeriod |-> R[q]]
    BY DEF RoundReward
  <2>2. R \in [0..LastPeriod -> Nat]
    <3> HIDE DEF R
    <3> QED BY <2>1, <1>1
  <2> QED BY <2>2, ScheduleTypes
<1> QED BY <1>2

\* The rewards _updatePool computes are naturals.
LEMMA RewardNat ==
  ASSUME TypeOK, ScheduleInv,
         NEW rate \in Nat, NEW rates \in [0..LastPeriod -> Nat]
  PROVE  TokenReward(rate, rates) \in Nat
<1> DEFINE R == RoundReward(rates)
<1>2. R \in [0..(NUMBER_PERIODS - 1) -> Nat] /\ NUMBER_PERIODS \in Nat
  BY RoundRewardNat
<1>3. PartialSum(R, NUMBER_PERIODS)[NUMBER_PERIODS] \in Nat
  <2> HIDE DEF R
  <2>1. PartialSum(R, NUMBER_PERIODS) \in [0..NUMBER_PERIODS -> Nat]
    BY <1>2, PartialSumRec
  <2> QED BY <2>1, <1>2
<1>4. CASE RewardsDue
  <2>1. Multiplier(lastRewardBlock, block, endBlock) \in Nat
    <3>1. lastRewardBlock <= block /\ lastRewardBlock \in Nat /\ block \in Nat /\ endBlock \in Nat
      BY <1>4 DEF TypeOK, RewardsDue
    <3> QED BY <3>1, MultiplierNat
  <2> QED BY <2>1, <1>3, <1>4, MulNat DEF TokenReward
<1> QED BY <1>4 DEF TokenReward

\* What the two mint calls of an update issue.
LEMMA MintedNat ==
  ASSUME TypeOK, ScheduleInv
  PROVE  /\ TokenRewardForStaking \in Nat
         /\ TokenRewardForOthers \in Nat
         /\ StakingMinted \in Nat
         /\ OthersMinted \in Nat
<1>1. TokenRewardForStaking \in Nat /\ TokenRewardForOthers \in Nat
  BY RewardNat, ScheduleTypes DEF TypeOK, TokenRewardForStaking, TokenRewardForOthers
<1> QED BY <1>1 DEF StakingMinted, OthersMinted, Minted

\* An update keeps the types and the schedule of everything it touches.
LEMMA UpdatePoolTypes ==
  ASSUME TypeOK, ScheduleInv, UpdatePool
  PROVE  /\ accTokenPerShare' \in Nat
         /\ currentPhase' \in 0..LastPeriod
         /\ endBlock' \in Nat
         /\ lastRewardBlock' \in Nat
         /\ rewardPerBlockForStaking' \in Nat
         /\ rewardPerBlockForOthers' \in Nat
         /\ totalSupply' \in Nat
         /\ splitterHeld' \in Nat
         /\ ScheduleInv'
<1> USE DEF TypeOK
<1>1. CASE block <= lastRewardBlock /\ UNCHANGED <<pool, minting>>
  BY <1>1 DEF pool, schedule, minting, ScheduleInv, PeriodStart
<1>2. CASE UNCHANGED <<schedule, accTokenPerShare, minting>> /\ lastRewardBlock' = block
  BY <1>2 DEF schedule, minting, ScheduleInv, PeriodStart
<1>3. CASE RewardsDue
  <2>1. /\ accTokenPerShare' = accTokenPerShare + SharePerToken
        /\ currentPhase' = PhaseReached
        /\ endBlock' = EndOf(PhaseReached)
        /\ rewardPerBlockForStaking' =
             IF PhaseReached = currentPhase THEN rewardPerBlockForStaking ELSE StakingRate[PhaseReached]
        /\ rewardPerBlockForOthers' =
             IF PhaseReached = currentPhase THEN rewardPerBlockForOthers ELSE OthersRate[PhaseReached]
        /\ lastRewardBlock' = IF lastRewardBlock <= endBlock' THEN block ELSE lastRewardBlock
        /\ totalSupply' = totalSupply + StakingMinted + OthersMinted
        /\ splitterHeld' = splitterHeld + OthersMinted
    BY <1>3 DEF UpdatePool, RewardsDue
  <2>2. SharePerToken \in Nat
    <3>1. StakingMinted * PRECISION_FACTOR \in Nat
      BY MintedNat, MulNat, ConstructorRequires
    <3> QED BY <3>1, <1>3, DivNat DEF RewardsDue, SharePerToken
  <2>3. PhaseReached \in currentPhase..LastPeriod /\ EndOf(PhaseReached) = PeriodStart(PhaseReached + 1)
    BY LoopExit
  <2>4. PhaseReached \in 0..LastPeriod /\ PhaseReached + 1 \in 0..NUMBER_PERIODS
    BY <2>3, ScheduleTypes
  <2>5. endBlock' \in Nat
    BY <2>1, <2>3, <2>4, PeriodStartTypes
  <2>6. ScheduleInv'
    BY <2>1, <2>3 DEF ScheduleInv, PeriodStart
  <2>7. accTokenPerShare' \in Nat /\ currentPhase' \in 0..LastPeriod /\ lastRewardBlock' \in Nat
    BY <2>1, <2>2, <2>4
  <2>8. rewardPerBlockForStaking' \in Nat /\ rewardPerBlockForOthers' \in Nat
    BY <2>1, <2>4, ScheduleTypes
  <2>9. totalSupply' \in Nat /\ splitterHeld' \in Nat
    BY <2>1, MintedNat
  <2> QED BY <2>5, <2>6, <2>7, <2>8, <2>9
<1>4. \/ block <= lastRewardBlock /\ UNCHANGED <<pool, minting>>
      \/ UNCHANGED <<schedule, accTokenPerShare, minting>> /\ lastRewardBlock' = block
      \/ RewardsDue
  BY Zenon DEF UpdatePool
<1> QED BY <1>1, <1>2, <1>3, <1>4, Zenon
-----------------------------------------------------------------------------
LEMMA TypesFirst == Init => TypeOK /\ ScheduleInv
<1> DEFINE Inv == TypeOK /\ ScheduleInv
<1>1. SUFFICES ASSUME Init PROVE Inv
  OBVIOUS
<1>2. 0 \in 0..LastPeriod /\ stakingPeriod[0] \in StakingPeriod
  BY ScheduleTypes, ConstructorRequires
<1>3. PeriodStart(0 + 1) = START_BLOCK + Length[0]
  BY <1>2, PeriodStartTypes
<1>4. PeriodStart(1) = START_BLOCK + stakingPeriod[0].periodLengthInBlock
  BY <1>2, <1>3 DEF Length
<1>5. ScheduleInv
  BY <1>1, <1>2, <1>4 DEF Init, ScheduleInv, StakingRate, OthersRate
<1>6. TypeOK
  BY <1>1, <1>2, ConstructorRequires DEF Init, TypeOK, StakingPeriod
<1> QED BY <1>5, <1>6

LEMMA TypesInductive == TypeOK /\ ScheduleInv /\ [Next]_vars => (TypeOK /\ ScheduleInv)'
<1> DEFINE Inv == TypeOK /\ ScheduleInv
<1> SUFFICES ASSUME TypeOK, ScheduleInv, [Next]_vars PROVE Inv'
  OBVIOUS
<1> USE DEF TypeOK
<1> DEFINE Updated == /\ accTokenPerShare' \in Nat
                      /\ currentPhase' \in 0..LastPeriod
                      /\ endBlock' \in Nat
                      /\ lastRewardBlock' \in Nat
                      /\ rewardPerBlockForStaking' \in Nat
                      /\ rewardPerBlockForOthers' \in Nat
                      /\ totalSupply' \in Nat
                      /\ splitterHeld' \in Nat
                      /\ ScheduleInv'
<1>0. UpdatePool => Updated
  BY UpdatePoolTypes
<1>m. StakingMinted \in Nat
  BY MintedNat
<1>d. \A n \in Nat : UpdatePool => (n * accTokenPerShare') \div PRECISION_FACTOR \in Nat
  BY <1>0, MulNat, DivNat, ConstructorRequires
<1>1. ASSUME NEW u \in User, NEW n \in 1..wallet[u], Deposit(u, n) PROVE Inv'
  <2> DEFINE pending == IF amount[u] > 0 THEN Pending(u, accTokenPerShare') ELSE 0
  <2>1. pending \in Nat
    <3>1. (amount[u] * accTokenPerShare') \div PRECISION_FACTOR \in Nat
      BY <1>1, <1>d DEF Deposit
    <3>2. pending >= 0 /\ rewardDebt[u] \in Nat
      BY <1>1 DEF Deposit
    <3> QED BY <3>1, <3>2 DEF Pending
  <2>2. /\ UpdatePool
        /\ Settle(u, amount[u] + n + pending)
        /\ totalAmountStaked' = totalAmountStaked + n + pending
        /\ held' = held + StakingMinted + n
        /\ wallet' = [wallet EXCEPT ![u] = @ - n]
        /\ UNCHANGED <<block, tokenOwner>>
    BY <1>1 DEF Deposit
  <2> HIDE DEF pending
  <2>3. amount[u] + n + pending \in Nat /\ n \in Nat /\ wallet[u] - n \in Nat
    BY <2>1, <1>1
  <2>4. amount' \in [User -> Nat] /\ rewardDebt' \in [User -> Nat]
    BY <2>2, <2>3, <1>d DEF Settle
  <2>5. totalAmountStaked' \in Nat /\ held' \in Nat /\ wallet' \in [User -> Nat]
    BY <2>1, <2>2, <2>3, <1>m
  <2> QED BY <2>2, <2>4, <2>5, <1>0
<1>2. ASSUME NEW u \in User, HarvestAndCompound(u) PROVE Inv'
  <2> DEFINE pending == Pending(u, accTokenPerShare')
  <2>1. /\ UpdatePool
        /\ held' = held + StakingMinted
        /\ UNCHANGED <<block, tokenOwner, wallet>>
    BY <1>2 DEF HarvestAndCompound
  <2>2. CASE pending = 0 /\ UNCHANGED stakes
    BY <2>1, <2>2, <1>0, <1>m DEF stakes
  <2>3. CASE /\ pending > 0
             /\ Settle(u, amount[u] + pending)
             /\ totalAmountStaked' = totalAmountStaked + pending
    <3>1. pending \in Nat
      BY <2>1, <2>3, <1>d DEF Pending
    <3> HIDE DEF pending
    <3>2. amount[u] + pending \in Nat
      BY <3>1
    <3>3. amount' \in [User -> Nat] /\ rewardDebt' \in [User -> Nat]
      BY <2>1, <2>3, <3>2, <1>d DEF Settle
    <3> QED BY <2>1, <2>3, <3>1, <3>3, <1>0, <1>m
  <2> QED BY <1>2, <2>2, <2>3 DEF HarvestAndCompound
<1>3. CASE UpdatePoolOnly
  BY <1>3, <1>0, <1>m DEF UpdatePoolOnly, stakes
<1>4. ASSUME NEW u \in User, NEW n \in 1..amount[u], Withdraw(u, n) PROVE Inv'
  <2> DEFINE pending == Pending(u, accTokenPerShare')
  <2>1. /\ UpdatePool
        /\ pending >= 0
        /\ Settle(u, amount[u] + pending - n)
        /\ totalAmountStaked + pending >= n
        /\ totalAmountStaked' = totalAmountStaked + pending - n
        /\ held + StakingMinted >= n
        /\ held' = held + StakingMinted - n
        /\ wallet' = [wallet EXCEPT ![u] = @ + n]
        /\ UNCHANGED <<block, tokenOwner>>
    BY <1>4 DEF Withdraw
  <2>2. pending \in Nat
    BY <2>1, <1>d DEF Pending
  <2> HIDE DEF pending
  <2>3. amount[u] + pending - n \in Nat /\ n \in Nat
    BY <2>2, <1>4
  <2>4. amount' \in [User -> Nat] /\ rewardDebt' \in [User -> Nat]
    BY <2>1, <2>3, <1>d DEF Settle
  <2>5. totalAmountStaked' \in Nat /\ held' \in Nat /\ wallet' \in [User -> Nat]
    BY <2>1, <2>2, <2>3, <1>m
  <2> QED BY <2>1, <2>4, <2>5, <1>0
<1>5. ASSUME NEW u \in User, WithdrawAll(u) PROVE Inv'
  <2> DEFINE pending == Pending(u, accTokenPerShare')
  <2>1. /\ UpdatePool
        /\ pending >= 0
        /\ totalAmountStaked >= amount[u]
        /\ totalAmountStaked' = totalAmountStaked - amount[u]
        /\ held + StakingMinted >= amount[u] + pending
        /\ held' = held + StakingMinted - (amount[u] + pending)
        /\ wallet' = [wallet EXCEPT ![u] = @ + (amount[u] + pending)]
        /\ amount' = [amount EXCEPT ![u] = 0]
        /\ rewardDebt' = [rewardDebt EXCEPT ![u] = 0]
        /\ UNCHANGED <<block, tokenOwner>>
    BY <1>5 DEF WithdrawAll
  <2>2. pending \in Nat
    BY <2>1, <1>d DEF Pending
  <2> HIDE DEF pending
  <2> QED BY <2>1, <2>2, <1>0, <1>m
<1>6. ASSUME NEW n \in DeployerMints, DeployerMint(n) PROVE Inv'
  BY <1>6, ConstructorRequires DEF DeployerMint, Minted, pool, schedule, stakes, ScheduleInv, PeriodStart
<1>7. CASE TransferOwnership
  BY <1>7 DEF TransferOwnership, pool, schedule, stakes, minting, ScheduleInv, PeriodStart
<1>8. CASE NextBlock
  BY <1>8 DEF NextBlock, pool, schedule, stakes, minting, ScheduleInv, PeriodStart
<1>9. CASE UNCHANGED vars
  BY <1>9 DEF vars, pool, schedule, stakes, minting, ScheduleInv, PeriodStart
<1> QED BY <1>1, <1>2, <1>3, <1>4, <1>5, <1>6, <1>7, <1>8, <1>9 DEF Next

\* TokenDistributor keeps every variable in its type, and the stored end
\* block and rates always belong to the stored period.
THEOREM TypeCorrect == Spec => [](TypeOK /\ ScheduleInv)
BY TypesFirst, TypesInductive, PTL DEF Spec
-----------------------------------------------------------------------------
\* The accumulator never falls.
LEMMA AccumulatorGrows ==
  ASSUME TypeOK, ScheduleInv, UpdatePool
  PROVE  accTokenPerShare' >= accTokenPerShare
<1>1. \/ UNCHANGED accTokenPerShare
      \/ RewardsDue /\ accTokenPerShare' = accTokenPerShare + SharePerToken
  BY DEF UpdatePool, pool
<1>2. CASE UNCHANGED accTokenPerShare
  BY <1>2 DEF TypeOK
<1>3. CASE RewardsDue /\ accTokenPerShare' = accTokenPerShare + SharePerToken
  <2>1. StakingMinted * PRECISION_FACTOR \in Nat
    BY MintedNat, MulNat, ConstructorRequires
  <2>2. totalAmountStaked \in Nat \ {0}
    BY <1>3 DEF RewardsDue, TypeOK
  <2>3. SharePerToken \in Nat
    BY <2>1, <2>2, DivNat DEF SharePerToken
  <2> QED BY <1>3, <2>3 DEF TypeOK
<1> QED BY <1>1, <1>2, <1>3

\* The debt an account would have if it were settled at its stake.
LEMMA DebtCoveredLater ==
  ASSUME TypeOK, ScheduleInv, UpdatePool, NEW v \in User, Pending(v, accTokenPerShare) >= 0
  PROVE  Pending(v, accTokenPerShare') >= 0
<1>1. amount[v] \in Nat /\ rewardDebt[v] \in Nat /\ accTokenPerShare \in Nat
  BY DEF TypeOK
<1>2. accTokenPerShare' \in Nat /\ accTokenPerShare <= accTokenPerShare'
  BY <1>1, AccumulatorGrows, UpdatePoolTypes
<1>3. amount[v] * accTokenPerShare <= amount[v] * accTokenPerShare'
  BY <1>1, <1>2, MulMonotone
<1> DEFINE a == amount[v] * accTokenPerShare
           b == amount[v] * accTokenPerShare'
<1>4. a \in Nat /\ b \in Nat
  BY <1>1, <1>2, MulNat
<1>5. a \div PRECISION_FACTOR <= b \div PRECISION_FACTOR
  <2> HIDE DEF a, b
  <2> QED BY <1>3, <1>4, DivMonotone, ConstructorRequires DEF a, b
<1>6. a \div PRECISION_FACTOR \in Nat /\ b \div PRECISION_FACTOR \in Nat
  <2> HIDE DEF a, b
  <2> QED BY <1>4, DivNat, ConstructorRequires
<1>7. Pending(v, accTokenPerShare) = a \div PRECISION_FACTOR - rewardDebt[v]
      /\ Pending(v, accTokenPerShare') = b \div PRECISION_FACTOR - rewardDebt[v]
  BY DEF Pending
<1> HIDE DEF a, b
<1> QED BY <1>1, <1>5, <1>6, <1>7
-----------------------------------------------------------------------------
\* What each transaction that settles the account of u does to the stakes:
\* it pays v = the pending reward into the stake, moves n more in or out, and
\* changes the total by the same amount.
LEMMA SettledStakes ==
  ASSUME TypeOK, ScheduleInv, UpdatePool, StakeAccounted, DebtCovered,
         NEW u \in User, NEW m \in Nat, Settle(u, m),
         totalAmountStaked' = totalAmountStaked - amount[u] + m
  PROVE  StakeAccounted' /\ DebtCovered'
<1>1. amount' = [amount EXCEPT ![u] = m]
      /\ rewardDebt' = [rewardDebt EXCEPT ![u] = (m * accTokenPerShare') \div PRECISION_FACTOR]
  BY DEF Settle
<1>2. amount \in [User -> Nat] /\ rewardDebt \in [User -> Nat] /\ IsFiniteSet(User)
  BY ConstructorRequires DEF TypeOK
<1>3. SumOver(amount', User) = SumOver(amount, User) - amount[u] + m
  <2>1. amount' \in [User -> Nat] /\ amount'[u] = m /\ \A v \in User \ {u} : amount'[v] = amount[v]
    BY <1>1, <1>2
  <2>2. SumOver(amount', User) = SumOver(amount, User) - amount[u] + amount'[u]
    BY <1>2, <2>1, SumUpdate
  <2> QED BY <2>1, <2>2
<1>4. StakeAccounted'
  BY <1>3 DEF StakeAccounted
<1>5. ASSUME NEW v \in User PROVE Pending(v, accTokenPerShare)' >= 0
  <2>1. CASE v = u
    <3>1. (m * accTokenPerShare') \div PRECISION_FACTOR \in Nat
      BY UpdatePoolTypes, MulNat, DivNat, ConstructorRequires
    <3>2. amount'[v] = m /\ rewardDebt'[v] = (m * accTokenPerShare') \div PRECISION_FACTOR
      BY <1>1, <1>2, <2>1
    <3>3. Pending(v, accTokenPerShare)' = 0
      BY <3>1, <3>2 DEF Pending
    <3> QED BY <3>3
  <2>2. CASE v # u
    <3>1. amount'[v] = amount[v] /\ rewardDebt'[v] = rewardDebt[v]
      BY <1>1, <1>2, <2>2
    <3>2. Pending(v, accTokenPerShare)' = Pending(v, accTokenPerShare')
      BY <3>1 DEF Pending
    <3>3. Pending(v, accTokenPerShare) >= 0
      BY DEF DebtCovered
    <3> QED BY <3>2, <3>3, DebtCoveredLater
  <2> QED BY <2>1, <2>2
<1> QED BY <1>4, <1>5 DEF DebtCovered

\* A transaction that leaves the stakes alone.
LEMMA UntouchedStakes ==
  ASSUME TypeOK, ScheduleInv, StakeAccounted, DebtCovered, UNCHANGED stakes,
         UpdatePool \/ UNCHANGED accTokenPerShare
  PROVE  StakeAccounted' /\ DebtCovered'
<1>1. UNCHANGED <<totalAmountStaked, amount, rewardDebt>>
  BY DEF stakes
<1>2. StakeAccounted'
  BY <1>1 DEF StakeAccounted
<1>3. ASSUME NEW v \in User PROVE Pending(v, accTokenPerShare)' >= 0
  <2>1. Pending(v, accTokenPerShare)' = Pending(v, accTokenPerShare')
    BY <1>1 DEF Pending
  <2>2. Pending(v, accTokenPerShare) >= 0
    BY DEF DebtCovered
  <2>3. CASE UpdatePool
    BY <2>1, <2>2, <2>3, DebtCoveredLater
  <2>4. CASE UNCHANGED accTokenPerShare
    BY <2>1, <2>2, <2>4
  <2> QED BY <2>3, <2>4
<1> QED BY <1>2, <1>3 DEF DebtCovered

LEMMA StakesFirst == Init => StakesSound
<1> DEFINE Inv == StakeAccounted /\ DebtCovered
<1>1. SUFFICES ASSUME Init PROVE Inv
  BY DEF StakesSound
<1>2. amount = [u \in User |-> 0] /\ rewardDebt = [u \in User |-> 0]
      /\ totalAmountStaked = 0 /\ accTokenPerShare = 0
  BY <1>1 DEF Init
<1>3. amount \in [User -> Nat] /\ \A u \in User : amount[u] = 0
  BY <1>2
<1>4. StakeAccounted
  BY <1>2, <1>3, SumZero DEF StakeAccounted
<1>5. ASSUME NEW u \in User PROVE Pending(u, accTokenPerShare) >= 0
  <2>1. 0 \div PRECISION_FACTOR \in Nat /\ amount[u] * accTokenPerShare = 0 /\ rewardDebt[u] = 0
    BY <1>2, DivNat, ConstructorRequires
  <2> QED BY <2>1 DEF Pending
<1> QED BY <1>4, <1>5 DEF DebtCovered

LEMMA StakesInductive == TypeOK /\ ScheduleInv /\ StakesSound /\ [Next]_vars => StakesSound'
<1> DEFINE Inv == StakeAccounted /\ DebtCovered
<1> SUFFICES ASSUME TypeOK, ScheduleInv, StakeAccounted, DebtCovered, [Next]_vars PROVE Inv'
  BY DEF StakesSound
<1>t. amount \in [User -> Nat] /\ rewardDebt \in [User -> Nat] /\ totalAmountStaked \in Nat
      /\ wallet \in [User -> Nat]
  BY DEF TypeOK
<1>p. \A u \in User : UpdatePool => Pending(u, accTokenPerShare') \in Int
  <2> SUFFICES ASSUME NEW u \in User, UpdatePool PROVE Pending(u, accTokenPerShare') \in Int
    OBVIOUS
  <2>1. (amount[u] * accTokenPerShare') \div PRECISION_FACTOR \in Nat
    BY <1>t, UpdatePoolTypes, MulNat, DivNat, ConstructorRequires
  <2> QED BY <2>1, <1>t DEF Pending
<1>1. ASSUME NEW u \in User, NEW n \in 1..wallet[u], Deposit(u, n) PROVE Inv'
  <2> DEFINE pending == IF amount[u] > 0 THEN Pending(u, accTokenPerShare') ELSE 0
  <2>1. UpdatePool /\ pending >= 0 /\ Settle(u, amount[u] + n + pending)
        /\ totalAmountStaked' = totalAmountStaked + n + pending
    BY <1>1 DEF Deposit
  <2>2. pending \in Nat
    BY <2>1, <1>p
  <2> HIDE DEF pending
  <2>3. amount[u] + n + pending \in Nat
        /\ totalAmountStaked' = totalAmountStaked - amount[u] + (amount[u] + n + pending)
    BY <2>1, <2>2, <1>1, <1>t
  <2> QED BY <2>1, <2>3, SettledStakes
<1>2. ASSUME NEW u \in User, HarvestAndCompound(u) PROVE Inv'
  <2> DEFINE pending == Pending(u, accTokenPerShare')
  <2>1. UpdatePool
    BY <1>2 DEF HarvestAndCompound
  <2>2. CASE UNCHANGED stakes
    BY <2>1, <2>2, UntouchedStakes
  <2>3. CASE pending > 0 /\ Settle(u, amount[u] + pending)
             /\ totalAmountStaked' = totalAmountStaked + pending
    <3>1. pending \in Nat
      BY <2>1, <2>3, <1>p
    <3> HIDE DEF pending
    <3>2. amount[u] + pending \in Nat
          /\ totalAmountStaked' = totalAmountStaked - amount[u] + (amount[u] + pending)
      BY <2>3, <3>1, <1>t
    <3> QED BY <2>1, <2>3, <3>2, SettledStakes
  <2> QED BY <1>2, <2>2, <2>3 DEF HarvestAndCompound
<1>3. CASE UpdatePoolOnly
  BY <1>3, UntouchedStakes DEF UpdatePoolOnly
<1>4. ASSUME NEW u \in User, NEW n \in 1..amount[u], Withdraw(u, n) PROVE Inv'
  <2> DEFINE pending == Pending(u, accTokenPerShare')
  <2>1. UpdatePool /\ pending >= 0 /\ Settle(u, amount[u] + pending - n)
        /\ totalAmountStaked' = totalAmountStaked + pending - n
    BY <1>4 DEF Withdraw
  <2>2. pending \in Nat
    BY <2>1, <1>p
  <2> HIDE DEF pending
  <2>3. amount[u] + pending - n \in Nat
        /\ totalAmountStaked' = totalAmountStaked - amount[u] + (amount[u] + pending - n)
    BY <2>1, <2>2, <1>4, <1>t
  <2> QED BY <2>1, <2>3, SettledStakes
<1>5. ASSUME NEW u \in User, WithdrawAll(u) PROVE Inv'
  <2>1. UpdatePool /\ amount' = [amount EXCEPT ![u] = 0]
        /\ rewardDebt' = [rewardDebt EXCEPT ![u] = 0]
        /\ totalAmountStaked' = totalAmountStaked - amount[u]
    BY <1>5 DEF WithdrawAll
  <2>2. 0 * accTokenPerShare' = 0 /\ 0 \div PRECISION_FACTOR = 0
    BY <2>1, UpdatePoolTypes, ConstructorRequires
  <2>3. Settle(u, 0)
    BY <2>1, <2>2 DEF Settle
  <2>4. totalAmountStaked' = totalAmountStaked - amount[u] + 0
    BY <2>1, <1>t
  <2> QED BY <2>1, <2>3, <2>4, SettledStakes
<1>6. ASSUME NEW n \in DeployerMints, DeployerMint(n) PROVE Inv'
  BY <1>6, UntouchedStakes DEF DeployerMint, pool
<1>7. CASE TransferOwnership
  BY <1>7, UntouchedStakes DEF TransferOwnership, pool
<1>8. CASE NextBlock
  BY <1>8, UntouchedStakes DEF NextBlock, pool
<1>9. CASE UNCHANGED vars
  BY <1>9, UntouchedStakes DEF vars, pool
<1> QED BY <1>1, <1>2, <1>3, <1>4, <1>5, <1>6, <1>7, <1>8, <1>9 DEF Next

\* The total is the sum of the stakes, and no debt exceeds what its stake has
\* earned: the divisor of every reward is right, and no withdrawal reverts on
\* the subtraction of the debt, in any sequence of transactions.
THEOREM StakesSafe == Spec => []StakesSound
BY StakesFirst, StakesInductive, TypeCorrect, PTL DEF Spec
-----------------------------------------------------------------------------
(* The view *)

\* The view counts the blocks of the periods crossed as the transactions do.
LEMMA AdjustedIsRound ==
  ASSUME TypeOK, ScheduleInv
  PROVE  AdjustedReward = RoundReward(StakingRate)
<1> DEFINE A == AdjustedReward
           R == RoundReward(StakingRate)
           Crossed == (currentPhase + 1)..PhaseReached
<1>1. ASSUME NEW q \in Crossed
      PROVE  Multiplier(EndOf(q - 1), block, EndOf(q)) =
               IF block <= EndOf(q) THEN block - EndOf(q - 1) ELSE Length[q]
  <2>1. currentPhase \in Nat /\ PhaseReached \in currentPhase..LastPeriod /\ LastPeriod \in Nat
    BY LoopExit, ScheduleTypes DEF TypeOK
  <2>2. q - 1 \in currentPhase..LastPeriod /\ q \in 0..LastPeriod
        /\ q \in currentPhase..LastPeriod /\ q \in 0..NUMBER_PERIODS /\ q + 1 \in 0..NUMBER_PERIODS
        /\ q - 1 + 1 = q
    BY <2>1, <1>1, ScheduleTypes
  <2>3. EndOf(q - 1) = PeriodStart(q) /\ EndOf(q) = PeriodStart(q + 1)
    BY <2>2, LoopExit
  <2>4. EndOf(q) = EndOf(q - 1) + Length[q] /\ EndOf(q - 1) \in Nat /\ Length[q] \in Nat
    BY <2>2, <2>3, PeriodStartTypes, ScheduleTypes
  <2> QED BY <2>4 DEF Multiplier, TypeOK
<1>2. \A q \in 0..LastPeriod : A[q] = R[q]
  <2>1. SUFFICES ASSUME NEW q \in 0..LastPeriod PROVE A[q] = R[q]
    OBVIOUS
  <2>2. A[q] = IF q \in Crossed
               THEN (IF block <= EndOf(q) THEN block - EndOf(q - 1) ELSE Length[q]) * StakingRate[q]
               ELSE 0
    BY DEF AdjustedReward
  <2>3. R[q] = IF q \in Crossed
               THEN Multiplier(EndOf(q - 1), block, EndOf(q)) * StakingRate[q] ELSE 0
    BY DEF RoundReward
  <2> HIDE DEF A, R, Crossed
  <2> QED BY <1>1, <2>2, <2>3, Zenon
<1>3. A = R
  <2>1. A = [q \in 0..LastPeriod |-> A[q]] /\ R = [q \in 0..LastPeriod |-> R[q]]
    BY DEF AdjustedReward, RoundReward
  <2> HIDE DEF A, R
  <2> QED BY <1>2, <2>1, Zenon
<1> QED BY <1>3

\* calculatePendingRewards promises, for every schedule, what a harvest in the
\* same block would compound.
THEOREM PreviewSafe == Spec => []PreviewExact
<1>1. TypeOK /\ ScheduleInv => PreviewExact
  <2> SUFFICES ASSUME TypeOK, ScheduleInv, StakingMinted = TokenRewardForStaking, NEW u \in User
               PROVE  CalculatePendingRewards(u) =
                        Pending(u, IF RewardsDue THEN accTokenPerShare + SharePerToken
                                   ELSE accTokenPerShare)
    BY DEF PreviewExact
  <2>1. CASE RewardsDue
    <3>1. TokenRewardForStaking =
            Multiplier(lastRewardBlock, block, endBlock) * rewardPerBlockForStaking
              + PartialSum(AdjustedReward, NUMBER_PERIODS)[NUMBER_PERIODS]
      BY AdjustedIsRound, <2>1, Zenon DEF TokenRewardForStaking, TokenReward
    <3>2. AdjustedTokenPerShare = accTokenPerShare + SharePerToken
      BY <3>1, Zenon DEF AdjustedTokenPerShare, SharePerToken
    <3> QED BY <2>1, <3>2, Zenon DEF CalculatePendingRewards
  <2>2. CASE ~RewardsDue
    BY <2>2, Zenon DEF CalculatePendingRewards
  <2> QED BY <2>1, <2>2, Zenon
<1> QED BY <1>1, TypeCorrect, PTL
-----------------------------------------------------------------------------
(* What backs the stakes *)

\* What settling does to a credit of x fractions less a debt of d units: paying
\* out the whole units leaves less than one unit.
LEMMA RoundingLeft ==
  ASSUME NEW x \in Nat, NEW d \in Nat, x \div PRECISION_FACTOR - d >= 0
  PROVE  /\ x - PRECISION_FACTOR * d \in Nat
         /\ PRECISION_FACTOR * (x \div PRECISION_FACTOR - d) <= x - PRECISION_FACTOR * d
         /\ x - PRECISION_FACTOR * (x \div PRECISION_FACTOR) \in 0..(PRECISION_FACTOR - 1)
         /\ x - PRECISION_FACTOR * (x \div PRECISION_FACTOR) =
              x - PRECISION_FACTOR * d - PRECISION_FACTOR * (x \div PRECISION_FACTOR - d)
<1> DEFINE P == PRECISION_FACTOR
           e == x \div P
<1>1. P \in Nat \ {0}
  BY ConstructorRequires
<1>2. e \in Nat /\ P * e <= x /\ x < P * (e + 1)
  BY <1>1, DivNat, DivBounds
<1> HIDE DEF P, e
<1>3. d <= e
  BY <1>2 DEF P, e
<1>4. P * d <= P * e
  BY <1>1, <1>2, <1>3, MulMonotone
<1>5. P * d \in Nat /\ P * e \in Nat
  BY <1>1, <1>2, MulNat
<1>6. P * (e + 1) = P * e + P /\ P * (e - d) = P * e - P * d
  BY <1>1, <1>2
<1>7. /\ x - P * d \in Nat
      /\ P * (e - d) <= x - P * d
      /\ x - P * e \in 0..(P - 1)
      /\ x - P * e = x - P * d - P * (e - d)
  <2> DEFINE pd == P * d
             pe == P * e
             pf == P * (e + 1)
             pg == P * (e - d)
  <2>1. pd \in Nat /\ pe \in Nat /\ pf = pe + P /\ pg = pe - pd /\ pd <= pe /\ pe <= x /\ x < pf
    BY <1>2, <1>4, <1>5, <1>6
  <2> HIDE DEF pd, pe, pf, pg
  <2>2. x - pd \in Nat /\ pg <= x - pd /\ x - pe \in 0..(P - 1) /\ x - pe = x - pd - pg
    BY <2>1, <1>1
  <2> QED BY <2>2 DEF pd, pe, pg
<1> QED BY <1>7 DEF P, e

\* The credit of v once the accumulator is acc, its account left alone.
CreditAt(v, acc) == amount[v] * acc - PRECISION_FACTOR * rewardDebt[v]

\* Every credit is a natural, as long as the debts are covered.
LEMMA CreditNat ==
  ASSUME TypeOK, NEW acc \in Nat, NEW v \in User, Pending(v, acc) >= 0
  PROVE  CreditAt(v, acc) \in Nat /\ PRECISION_FACTOR * Pending(v, acc) <= CreditAt(v, acc)
<1>1. amount[v] \in Nat /\ rewardDebt[v] \in Nat
  BY DEF TypeOK
<1>2. amount[v] * acc \in Nat
  BY <1>1, MulNat
<1> DEFINE x == amount[v] * acc
<1>3. Pending(v, acc) = x \div PRECISION_FACTOR - rewardDebt[v]
      /\ CreditAt(v, acc) = x - PRECISION_FACTOR * rewardDebt[v]
  BY DEF Pending, CreditAt
<1> HIDE DEF x
<1>4. x \in Nat
  BY <1>2 DEF x
<1> QED BY <1>1, <1>3, <1>4, RoundingLeft

\* So is their total.
LEMMA CreditsNat ==
  ASSUME TypeOK, DebtCovered
  PROVE  /\ [v \in User |-> Credit(v)] \in [User -> Nat]
         /\ SumOver([v \in User |-> Credit(v)], User) \in Nat
<1> DEFINE f == [v \in User |-> Credit(v)]
<1>1. f \in [User -> Nat]
  <2>1. SUFFICES ASSUME NEW v \in User PROVE Credit(v) \in Nat
    OBVIOUS
  <2>2. Credit(v) = CreditAt(v, accTokenPerShare) /\ Pending(v, accTokenPerShare) >= 0
    BY DEF Credit, CreditAt, DebtCovered
  <2>3. accTokenPerShare \in Nat
    BY DEF TypeOK
  <2> QED BY <2>2, <2>3, CreditNat
<1> HIDE DEF f
<1> QED BY <1>1, UnitsFinite, ConstructorRequires DEF f

\* An update raises the credits by no more than it mints for them.
LEMMA CreditsMinted ==
  ASSUME TypeOK, ScheduleInv, StakeAccounted, DebtCovered, UpdatePool
  PROVE  /\ [v \in User |-> CreditAt(v, accTokenPerShare')] \in [User -> Nat]
         /\ SumOver([v \in User |-> CreditAt(v, accTokenPerShare')], User)
              <= SumOver([v \in User |-> Credit(v)], User) + PRECISION_FACTOR * StakingMinted
<1> DEFINE more == accTokenPerShare' - accTokenPerShare
           f == [v \in User |-> Credit(v)]
           g == [v \in User |-> amount[v] * more]
           h == [v \in User |-> CreditAt(v, accTokenPerShare')]
<1>t. accTokenPerShare \in Nat /\ amount \in [User -> Nat] /\ rewardDebt \in [User -> Nat]
      /\ totalAmountStaked \in Nat /\ IsFiniteSet(User) /\ PRECISION_FACTOR \in Nat \ {0}
  BY ConstructorRequires DEF TypeOK
<1>1. accTokenPerShare' \in Nat /\ more \in Nat /\ accTokenPerShare' = accTokenPerShare + more
  BY <1>t, UpdatePoolTypes, AccumulatorGrows
<1>2. totalAmountStaked * more <= PRECISION_FACTOR * StakingMinted
  <2>1. \/ UNCHANGED accTokenPerShare
        \/ RewardsDue /\ accTokenPerShare' = accTokenPerShare + SharePerToken
    BY DEF UpdatePool, pool
  <2>2. CASE UNCHANGED accTokenPerShare
    <3>1. more = 0
      BY <2>2, <1>t
    <3>2. PRECISION_FACTOR * StakingMinted \in Nat
      BY <1>t, MintedNat, MulNat
    <3>3. totalAmountStaked * more = 0
      BY <3>1, <1>t
    <3> HIDE DEF more
    <3> QED BY <3>2, <3>3
  <2>3. CASE RewardsDue /\ accTokenPerShare' = accTokenPerShare + SharePerToken
    <3> DEFINE minted == StakingMinted * PRECISION_FACTOR
    <3>1. minted \in Nat /\ totalAmountStaked \in Nat \ {0}
      BY <1>t, <2>3, MintedNat, MulNat DEF RewardsDue
    <3>2. SharePerToken = minted \div totalAmountStaked
      BY DEF SharePerToken
    <3>3. minted = PRECISION_FACTOR * StakingMinted
      BY <1>t, MintedNat
    <3> HIDE DEF minted
    <3>4. SharePerToken \in Nat /\ totalAmountStaked * SharePerToken <= minted
      BY <3>1, <3>2, DivNat, DivBounds
    <3>5. more = SharePerToken
      BY <1>t, <2>3, <3>4
    <3> QED BY <3>3, <3>4, <3>5
  <2> QED BY <2>1, <2>2, <2>3
<1> HIDE DEF more
<1>3. f \in [User -> Nat]
  BY CreditsNat
<1>4. g \in [User -> Nat]
  BY <1>t, <1>1, MulNat
<1>5. h \in [User -> Nat]
  <2>1. SUFFICES ASSUME NEW v \in User PROVE CreditAt(v, accTokenPerShare') \in Nat
    OBVIOUS
  <2>2. Pending(v, accTokenPerShare) >= 0
    BY DEF DebtCovered
  <2> QED BY <2>2, <1>1, DebtCoveredLater, CreditNat
<1>6. \A v \in User : h[v] = f[v] + g[v]
  <2>1. SUFFICES ASSUME NEW v \in User PROVE h[v] = f[v] + g[v]
    OBVIOUS
  <2>2. h[v] = amount[v] * (accTokenPerShare + more) - PRECISION_FACTOR * rewardDebt[v]
        /\ f[v] = amount[v] * accTokenPerShare - PRECISION_FACTOR * rewardDebt[v]
        /\ g[v] = amount[v] * more
    BY <1>1 DEF Credit, CreditAt
  <2>3. amount[v] \in Nat
    BY <1>t
  <2>4. amount[v] * (accTokenPerShare + more) = amount[v] * accTokenPerShare + amount[v] * more
    BY <2>3, <1>t, <1>1
  <2>5. amount[v] * accTokenPerShare \in Nat /\ amount[v] * more \in Nat
        /\ PRECISION_FACTOR * rewardDebt[v] \in Nat
    BY <2>3, <1>t, <1>1, MulNat
  <2> HIDE DEF f, g, h
  <2> QED BY <2>2, <2>4, <2>5
<1>7. SumOver(h, User) = SumOver(f, User) + SumOver(g, User)
  <2> HIDE DEF f, g, h
  <2> QED BY <1>t, <1>3, <1>4, <1>5, <1>6, SumAdd
<1>8. SumOver(g, User) <= totalAmountStaked * more
  <2>1. \A v \in User : 1 * g[v] <= more * amount[v]
    <3>1. SUFFICES ASSUME NEW v \in User PROVE 1 * g[v] <= more * amount[v]
      OBVIOUS
    <3>2. g[v] = amount[v] * more /\ amount[v] \in Nat
      BY <1>t
    <3>3. amount[v] * more = more * amount[v] /\ amount[v] * more \in Nat
      BY <3>2, <1>1, MulNat
    <3> HIDE DEF g
    <3> QED BY <3>2, <3>3
  <2> HIDE DEF g
  <2>2. 1 * SumOver(g, User) <= more * SumOver(amount, User)
    BY <2>1, <1>t, <1>1, <1>4, SumBound
  <2>3. SumOver(g, User) \in Nat
    BY <1>t, <1>4, UnitsFinite
  <2>4. more * SumOver(amount, User) = totalAmountStaked * more
    BY <1>t, <1>1 DEF StakeAccounted
  <2>5. 1 * SumOver(g, User) = SumOver(g, User)
    BY <2>3
  <2> QED BY <2>2, <2>4, <2>5
<1>9. SumOver(f, User) \in Nat /\ SumOver(g, User) \in Nat
  <2> HIDE DEF f, g
  <2> QED BY <1>t, <1>3, <1>4, UnitsFinite
<1>10. SumOver(h, User) <= SumOver(f, User) + PRECISION_FACTOR * StakingMinted
  <2> DEFINE a == totalAmountStaked * more
             b == PRECISION_FACTOR * StakingMinted
  <2>1. a \in Nat /\ b \in Nat /\ a <= b
    BY <1>t, <1>1, <1>2, MintedNat, MulNat
  <2> HIDE DEF a, b, f, g, h
  <2>2. SumOver(g, User) <= a
    BY <1>8 DEF a
  <2> QED BY <2>1, <2>2, <1>7, <1>9 DEF b
<1> QED BY <1>5, <1>10
\* A transaction that settles the account of u at m tokens, having paid its
\* whole pending reward, keeps the stakes backed: its rounding is at most one
\* unit short of a fraction, and is counted when the stake changes.
LEMMA BackedSettled ==
  ASSUME TypeOK, ScheduleInv, StakeAccounted, DebtCovered, UpdatePool,
         settlements \in Nat, BackedUpToRounding,
         NEW u \in User, NEW m \in Nat, NEW n \in Int, Settle(u, m),
         m = amount[u] + Pending(u, accTokenPerShare') + n,
         totalAmountStaked' = totalAmountStaked - amount[u] + m,
         held' = held + StakingMinted + n,
         settlements' = IF amount' = amount THEN settlements ELSE settlements + 1
  PROVE  BackedUpToRounding'
<1> DEFINE P == PRECISION_FACTOR
           acc == accTokenPerShare'
           h == [v \in User |-> CreditAt(v, acc)]
           k == [v \in User |-> Credit(v)']
           f == [v \in User |-> Credit(v)]
           q == (m * acc) \div P
           pending == Pending(u, acc)
<1>t. amount \in [User -> Nat] /\ rewardDebt \in [User -> Nat] /\ totalAmountStaked \in Nat
      /\ held \in Nat /\ IsFiniteSet(User) /\ PRECISION_FACTOR \in Nat \ {0} /\ StakingMinted \in Nat
  BY ConstructorRequires, MintedNat DEF TypeOK
<1>a. acc \in Nat
  BY UpdatePoolTypes
<1>1. amount' = [amount EXCEPT ![u] = m] /\ rewardDebt' = [rewardDebt EXCEPT ![u] = q]
  BY DEF Settle
<1>2. h \in [User -> Nat] /\ SumOver(h, User) <= SumOver(f, User) + P * StakingMinted
  BY CreditsMinted
<1>3. pending >= 0
  <2>1. Pending(u, accTokenPerShare) >= 0
    BY DEF DebtCovered
  <2> QED BY <2>1, DebtCoveredLater
<1>4. pending \in Nat
  <2>1. (amount[u] * acc) \div P \in Nat
    BY <1>t, <1>a, MulNat, DivNat
  <2> QED BY <2>1, <1>3, <1>t DEF Pending
<1>5. h[u] \in Nat /\ P * pending <= h[u]
  <2>1. CreditAt(u, acc) \in Nat /\ P * pending <= CreditAt(u, acc)
    BY <1>a, <1>3, CreditNat
  <2> QED BY <2>1
<1>6. k[u] = m * acc - P * q /\ k[u] \in 0..(P - 1)
  <2>1. amount'[u] = m /\ rewardDebt'[u] = q
    BY <1>1, <1>t
  <2>2. k[u] = m * acc - P * q
    BY <2>1 DEF Credit
  <2>3. m * acc \in Nat
    BY <1>a, MulNat
  <2> DEFINE x == m * acc
  <2>4. q = x \div P /\ k[u] = x - P * q
    BY <2>2
  <2>5. x \in Nat
    BY <2>3
  <2> HIDE DEF x, q, k
  <2>6. x \div P - 0 >= 0 /\ 0 \in Nat
    BY <2>5, <1>t, DivNat
  <2>7. x - P * (x \div P) \in 0..(P - 1)
    BY <2>5, <2>6, RoundingLeft
  <2> QED BY <2>4, <2>7 DEF x
<1>7. \A v \in User \ {u} : k[v] = h[v]
  <2>1. SUFFICES ASSUME NEW v \in User \ {u} PROVE k[v] = h[v]
    OBVIOUS
  <2>2. amount'[v] = amount[v] /\ rewardDebt'[v] = rewardDebt[v]
    BY <1>1, <1>t
  <2> QED BY <2>2 DEF Credit, CreditAt
<1>8. k \in [User -> Nat]
  <2>1. k = [v \in User |-> k[v]] /\ h = [v \in User |-> h[v]]
    OBVIOUS
  <2>2. \A v \in User : h[v] \in Nat
    BY <1>2
  <2>3. k[u] \in Nat
    BY <1>6, <1>t
  <2> HIDE DEF k, h
  <2> QED BY <2>1, <2>2, <2>3, <1>7
<1>9. SumOver(k, User) = SumOver(h, User) - h[u] + k[u]
  <2> HIDE DEF k, h
  <2> QED BY <1>2, <1>7, <1>8, <1>t, SumUpdate
<1>10. k[u] - h[u] <= (P - 1) * (settlements' - settlements) - P * pending
  <2> DEFINE pp == P * pending
  <2>0. pp \in Nat
    BY <1>t, <1>4, MulNat
  <2>1. CASE amount' # amount
    <3>1. settlements' - settlements = 1
      BY <2>1
    <3>2. (P - 1) * (settlements' - settlements) = P - 1
      BY <3>1, <1>t
    <3>3. pp <= h[u] /\ k[u] \in 0..(P - 1) /\ h[u] \in Nat
      BY <1>5, <1>6
    <3> HIDE DEF pp, k, h, pending
    <3>4. k[u] - h[u] <= P - 1 - pp
      BY <3>3, <2>0, <1>t
    <3> QED BY <3>2, <3>4 DEF pp
  <2>2. CASE amount' = amount
    <3>1. m = amount[u] /\ settlements' - settlements = 0
      BY <2>2, <1>1, <1>t
    <3>2. (P - 1) * (settlements' - settlements) = 0
      BY <3>1, <1>t
    <3> DEFINE x == m * acc
    <3>3. x \in Nat /\ q = x \div P /\ pending = x \div P - rewardDebt[u]
          /\ h[u] = x - P * rewardDebt[u]
      BY <3>1, <1>a, MulNat DEF Pending, CreditAt
    <3>4. rewardDebt[u] \in Nat /\ k[u] = x - P * q
      BY <1>t, <1>6
    <3> HIDE DEF x, q, k, h, pending
    <3>5. x - P * q = h[u] - P * pending
      BY <3>3, <3>4, <1>3, RoundingLeft
    <3>6. k[u] = h[u] - pp
      BY <3>4, <3>5
    <3>7. h[u] \in Nat
      BY <1>5
    <3> HIDE DEF pp
    <3>8. k[u] - h[u] = 0 - pp
      BY <3>6, <3>7, <2>0
    <3> QED BY <3>8, <3>2, <2>0 DEF pp
  <2> QED BY <2>1, <2>2
<1>11. SumOver(f, User) + P * totalAmountStaked <= P * held + (P - 1) * settlements
  BY DEF BackedUpToRounding
<1>12. SumOver(k, User) + P * totalAmountStaked' <= P * held' + (P - 1) * settlements'
  <2> DEFINE pt == P * totalAmountStaked
             ph == P * held
             ps == P * StakingMinted
             pp == P * pending
             pn == P * n
             r  == (P - 1) * settlements
             dr == (P - 1) * (settlements' - settlements)
             sf == SumOver(f, User)
             sh == SumOver(h, User)
             sk == SumOver(k, User)
  <2>n. settlements' \in Nat /\ n \in Int /\ P \in Int
    BY <1>t
  <2>1. totalAmountStaked' = totalAmountStaked + pending + n
    <3> HIDE DEF pending
    <3>1. amount[u] \in Nat /\ m = amount[u] + pending + n
      BY <1>t DEF pending
    <3> QED BY <3>1, <1>4, <1>t
  <2>2. P * totalAmountStaked' = pt + pp + pn
    <3> HIDE DEF pending
    <3> QED BY <2>1, <1>4, <1>t
  <2>3. P * held' = ph + ps + pn
    BY <1>t
  <2>4. (P - 1) * settlements' = r + dr
    <3>1. P - 1 \in Int
      BY <1>t
    <3> QED BY <3>1, <2>n
  <2>5. pt \in Int /\ ph \in Int /\ ps \in Int /\ pp \in Int /\ pn \in Int /\ r \in Int /\ dr \in Int
    <3> HIDE DEF pending
    <3> QED BY <1>t, <1>4, <2>n
  <2>6. sh \in Nat /\ sk \in Nat /\ sf \in Int
    <3>1. sh \in Nat /\ sk \in Nat
      <4> HIDE DEF h, k
      <4> QED BY <1>2, <1>8, <1>t, UnitsFinite
    <3> QED BY <3>1, CreditsNat
  <2>7. /\ sk = sh - h[u] + k[u]
        /\ k[u] - h[u] <= dr - pp
        /\ sh <= sf + ps
        /\ sf + pt <= ph + r
        /\ h[u] \in Nat
        /\ k[u] \in Nat
    BY <1>2, <1>5, <1>8, <1>9, <1>10, <1>11
  <2> HIDE DEF pt, ph, ps, pp, pn, r, dr, sf, sh, sk, f, h, k
  <2>8. sk + (pt + pp + pn) <= (ph + ps + pn) + (r + dr)
    BY <2>5, <2>6, <2>7
  <2>9. sk + P * totalAmountStaked' <= P * held' + (P - 1) * settlements'
    BY <2>2, <2>3, <2>4, <2>8, Zenon
  <2> QED BY <2>9 DEF sk
<1> QED BY <1>12 DEF BackedUpToRounding

\* A transaction that leaves the stakes and their settlements alone.
LEMMA BackedUntouched ==
  ASSUME TypeOK, ScheduleInv, StakeAccounted, DebtCovered,
         settlements \in Nat, BackedUpToRounding, UNCHANGED <<stakes, settlements>>,
         \/ UpdatePool /\ held' = held + StakingMinted
         \/ UNCHANGED <<accTokenPerShare, held>>
  PROVE  BackedUpToRounding'
<1>1. UNCHANGED <<totalAmountStaked, amount, rewardDebt>>
  BY DEF stakes
<1>2. CASE UNCHANGED <<accTokenPerShare, held>>
  BY <1>1, <1>2 DEF BackedUpToRounding, Credit
<1>3. CASE UpdatePool /\ held' = held + StakingMinted
  <2> DEFINE P == PRECISION_FACTOR
             sf == SumOver([v \in User |-> Credit(v)], User)
             sh == SumOver([v \in User |-> CreditAt(v, accTokenPerShare')], User)
             sk == SumOver([v \in User |-> Credit(v)'], User)
             ps == P * StakingMinted
             ph == P * held
             pt == P * totalAmountStaked
             r  == (P - 1) * settlements
  <2>t. held \in Nat /\ totalAmountStaked \in Nat /\ P \in Nat \ {0} /\ StakingMinted \in Nat
        /\ IsFiniteSet(User)
    BY ConstructorRequires, MintedNat DEF TypeOK
  <2>1. sh <= sf + ps /\ [v \in User |-> CreditAt(v, accTokenPerShare')] \in [User -> Nat]
    BY <1>3, CreditsMinted
  <2>2. sk = sh
    BY <1>1 DEF Credit, CreditAt
  <2>3. sf + pt <= ph + r
    BY DEF BackedUpToRounding
  <2>4. P * held' = ph + ps
    BY <1>3, <2>t
  <2>5. ps \in Int /\ ph \in Int /\ pt \in Int /\ r \in Int
    BY <2>t
  <2>6. sh \in Int
    <3>1. sh \in Nat
      BY <2>1, <2>t, UnitsFinite
    <3> QED BY <3>1
  <2>7. sf \in Nat
    BY CreditsNat
  <2> HIDE DEF sf, sh, ps, ph, pt, r
  <2>8. sh + pt <= (ph + ps) + r
    BY <2>1, <2>3, <2>5, <2>6, <2>7
  <2> HIDE DEF sk
  <2>9. sk + P * totalAmountStaked' <= P * held' + (P - 1) * settlements'
    BY <1>1, <2>2, <2>4, <2>8 DEF pt, r
  <2> QED BY <2>9 DEF BackedUpToRounding, sk
<1> QED BY <1>2, <1>3
\* The LOOKS in the distributor's hands cover every stake and every reward not
\* yet compounded, up to the rounding of the settlements so far, whatever the
\* deployer minted before and whatever the supply cap refused.
THEOREM StakesBacked == BackingSpec => []BackedUpToRounding
<1> DEFINE Types == TypeOK /\ ScheduleInv
           Sound == StakeAccounted /\ DebtCovered
           Inv == settlements \in Nat /\ BackedUpToRounding
<1>1. BackingInit => Inv
  <2>1. SUFFICES ASSUME BackingInit PROVE BackedUpToRounding /\ settlements = 0
    OBVIOUS
  <2>2. /\ settlements = 0 /\ held = 0 /\ totalAmountStaked = 0 /\ accTokenPerShare = 0
        /\ amount = [u \in User |-> 0] /\ rewardDebt = [u \in User |-> 0]
    BY <2>1 DEF BackingInit, Init
  <2> DEFINE f == [u \in User |-> Credit(u)]
  <2>3. PRECISION_FACTOR \in Nat
    BY ConstructorRequires
  <2>4. f \in [User -> Nat] /\ \A u \in User : f[u] = 0
    <3>1. SUFFICES ASSUME NEW u \in User PROVE Credit(u) = 0
      OBVIOUS
    <3>2. amount[u] = 0 /\ rewardDebt[u] = 0
      BY <2>2
    <3> QED BY <3>2, <2>2, <2>3 DEF Credit
  <2>5. SumOver(f, User) = 0
    <3> HIDE DEF f
    <3> QED BY <2>4, SumZero
  <2>6. PRECISION_FACTOR * totalAmountStaked = 0 /\ PRECISION_FACTOR * held = 0
        /\ (PRECISION_FACTOR - 1) * settlements = 0
    BY <2>2, <2>3
  <2> HIDE DEF f
  <2>7. SumOver(f, User) + PRECISION_FACTOR * totalAmountStaked
          <= PRECISION_FACTOR * held + (PRECISION_FACTOR - 1) * settlements
    BY <2>5, <2>6
  <2> QED BY <2>2, <2>7 DEF BackedUpToRounding, f
<1>2. Types /\ Sound /\ Inv /\ [BackingNext]_<<vars, settlements>> => Inv'
  <2> SUFFICES ASSUME TypeOK, ScheduleInv, StakeAccounted, DebtCovered,
                      settlements \in Nat, BackedUpToRounding,
                      [BackingNext]_<<vars, settlements>>
               PROVE  settlements' \in Nat /\ BackedUpToRounding'
    OBVIOUS
  <2>t. amount \in [User -> Nat] /\ rewardDebt \in [User -> Nat] /\ totalAmountStaked \in Nat
        /\ wallet \in [User -> Nat] /\ held \in Nat
    BY DEF TypeOK
  <2>m. StakingMinted \in Nat
    BY MintedNat
  <2>p. \A u \in User : UpdatePool => Pending(u, accTokenPerShare') \in Nat
    <3> SUFFICES ASSUME NEW u \in User, UpdatePool PROVE Pending(u, accTokenPerShare') \in Nat
      OBVIOUS
    <3>1. (amount[u] * accTokenPerShare') \div PRECISION_FACTOR \in Nat
      BY <2>t, UpdatePoolTypes, MulNat, DivNat, ConstructorRequires
    <3>2. Pending(u, accTokenPerShare) >= 0
      BY DEF DebtCovered
    <3>3. Pending(u, accTokenPerShare') >= 0
      BY <3>2, DebtCoveredLater
    <3> QED BY <3>1, <3>3, <2>t DEF Pending
  <2>c. CASE UNCHANGED <<vars, settlements>>
    <3>1. UNCHANGED <<stakes, settlements>> /\ UNCHANGED <<accTokenPerShare, held>>
      BY <2>c DEF vars, pool
    <3> QED BY <3>1, BackedUntouched
  <2>n. CASE BackingNext
    <3>c. settlements' = (IF amount' = amount THEN settlements ELSE settlements + 1)
          /\ settlements' \in Nat
      BY <2>n DEF BackingNext
    <3>1. ASSUME NEW u \in User, NEW n \in 1..wallet[u], Deposit(u, n) PROVE BackedUpToRounding'
      <4> DEFINE paid == IF amount[u] > 0 THEN Pending(u, accTokenPerShare') ELSE 0
                 pending == Pending(u, accTokenPerShare')
      <4>1. UpdatePool /\ Settle(u, amount[u] + n + paid)
            /\ totalAmountStaked' = totalAmountStaked + n + paid
            /\ held' = held + StakingMinted + n
        BY <3>1 DEF Deposit
      <4>2. pending \in Nat
        BY <4>1, <2>p
      <4>3. paid = pending
        <5>1. CASE amount[u] > 0
          BY <5>1
        <5>2. CASE ~(amount[u] > 0)
          <6>1. amount[u] = 0 /\ amount[u] * accTokenPerShare' = 0
            BY <5>2, <2>t, <4>1, UpdatePoolTypes
          <6>2. (amount[u] * accTokenPerShare') \div PRECISION_FACTOR = 0
            BY <6>1, ConstructorRequires
          <6>3. pending = 0 - rewardDebt[u] /\ rewardDebt[u] \in Nat
            BY <6>2, <2>t DEF Pending
          <6> HIDE DEF pending
          <6>4. pending = 0
            BY <6>3, <4>2
          <6> QED BY <6>4, <5>2
        <5> QED BY <5>1, <5>2
      <4> HIDE DEF paid, pending
      <4>4. /\ Settle(u, amount[u] + n + pending)
            /\ totalAmountStaked' = totalAmountStaked + n + pending
        BY <4>1, <4>3
      <4> DEFINE m == amount[u] + n + pending
      <4>5. /\ m \in Nat /\ n \in Int /\ m = amount[u] + pending + n
            /\ totalAmountStaked' = totalAmountStaked - amount[u] + m
        BY <4>2, <4>4, <2>t
      <4>6. Settle(u, m)
        BY <4>4
      <4> HIDE DEF m
      <4> QED BY <4>1, <4>5, <4>6, <3>c, BackedSettled DEF pending
    <3>2. ASSUME NEW u \in User, HarvestAndCompound(u) PROVE BackedUpToRounding'
      <4> DEFINE pending == Pending(u, accTokenPerShare')
      <4>1. UpdatePool /\ held' = held + StakingMinted
        BY <3>2 DEF HarvestAndCompound
      <4>2. CASE UNCHANGED stakes
        <5>1. UNCHANGED <<stakes, settlements>>
          BY <4>2, <3>c DEF stakes
        <5> QED BY <5>1, <4>1, BackedUntouched
      <4>3. CASE Settle(u, amount[u] + pending) /\ totalAmountStaked' = totalAmountStaked + pending
        <5>1. pending \in Nat
          BY <4>1, <2>p
        <5> DEFINE m == amount[u] + pending
        <5>2. Settle(u, m)
          BY <4>3
        <5>3. m \in Nat /\ 0 \in Int /\ m = amount[u] + pending + 0
              /\ totalAmountStaked' = totalAmountStaked - amount[u] + m
              /\ held' = held + StakingMinted + 0
          <6> HIDE DEF pending
          <6> QED BY <4>1, <4>3, <5>1, <2>t, <2>m
        <5> HIDE DEF m
        <5> QED BY <4>1, <5>2, <5>3, <3>c, BackedSettled
      <4> QED BY <3>2, <4>2, <4>3 DEF HarvestAndCompound
    <3>3. CASE UpdatePoolOnly
      <4>1. UpdatePool /\ held' = held + StakingMinted /\ UNCHANGED <<stakes, settlements>>
        BY <3>3, <3>c DEF UpdatePoolOnly, stakes
      <4> QED BY <4>1, BackedUntouched
    <3>4. ASSUME NEW u \in User, NEW n \in 1..amount[u], Withdraw(u, n) PROVE BackedUpToRounding'
      <4> DEFINE pending == Pending(u, accTokenPerShare')
                 m == amount[u] + pending - n
      <4>1. /\ UpdatePool
            /\ Settle(u, m)
            /\ totalAmountStaked' = totalAmountStaked + pending - n
            /\ held' = held + StakingMinted - n
        BY <3>4 DEF Withdraw
      <4>2. pending \in Nat
        BY <4>1, <2>p
      <4>3. /\ m \in Nat /\ 0 - n \in Int /\ m = amount[u] + pending + (0 - n)
            /\ totalAmountStaked' = totalAmountStaked - amount[u] + m
            /\ held' = held + StakingMinted + (0 - n)
        <5> HIDE DEF pending
        <5> QED BY <4>1, <4>2, <2>t, <2>m
      <4> HIDE DEF m
      <4> QED BY <4>1, <4>3, <3>c, BackedSettled
    <3>5. ASSUME NEW u \in User, WithdrawAll(u) PROVE BackedUpToRounding'
      <4> DEFINE pending == Pending(u, accTokenPerShare')
                 n == 0 - (amount[u] + pending)
      <4>1. /\ UpdatePool
            /\ totalAmountStaked' = totalAmountStaked - amount[u]
            /\ held' = held + StakingMinted - (amount[u] + pending)
            /\ amount' = [amount EXCEPT ![u] = 0]
            /\ rewardDebt' = [rewardDebt EXCEPT ![u] = 0]
        BY <3>5 DEF WithdrawAll
      <4>2. pending \in Nat
        BY <4>1, <2>p
      <4>3. 0 * accTokenPerShare' = 0 /\ 0 \div PRECISION_FACTOR = 0
        BY <4>1, UpdatePoolTypes, ConstructorRequires
      <4>4. Settle(u, 0)
        BY <4>1, <4>3 DEF Settle
      <4>5. /\ 0 \in Nat /\ n \in Int /\ 0 = amount[u] + pending + n
            /\ totalAmountStaked' = totalAmountStaked - amount[u] + 0
            /\ held' = held + StakingMinted + n
        <5> HIDE DEF pending
        <5> QED BY <4>1, <4>2, <2>t, <2>m
      <4> HIDE DEF n
      <4> QED BY <4>1, <4>4, <4>5, <3>c, BackedSettled
    <3>6. CASE UNCHANGED <<stakes, accTokenPerShare, held>>
      <4>1. UNCHANGED <<stakes, settlements>>
        BY <3>6, <3>c DEF stakes
      <4> QED BY <4>1, <3>6, BackedUntouched
    <3>7. \/ UNCHANGED <<stakes, accTokenPerShare, held>>
          \/ UpdatePoolOnly
          \/ \E u \in User :
               \/ HarvestAndCompound(u)
               \/ WithdrawAll(u)
               \/ \E n \in 1..wallet[u] : Deposit(u, n)
               \/ \E n \in 1..amount[u] : Withdraw(u, n)
      BY <2>n, Zenon DEF BackingNext, Next, DeployerMint, TransferOwnership, NextBlock, pool
    <3> QED BY <3>1, <3>2, <3>3, <3>4, <3>5, <3>6, <3>7, <3>c
  <2> QED BY <2>c, <2>n
<1>3. BackingSpec => Spec
  <2>1. BackingInit => Init
    BY DEF BackingInit
  <2>2. [BackingNext]_<<vars, settlements>> => [Next]_vars
    BY DEF BackingNext
  <2> QED BY <2>1, <2>2, PTL DEF BackingSpec, Spec
<1>4. StakesSound => Sound
  BY DEF StakesSound
<1> QED BY <1>1, <1>2, <1>3, <1>4, TypeCorrect, StakesSafe, PTL DEF BackingSpec
-----------------------------------------------------------------------------
(* The emission refines its schedule *)

\* The blocks an update that ends in period p pays for at the end block and
\* the rate of period q.
PaidNow(q) ==
  IF ~RewardsDue THEN 0
  ELSE IF q = currentPhase THEN Multiplier(lastRewardBlock, block, endBlock)
  ELSE IF q \in (currentPhase + 1)..PhaseReached THEN Multiplier(EndOf(q - 1), block, EndOf(q))
  ELSE 0

\* The blocks of period q that can have been paid for when the contract is in
\* period phase and was last updated at block last, and the LOOKS for them.
PaidBlocks(q, phase, last) ==
  IF q < phase THEN Length[q] ELSE IF q = phase THEN Elapsed(q, last) ELSE 0
PaidFor(rates, phase, last) ==
  PartialSum([q \in 0..LastPeriod |-> PaidBlocks(q, phase, last) * rates[q]],
             NUMBER_PERIODS)[NUMBER_PERIODS]

\* The last update was in or after the current period, and at a block that has
\* been reached, unless the staking has not started yet.
UpdatedInTime ==
  /\ block <= MaxBlock
  /\ lastRewardBlock >= PeriodStart(currentPhase)
  /\ \/ lastRewardBlock <= block
     \/ currentPhase = 0 /\ lastRewardBlock = START_BLOCK

\* No more was minted than the blocks up to the last update are worth, at the
\* rates of their own periods: what each period is worth is counted once.
NothingPaidTwice ==
  MintedHere <= PaidFor(StakingRate, currentPhase, lastRewardBlock)
                  + PaidFor(OthersRate, currentPhase, lastRewardBlock)

\* The blocks of a period that are over.
LEMMA ElapsedTypes ==
  ASSUME NEW q \in 0..LastPeriod, NEW b \in Nat
  PROVE  /\ Elapsed(q, b) \in 0..Length[q]
         /\ PeriodStart(q) \in Nat
         /\ Length[q] \in Nat
         /\ PeriodStart(q + 1) = PeriodStart(q) + Length[q]
<1>1. q \in 0..NUMBER_PERIODS
  BY ScheduleTypes
<1>2. PeriodStart(q) \in Nat /\ Length[q] \in Nat /\ PeriodStart(q + 1) = PeriodStart(q) + Length[q]
  BY <1>1, PeriodStartTypes, ScheduleTypes
<1> QED BY <1>2 DEF Elapsed

\* The blocks that can have been paid for are naturals, and so is what they
\* are worth.
LEMMA PaidForTypes ==
  ASSUME NEW rates \in [0..LastPeriod -> Nat], NEW phase \in 0..LastPeriod, NEW last \in Nat
  PROVE  /\ \A q \in 0..LastPeriod : PaidBlocks(q, phase, last) \in Nat
         /\ [q \in 0..LastPeriod |-> PaidBlocks(q, phase, last) * rates[q]]
              \in [0..(NUMBER_PERIODS - 1) -> Nat]
         /\ PaidFor(rates, phase, last) \in Nat
<1> DEFINE f == [q \in 0..LastPeriod |-> PaidBlocks(q, phase, last) * rates[q]]
<1>1. \A q \in 0..LastPeriod : PaidBlocks(q, phase, last) \in Nat
  <2> SUFFICES ASSUME NEW q \in 0..LastPeriod PROVE PaidBlocks(q, phase, last) \in Nat
    OBVIOUS
  <2>1. Length[q] \in Nat /\ Elapsed(q, last) \in 0..Length[q]
    BY ElapsedTypes
  <2> QED BY <2>1 DEF PaidBlocks
<1>2. \A q \in 0..LastPeriod : PaidBlocks(q, phase, last) * rates[q] \in Nat
  BY <1>1, MulNat
<1>3. f \in [0..(NUMBER_PERIODS - 1) -> Nat] /\ NUMBER_PERIODS \in Nat
  BY <1>2, ScheduleTypes
<1>4. PartialSum(f, NUMBER_PERIODS) \in [0..NUMBER_PERIODS -> Nat]
  <2> HIDE DEF f
  <2> QED BY <1>3, PartialSumRec
<1>5. PaidFor(rates, phase, last) \in Nat
  <2> HIDE DEF f
  <2>1. PartialSum(f, NUMBER_PERIODS)[NUMBER_PERIODS] \in Nat
    BY <1>3, <1>4
  <2> QED BY <2>1 DEF f, PaidFor
<1> QED BY <1>1, <1>3, <1>5

\* An update pays for blocks that were not paid for, in every period: those it
\* can have paid for afterwards are at least those of before and the new ones.
LEMMA PaidBlocksGrow ==
  ASSUME TypeOK, ScheduleInv, UpdatedInTime, UpdatePool, NEW q \in 0..LastPeriod
  PROVE  /\ PaidNow(q) \in Nat
         /\ PaidBlocks(q, currentPhase, lastRewardBlock) + PaidNow(q)
              <= PaidBlocks(q, currentPhase', lastRewardBlock')
<1>t. /\ block \in Nat /\ lastRewardBlock \in Nat /\ currentPhase \in 0..LastPeriod
      /\ q \in Nat /\ LastPeriod \in Nat /\ currentPhase \in Nat
  BY ScheduleTypes DEF TypeOK
<1>1. /\ Elapsed(q, lastRewardBlock) \in 0..Length[q] /\ Elapsed(q, block) \in 0..Length[q]
      /\ PeriodStart(q) \in Nat
      /\ Length[q] \in Nat
      /\ PeriodStart(q + 1) = PeriodStart(q) + Length[q]
  BY <1>t, ElapsedTypes
<1>2. lastRewardBlock >= PeriodStart(currentPhase)
  BY DEF UpdatedInTime
<1>3. CASE block <= lastRewardBlock /\ UNCHANGED <<pool, minting>>
  <2>1. ~RewardsDue /\ UNCHANGED <<currentPhase, lastRewardBlock>>
    BY <1>3, <1>t DEF RewardsDue, pool, schedule
  <2> QED BY <2>1, <1>1, <1>t DEF PaidNow, PaidBlocks
<1>4. CASE block > lastRewardBlock /\ totalAmountStaked = 0
           /\ UNCHANGED schedule /\ lastRewardBlock' = block
  <2>1. ~RewardsDue /\ currentPhase' = currentPhase
    BY <1>4 DEF RewardsDue, schedule
  <2>2. Elapsed(q, lastRewardBlock) <= Elapsed(q, block)
    BY <1>4, <1>1, <1>t DEF Elapsed
  <2> QED BY <2>1, <2>2, <1>1, <1>4, <1>t DEF PaidNow, PaidBlocks
<1>5. CASE RewardsDue
  <2>1. /\ currentPhase' = PhaseReached
        /\ endBlock' = EndOf(PhaseReached)
        /\ lastRewardBlock' = IF lastRewardBlock <= endBlock' THEN block ELSE lastRewardBlock
        /\ block > lastRewardBlock
    BY <1>5, <1>t DEF UpdatePool, RewardsDue
  <2>2. /\ PhaseReached \in currentPhase..LastPeriod
        /\ \A p \in currentPhase..LastPeriod : EndOf(p) = PeriodStart(p + 1)
        /\ block <= EndOf(PhaseReached) \/ PhaseReached = LastPeriod
        /\ \A p \in currentPhase..(PhaseReached - 1) : block > EndOf(p)
    BY LoopExit
  <2> DEFINE P == PhaseReached
             now == Multiplier(lastRewardBlock, block, endBlock)
  <2>t. P \in Nat /\ P >= currentPhase
    BY <2>2, <1>t
  <2>3. CASE q < currentPhase
    BY <2>3, <2>1, <2>t, <1>1, <1>t, <1>5 DEF PaidNow, PaidBlocks
  <2>4. CASE q = currentPhase
    <3>1. endBlock = PeriodStart(q + 1) /\ PaidNow(q) = now
      BY <2>4, <1>5 DEF ScheduleInv, PaidNow
    <3>2. now \in Nat /\ Elapsed(q, lastRewardBlock) + now = Elapsed(q, block)
      BY <3>1, <2>1, <2>4, <1>1, <1>2, <1>t DEF Multiplier, Elapsed
    <3>3. PaidBlocks(q, currentPhase, lastRewardBlock) = Elapsed(q, lastRewardBlock)
      BY <2>4, <1>t DEF PaidBlocks
    <3>4. CASE P > currentPhase
      <4>1. PaidBlocks(q, currentPhase', lastRewardBlock') = Length[q]
        BY <3>4, <2>1, <2>4, <1>t, <2>t DEF PaidBlocks
      <4> QED BY <4>1, <3>1, <3>2, <3>3, <1>1
    <3>5. CASE P = currentPhase
      <4>1. PaidBlocks(q, currentPhase', lastRewardBlock') = Elapsed(q, lastRewardBlock')
        BY <3>5, <2>1, <2>4, <1>t, <2>t DEF PaidBlocks
      <4>2. EndOf(P) = PeriodStart(q + 1)
        BY <3>5, <2>2, <2>4, <1>t
      <4>3. CASE lastRewardBlock <= endBlock'
        <5>1. PaidBlocks(q, currentPhase', lastRewardBlock') = Elapsed(q, block)
          BY <4>1, <4>3, <2>1
        <5> HIDE DEF now
        <5> QED BY <5>1, <3>1, <3>2, <3>3, <1>1
      <4>4. CASE ~(lastRewardBlock <= endBlock')
        <5>1. lastRewardBlock' = lastRewardBlock /\ lastRewardBlock > PeriodStart(q + 1)
          BY <4>2, <4>4, <2>1, <1>t, <1>1
        <5>2. Elapsed(q, lastRewardBlock) = Length[q]
          BY <5>1, <1>1, <1>t DEF Elapsed
        <5> QED BY <5>1, <5>2, <4>1, <3>1, <3>2, <3>3, <1>1
      <4> QED BY <4>3, <4>4
    <3> QED BY <3>4, <3>5, <2>t, <1>t
  <2>5. CASE q > currentPhase /\ q <= P
    <3>1. q - 1 \in currentPhase..LastPeriod /\ q - 1 \in currentPhase..(P - 1)
          /\ q \in currentPhase..LastPeriod /\ q - 1 + 1 = q /\ q \in (currentPhase + 1)..P
      BY <2>5, <2>t, <2>2, <1>t
    <3>2. EndOf(q - 1) = PeriodStart(q) /\ EndOf(q) = PeriodStart(q + 1) /\ block > EndOf(q - 1)
      BY <3>1, <2>2
    <3>3. PaidNow(q) = Multiplier(EndOf(q - 1), block, EndOf(q))
      BY <3>1, <2>5, <1>5, <1>t DEF PaidNow
    <3>4. PaidNow(q) = Elapsed(q, block)
      BY <3>2, <3>3, <1>1, <1>t DEF Multiplier, Elapsed
    <3>5. PaidBlocks(q, currentPhase, lastRewardBlock) = 0
      BY <2>5, <1>t DEF PaidBlocks
    <3>6. CASE q < P
      <4>1. PaidBlocks(q, currentPhase', lastRewardBlock') = Length[q]
        BY <3>6, <2>1 DEF PaidBlocks
      <4> QED BY <4>1, <3>4, <3>5, <1>1
    <3>7. CASE q = P
      <4>1. PaidBlocks(q, currentPhase', lastRewardBlock') = Elapsed(q, lastRewardBlock')
        BY <3>7, <2>1, <1>t DEF PaidBlocks
      <4>2. CASE lastRewardBlock <= endBlock'
        BY <4>1, <4>2, <3>4, <3>5, <2>1, <1>1
      <4>3. CASE ~(lastRewardBlock <= endBlock')
        <5>1. lastRewardBlock' = lastRewardBlock /\ lastRewardBlock > PeriodStart(q + 1)
          BY <4>3, <3>2, <3>7, <2>1, <1>t, <1>1
        <5>2. Elapsed(q, lastRewardBlock) = Length[q]
          BY <5>1, <1>1, <1>t DEF Elapsed
        <5> QED BY <5>1, <5>2, <4>1, <3>4, <3>5, <1>1
      <4> QED BY <4>2, <4>3
    <3> QED BY <3>6, <3>7, <2>5, <2>t, <1>t
  <2>6. CASE q > P
    <3>1. PaidNow(q) = 0
      BY <2>6, <2>t, <1>t DEF PaidNow
    <3>2. PaidBlocks(q, currentPhase, lastRewardBlock) = 0
          /\ PaidBlocks(q, currentPhase', lastRewardBlock') = 0
      BY <2>1, <2>6, <2>t, <1>t DEF PaidBlocks
    <3> QED BY <3>1, <3>2
  <2> QED BY <2>3, <2>4, <2>5, <2>6, <2>t, <1>t
<1>6. \/ block <= lastRewardBlock /\ UNCHANGED <<pool, minting>>
      \/ block > lastRewardBlock /\ totalAmountStaked = 0
           /\ UNCHANGED schedule /\ lastRewardBlock' = block
      \/ RewardsDue
  BY Zenon DEF UpdatePool
<1> QED BY <1>3, <1>4, <1>5, <1>6, Zenon

\* The reward an update computes is worth no more than the blocks it newly
\* counts as paid for.
LEMMA RewardPaid ==
  ASSUME TypeOK, ScheduleInv, UpdatedInTime, UpdatePool, NEW rates \in [0..LastPeriod -> Nat]
  PROVE  TokenReward(rates[currentPhase], rates) + PaidFor(rates, currentPhase, lastRewardBlock)
           <= PaidFor(rates, currentPhase', lastRewardBlock')
<1> DEFINE f == [q \in 0..LastPeriod |-> PaidBlocks(q, currentPhase, lastRewardBlock) * rates[q]]
           g == [q \in 0..LastPeriod |-> PaidNow(q) * rates[q]]
           h == [q \in 0..LastPeriod |-> PaidBlocks(q, currentPhase', lastRewardBlock') * rates[q]]
           R == RoundReward(rates)
           N == NUMBER_PERIODS
           reward == TokenReward(rates[currentPhase], rates)
<1>t. /\ currentPhase \in 0..LastPeriod /\ lastRewardBlock \in Nat /\ N \in Nat
      /\ currentPhase' \in 0..LastPeriod /\ lastRewardBlock' \in Nat
      /\ 0..LastPeriod = 0..(N - 1) /\ LastPeriod \in Nat
  BY UpdatePoolTypes, ScheduleTypes DEF TypeOK
<1>1. f \in [0..(N - 1) -> Nat] /\ PaidFor(rates, currentPhase, lastRewardBlock) = PartialSum(f, N)[N]
      /\ PaidFor(rates, currentPhase, lastRewardBlock) \in Nat
  BY <1>t, PaidForTypes DEF PaidFor
<1>2. h \in [0..(N - 1) -> Nat] /\ PaidFor(rates, currentPhase', lastRewardBlock') = PartialSum(h, N)[N]
      /\ PaidFor(rates, currentPhase', lastRewardBlock') \in Nat
  BY <1>t, PaidForTypes DEF PaidFor
<1>3. g \in [0..(N - 1) -> Nat]
  <2>1. \A q \in 0..LastPeriod : PaidNow(q) * rates[q] \in Nat
    BY PaidBlocksGrow, MulNat
  <2> QED BY <2>1, <1>t
<1>4. \A q \in 0..(N - 1) : f[q] + g[q] <= h[q]
  <2> SUFFICES ASSUME NEW q \in 0..LastPeriod PROVE f[q] + g[q] <= h[q]
    BY <1>t
  <2> DEFINE a == PaidBlocks(q, currentPhase, lastRewardBlock)
             b == PaidNow(q)
             c == PaidBlocks(q, currentPhase', lastRewardBlock')
  <2>1. a \in Nat /\ b \in Nat /\ c \in Nat /\ rates[q] \in Nat /\ a + b <= c
    BY <1>t, PaidForTypes, PaidBlocksGrow
  <2>2. f[q] = a * rates[q] /\ g[q] = b * rates[q] /\ h[q] = c * rates[q]
    OBVIOUS
  <2> HIDE DEF a, b, c, f, g, h
  <2> DEFINE r == rates[q]
  <2>3. r \in Nat
    BY <2>1
  <2> HIDE DEF r
  <2>4. r * (a + b) <= r * c
    BY <2>1, <2>3, MulMonotone
  <2>5. r * (a + b) = a * r + b * r /\ r * c = c * r
    BY <2>1, <2>3
  <2>6. a * r + b * r <= c * r
    BY <2>4, <2>5
  <2> QED BY <2>2, <2>6 DEF r
<1>5. PartialSum(f, N)[N] + PartialSum(g, N)[N] <= PartialSum(h, N)[N]
  <2> HIDE DEF f, g, h, N
  <2> QED BY <1>t, <1>1, <1>2, <1>3, <1>4, PartialSumAddLe
<1>6. PartialSum(g, N)[N] \in Nat
  <2> HIDE DEF g, N
  <2>1. PartialSum(g, N) \in [0..N -> Nat]
    BY <1>t, <1>3, PartialSumRec
  <2> QED BY <2>1, <1>t
<1>7. reward <= PartialSum(g, N)[N] /\ reward \in Nat
  <2>1. CASE ~RewardsDue
    <3>1. reward = 0
      BY <2>1 DEF TokenReward
    <3> HIDE DEF reward, g, N
    <3> QED BY <3>1, <1>6
  <2>2. CASE RewardsDue
    <3> DEFINE now == Multiplier(lastRewardBlock, block, endBlock)
               x == now * rates[currentPhase]
    <3>p. PhaseReached \in currentPhase..LastPeriod
      BY LoopExit
    <3>1. \A q \in 0..LastPeriod : q # currentPhase => R[q] = g[q]
      <4> SUFFICES ASSUME NEW q \in 0..LastPeriod, q # currentPhase PROVE R[q] = g[q]
        OBVIOUS
      <4>1. R[q] = IF q \in (currentPhase + 1)..PhaseReached
                   THEN Multiplier(EndOf(q - 1), block, EndOf(q)) * rates[q] ELSE 0
        BY DEF RoundReward
      <4>2. g[q] = PaidNow(q) * rates[q]
        OBVIOUS
      <4>3. PaidNow(q) = IF q \in (currentPhase + 1)..PhaseReached
                         THEN Multiplier(EndOf(q - 1), block, EndOf(q)) ELSE 0
        BY <2>2 DEF PaidNow
      <4>4. 0 * rates[q] = 0
        <5>1. rates[q] \in Nat
          OBVIOUS
        <5> QED BY <5>1
      <4> HIDE DEF R, g
      <4> QED BY <4>1, <4>2, <4>3, <4>4
    <3>2. R[currentPhase] = 0 /\ g[currentPhase] = x
      <4>1. currentPhase \notin (currentPhase + 1)..PhaseReached
        BY <1>t
      <4>2. R[currentPhase] = 0
        BY <4>1, <1>t DEF RoundReward
      <4>3. PaidNow(currentPhase) = now
        BY <2>2 DEF PaidNow
      <4> QED BY <4>2, <4>3, <1>t
    <3>3. x \in Nat
      <4>1. g[currentPhase] \in Nat
        BY <1>3, <1>t
      <4> QED BY <4>1, <3>2
    <3>4. R \in [0..(N - 1) -> Nat]
      <4>1. R = [q \in 0..LastPeriod |-> R[q]]
        BY DEF RoundReward
      <4>2. \A q \in 0..LastPeriod : g[q] \in Nat
        BY <1>3, <1>t
      <4> HIDE DEF R, g
      <4>3. \A q \in 0..LastPeriod : R[q] \in Nat
        BY <4>2, <3>1, <3>2
      <4> HIDE DEF N
      <4> QED BY <4>1, <4>3, <1>t
    <3> HIDE DEF x
    <3>5. PartialSum(g, N)[N] = PartialSum(R, N)[N] + x
      <4>1. g[currentPhase] = R[currentPhase] + x
        BY <3>2, <3>3
      <4> DEFINE c == currentPhase
      <4>2. c \in 0..(N - 1) /\ g[c] = R[c] + x
        BY <4>1, <1>t
      <4>3. \A q \in 0..(N - 1) : q # c => g[q] = R[q]
        BY <3>1, <1>t
      <4> HIDE DEF R, g, N, c
      <4> QED BY <4>2, <4>3, <3>3, <3>4, <1>3, <1>t, PartialSumChange
    <3>6. reward = x + PartialSum(R, N)[N]
      BY <2>2 DEF TokenReward, x
    <3>7. PartialSum(R, N)[N] \in Nat
      <4> HIDE DEF R, N
      <4>1. PartialSum(R, N) \in [0..N -> Nat]
        BY <1>t, <3>4, PartialSumRec
      <4> QED BY <4>1, <1>t
    <3> HIDE DEF reward, R, g, N
    <3> QED BY <3>3, <3>5, <3>6, <3>7
  <2> QED BY <2>1, <2>2
<1> HIDE DEF f, g, h, N, reward
<1>8. reward + PaidFor(rates, currentPhase, lastRewardBlock)
        <= PaidFor(rates, currentPhase', lastRewardBlock')
  BY <1>1, <1>2, <1>5, <1>6, <1>7
<1> QED BY <1>8 DEF reward

\* Later periods do not start earlier.
LEMMA PeriodStartMonotone ==
  ASSUME NEW i \in 0..NUMBER_PERIODS, NEW j \in i..NUMBER_PERIODS
  PROVE  PeriodStart(i) <= PeriodStart(j)
<1> DEFINE T == {k \in Nat : i + k <= NUMBER_PERIODS => PeriodStart(i) <= PeriodStart(i + k)}
<1>t. i \in Nat /\ j \in Nat /\ NUMBER_PERIODS \in Nat /\ PeriodStart(i) \in Nat
  BY ScheduleTypes, PeriodStartTypes
<1>1. 0 \in T
  <2>1. i + 0 = i
    BY <1>t
  <2> QED BY <2>1, <1>t
<1>2. \A k \in Nat : k \in T => k + 1 \in T
  <2>1. SUFFICES ASSUME NEW k \in Nat, k \in T, i + (k + 1) <= NUMBER_PERIODS
                 PROVE  PeriodStart(i) <= PeriodStart(i + (k + 1))
    OBVIOUS
  <2>2. i + k \in 0..LastPeriod /\ i + (k + 1) = (i + k) + 1 /\ i + k \in 0..NUMBER_PERIODS
        /\ i + k <= NUMBER_PERIODS
    BY <2>1, <1>t, ScheduleTypes
  <2>3. PeriodStart((i + k) + 1) = PeriodStart(i + k) + Length[i + k]
        /\ PeriodStart(i + k) \in Nat /\ Length[i + k] \in Nat
    BY <2>2, PeriodStartTypes, ScheduleTypes
  <2>4. PeriodStart(i) <= PeriodStart(i + k)
    BY <2>1, <2>2
  <2>5. PeriodStart(i) <= PeriodStart((i + k) + 1)
    BY <2>3, <2>4, <1>t
  <2> QED BY <2>2, <2>5
<1>3. j - i \in T
  <2>1. j - i \in Nat
    BY <1>t
  <2> HIDE DEF T
  <2> QED BY <2>1, <1>1, <1>2, SetInduction
<1>4. i + (j - i) = j /\ j <= NUMBER_PERIODS
  BY <1>t
<1> QED BY <1>3, <1>4

\* What can have been paid for is scheduled by the current block.
LEMMA ScheduleCovers ==
  ASSUME TypeOK, ScheduleInv, UpdatedInTime
  PROVE  /\ ScheduledBy(block) \in Nat
         /\ PaidFor(StakingRate, currentPhase, lastRewardBlock)
              + PaidFor(OthersRate, currentPhase, lastRewardBlock) <= ScheduledBy(block)
<1> DEFINE N == NUMBER_PERIODS
           paid(q) == PaidBlocks(q, currentPhase, lastRewardBlock)
           f == [q \in 0..LastPeriod |-> paid(q) * StakingRate[q]]
           g == [q \in 0..LastPeriod |-> paid(q) * OthersRate[q]]
           h == [q \in 0..LastPeriod |-> Elapsed(q, block) * (StakingRate[q] + OthersRate[q])]
<1>t. /\ currentPhase \in 0..LastPeriod /\ currentPhase \in Nat
      /\ lastRewardBlock \in Nat /\ block \in Nat
      /\ N \in Nat /\ LastPeriod \in Nat /\ N = LastPeriod + 1
  BY ScheduleTypes DEF TypeOK
<1>s. /\ 0..LastPeriod = 0..(N - 1)
      /\ StakingRate \in [0..LastPeriod -> Nat] /\ OthersRate \in [0..LastPeriod -> Nat]
  BY <1>t, ScheduleTypes
<1>u. lastRewardBlock >= PeriodStart(currentPhase)
  BY DEF UpdatedInTime
<1>1. ASSUME NEW q \in 0..LastPeriod
      PROVE  paid(q) \in Nat /\ Elapsed(q, block) \in Nat /\ paid(q) <= Elapsed(q, block)
  <2>1. paid(q) \in Nat
    BY <1>t, <1>s, PaidForTypes
  <2>2. /\ Elapsed(q, lastRewardBlock) \in 0..Length[q] /\ Elapsed(q, block) \in 0..Length[q]
        /\ PeriodStart(q) \in Nat /\ Length[q] \in Nat
        /\ PeriodStart(q + 1) = PeriodStart(q) + Length[q]
    BY <1>t, ElapsedTypes
  <2>3. CASE lastRewardBlock <= block
    <3>1. CASE q < currentPhase
      <4>1. q + 1 \in 0..NUMBER_PERIODS /\ currentPhase \in (q + 1)..NUMBER_PERIODS
        BY <3>1, <1>t
      <4>2. PeriodStart(q + 1) <= PeriodStart(currentPhase) /\ PeriodStart(currentPhase) \in Nat
        BY <4>1, <1>t, PeriodStartMonotone, PeriodStartTypes
      <4>3. PeriodStart(q + 1) <= block
        BY <4>2, <2>2, <2>3, <1>t, <1>u
      <4>4. Elapsed(q, block) = Length[q]
        BY <4>3, <2>2, <1>t DEF Elapsed
      <4> QED BY <4>4, <3>1, <2>1, <2>2 DEF PaidBlocks
    <3>2. CASE q = currentPhase
      <4>1. Elapsed(q, lastRewardBlock) <= Elapsed(q, block)
        BY <2>2, <2>3, <1>t DEF Elapsed
      <4>2. paid(q) = Elapsed(q, lastRewardBlock)
        BY <3>2, <1>t DEF PaidBlocks
      <4> QED BY <4>1, <4>2, <2>2
    <3>3. CASE q > currentPhase
      <4>1. paid(q) = 0
        BY <3>3, <1>t DEF PaidBlocks
      <4> QED BY <4>1, <2>2
    <3> QED BY <3>1, <3>2, <3>3, <1>t
  <2>4. CASE currentPhase = 0 /\ lastRewardBlock = START_BLOCK
    <3>1. PeriodStart(0) = START_BLOCK
      BY PeriodStartTypes
    <3>2. paid(q) = 0
      BY <3>1, <2>4, <2>2, <1>t DEF PaidBlocks, Elapsed
    <3> QED BY <3>2, <2>2
  <2> QED BY <2>3, <2>4 DEF UpdatedInTime
<1>2. f \in [0..(N - 1) -> Nat] /\ g \in [0..(N - 1) -> Nat]
      /\ PaidFor(StakingRate, currentPhase, lastRewardBlock) = PartialSum(f, N)[N]
      /\ PaidFor(OthersRate, currentPhase, lastRewardBlock) = PartialSum(g, N)[N]
  <2>0. ASSUME NEW rates \in [0..LastPeriod -> Nat]
        PROVE  [q \in 0..LastPeriod |-> paid(q) * rates[q]] \in [0..(NUMBER_PERIODS - 1) -> Nat]
    BY <1>t, PaidForTypes
  <2>1. f \in [0..(NUMBER_PERIODS - 1) -> Nat]
    BY <2>0, <1>s, Zenon
  <2>2. g \in [0..(NUMBER_PERIODS - 1) -> Nat]
    BY <2>0, <1>s, Zenon
  <2> QED BY <2>1, <2>2 DEF PaidFor
<1>3. h \in [0..(N - 1) -> Nat]
  <2>1. \A q \in 0..LastPeriod : Elapsed(q, block) * (StakingRate[q] + OthersRate[q]) \in Nat
    <3> SUFFICES ASSUME NEW q \in 0..LastPeriod
                 PROVE  Elapsed(q, block) * (StakingRate[q] + OthersRate[q]) \in Nat
      OBVIOUS
    <3>1. Elapsed(q, block) \in Nat
      BY <1>1
    <3>2. StakingRate[q] + OthersRate[q] \in Nat
      BY <1>s
    <3> QED BY <3>1, <3>2, MulNat
  <2> QED BY <2>1, <1>s
<1>4. \A q \in 0..(N - 1) : f[q] + g[q] <= h[q]
  <2> SUFFICES ASSUME NEW q \in 0..LastPeriod PROVE f[q] + g[q] <= h[q]
    BY <1>s
  <2> DEFINE a == paid(q)
             e == Elapsed(q, block)
             r == StakingRate[q]
             o == OthersRate[q]
  <2>1. a \in Nat /\ e \in Nat /\ a <= e /\ r \in Nat /\ o \in Nat
    BY <1>1, <1>s
  <2>2. f[q] = a * r /\ g[q] = a * o /\ h[q] = e * (r + o)
    OBVIOUS
  <2> HIDE DEF a, e, r, o, f, g, h
  <2>3. (r + o) * a <= (r + o) * e /\ r + o \in Nat
    BY <2>1, MulMonotone
  <2>4. (r + o) * a = a * r + a * o /\ (r + o) * e = e * (r + o)
    BY <2>1
  <2>5. a * r + a * o <= e * (r + o)
    BY <2>3, <2>4
  <2> QED BY <2>2, <2>5
<1>5. ScheduledBy(block) = PartialSum(h, N)[N]
  BY DEF ScheduledBy
<1> HIDE DEF f, g, h, N
<1>6. PartialSum(h, N)[N] \in Nat
  <2>1. PartialSum(h, N) \in [0..N -> Nat]
    BY <1>t, <1>3, PartialSumRec
  <2> QED BY <2>1, <1>t
<1>7. PartialSum(f, N)[N] + PartialSum(g, N)[N] <= PartialSum(h, N)[N]
  BY <1>t, <1>2, <1>3, <1>4, PartialSumAddLe
<1> QED BY <1>2, <1>5, <1>6, <1>7

\* An update keeps the last update in time, and raises what can have been paid
\* for by at least what it mints.
LEMMA EmissionUpdated ==
  ASSUME TypeOK, ScheduleInv, UpdatedInTime, NothingPaidTwice, UpdatePool, UNCHANGED block,
         MintedHere' = MintedHere + StakingMinted + OthersMinted, MintedHere \in Int
  PROVE  UpdatedInTime' /\ NothingPaidTwice'
<1>t. /\ block \in Nat /\ lastRewardBlock \in Nat /\ currentPhase \in 0..LastPeriod
      /\ currentPhase \in Nat /\ LastPeriod \in Nat
      /\ StakingRate \in [0..LastPeriod -> Nat] /\ OthersRate \in [0..LastPeriod -> Nat]
  BY ScheduleTypes DEF TypeOK
<1>1. UpdatedInTime'
  <2>1. CASE block <= lastRewardBlock /\ UNCHANGED <<pool, minting>>
    BY <2>1 DEF UpdatedInTime, pool, schedule, PeriodStart
  <2>2. CASE block > lastRewardBlock /\ UNCHANGED schedule /\ lastRewardBlock' = block
    <3>1. PeriodStart(currentPhase) \in Nat
      BY <1>t, ElapsedTypes
    <3>2. currentPhase' = currentPhase /\ block' = block /\ PeriodStart(currentPhase)' = PeriodStart(currentPhase)
      BY <2>2 DEF schedule, PeriodStart
    <3> QED BY <3>1, <3>2, <2>2, <1>t DEF UpdatedInTime
  <2>3. CASE RewardsDue
    <3>1. /\ currentPhase' = PhaseReached
          /\ endBlock' = EndOf(PhaseReached)
          /\ lastRewardBlock' = IF lastRewardBlock <= endBlock' THEN block ELSE lastRewardBlock
          /\ block > lastRewardBlock
      BY <2>3, <1>t DEF UpdatePool, RewardsDue
    <3>2. /\ PhaseReached \in currentPhase..LastPeriod
          /\ \A p \in currentPhase..LastPeriod : EndOf(p) = PeriodStart(p + 1)
          /\ \A p \in currentPhase..(PhaseReached - 1) : block > EndOf(p)
      BY LoopExit
    <3> DEFINE P == PhaseReached
    <3>3. /\ P \in 0..LastPeriod /\ PeriodStart(P) \in Nat /\ Length[P] \in Nat
          /\ PeriodStart(P + 1) = PeriodStart(P) + Length[P] /\ endBlock' = PeriodStart(P + 1)
      <4>1. P \in 0..LastPeriod
        BY <3>2, <1>t
      <4> QED BY <4>1, <3>1, <3>2, ElapsedTypes
    <3>4. block >= PeriodStart(P)
      <4>1. CASE P = currentPhase
        BY <4>1, <3>1, <3>3, <1>t DEF UpdatedInTime
      <4>2. CASE P # currentPhase
        <5>1. P - 1 \in currentPhase..LastPeriod /\ P - 1 \in currentPhase..(PhaseReached - 1)
              /\ P - 1 + 1 = P
          BY <4>2, <3>2, <1>t
        <5>2. block > PeriodStart(P)
          BY <5>1, <3>2
        <5> QED BY <5>2, <3>3, <1>t
      <4> QED BY <4>1, <4>2
    <3>5. lastRewardBlock' >= PeriodStart(P) /\ lastRewardBlock' <= block
      BY <3>1, <3>3, <3>4, <1>t
    <3>6. PeriodStart(currentPhase)' = PeriodStart(P) /\ block' = block /\ MaxBlock' = MaxBlock
      BY <3>1 DEF PeriodStart
    <3> HIDE DEF P
    <3>7. block <= MaxBlock
      BY DEF UpdatedInTime
    <3> QED BY <3>5, <3>6, <3>7 DEF UpdatedInTime
  <2>4. \/ block <= lastRewardBlock /\ UNCHANGED <<pool, minting>>
        \/ block > lastRewardBlock /\ UNCHANGED schedule /\ lastRewardBlock' = block
        \/ RewardsDue
    BY Zenon DEF UpdatePool
  <2> QED BY <2>1, <2>2, <2>3, <2>4, Zenon
<1>2. NothingPaidTwice'
  <2> DEFINE s  == TokenRewardForStaking
             o  == TokenRewardForOthers
             ps == PaidFor(StakingRate, currentPhase, lastRewardBlock)
             po == PaidFor(OthersRate, currentPhase, lastRewardBlock)
             qs == PaidFor(StakingRate, currentPhase', lastRewardBlock')
             qo == PaidFor(OthersRate, currentPhase', lastRewardBlock')
  <2>1. s + ps <= qs /\ o + po <= qo
    <3>1. s = TokenReward(StakingRate[currentPhase], StakingRate)
          /\ o = TokenReward(OthersRate[currentPhase], OthersRate)
      BY DEF TokenRewardForStaking, TokenRewardForOthers, ScheduleInv
    <3> QED BY <3>1, <1>t, RewardPaid
  <2>2. s \in Nat /\ o \in Nat /\ StakingMinted \in Nat /\ OthersMinted \in Nat
    BY MintedNat
  <2>3. StakingMinted <= s /\ OthersMinted <= o
    BY <2>2 DEF StakingMinted, OthersMinted, Minted
  <2>4. currentPhase' \in 0..LastPeriod /\ lastRewardBlock' \in Nat
    BY UpdatePoolTypes
  <2>5. ps \in Nat /\ po \in Nat /\ qs \in Nat /\ qo \in Nat
    BY <1>t, <2>4, PaidForTypes
  <2>6. MintedHere <= ps + po
    BY DEF NothingPaidTwice
  <2>7. PaidFor(StakingRate, currentPhase, lastRewardBlock)' = qs
        /\ PaidFor(OthersRate, currentPhase, lastRewardBlock)' = qo
    BY DEF PaidFor, PaidBlocks, Elapsed, PeriodStart
  <2> HIDE DEF s, o, ps, po, qs, qo
  <2>8. MintedHere' <= qs + qo
    BY <2>1, <2>2, <2>3, <2>5, <2>6
  <2> QED BY <2>7, <2>8 DEF NothingPaidTwice
<1> QED BY <1>1, <1>2

\* What the transactions do to the LOOKS minted here: the coins they move stay
\* counted, and what the update mints is added.
LEMMA MintedMoved ==
  ASSUME TypeOK, NEW u \in User, NEW n \in Int, NEW m \in Int, NEW i \in Int, wallet[u] + n >= 0,
         wallet' = [wallet EXCEPT ![u] = @ + n],
         held' = held + m - n,
         splitterHeld' = splitterHeld + i
  PROVE  MintedHere' = MintedHere + m + i /\ MintedHere \in Int
<1>1. wallet \in [User -> Nat] /\ IsFiniteSet(User) /\ InitialWallet \in [User -> Nat]
      /\ held \in Nat /\ splitterHeld \in Nat
  BY ConstructorRequires DEF TypeOK
<1>2. wallet' \in [User -> Nat] /\ wallet'[u] = wallet[u] + n
      /\ \A v \in User \ {u} : wallet'[v] = wallet[v]
  BY <1>1
<1>3. SumOver(wallet', User) = SumOver(wallet, User) - wallet[u] + wallet'[u]
  <2> DEFINE f == wallet
             g == wallet'
  <2>1. f \in [User -> Nat] /\ g \in [User -> Nat] /\ \A v \in User \ {u} : g[v] = f[v]
    BY <1>1, <1>2
  <2> HIDE DEF f, g
  <2>2. SumOver(g, User) = SumOver(f, User) - f[u] + g[u]
    BY <2>1, <1>1, SumUpdate
  <2> QED BY <2>2 DEF f, g
<1> DEFINE w == SumOver(wallet, User)
           x == SumOver(wallet', User)
           z == SumOver(InitialWallet, User)
<1>4. w \in Nat /\ x \in Nat /\ z \in Nat
  BY <1>1, <1>2, UnitsFinite
<1>5. MintedHere = splitterHeld + held + w - z /\ MintedHere' = splitterHeld' + held' + x - z
  BY DEF MintedHere
<1>6. wallet[u] \in Nat /\ x = w - wallet[u] + wallet'[u]
  BY <1>1, <1>3
<1> HIDE DEF w, x, z
<1>7. x = w + n
  BY <1>2, <1>4, <1>6
<1> QED BY <1>1, <1>4, <1>5, <1>7

\* The distributor's mint of the others' reward is all the splitter receives.
LEMMA SplitterMinted ==
  ASSUME TypeOK, ScheduleInv, UpdatePool
  PROVE  /\ splitterHeld' = splitterHeld + OthersMinted
         /\ StakingMinted \in Nat /\ OthersMinted \in Nat
<1>1. StakingMinted \in Nat /\ OthersMinted \in Nat
  BY MintedNat
<1>2. CASE RewardsDue
  <2>1. splitterHeld' = splitterHeld + OthersMinted
    BY <1>2 DEF UpdatePool, RewardsDue, TypeOK
  <2> QED BY <2>1, <1>1
<1>3. CASE ~RewardsDue
  <2>1. TokenRewardForStaking = 0
    BY <1>3 DEF TokenRewardForStaking, TokenReward
  <2>2. OthersMinted = 0 /\ splitterHeld \in Nat
    BY <2>1 DEF OthersMinted, TypeOK
  <2>3. UNCHANGED splitterHeld
    BY <1>3 DEF UpdatePool, minting
  <2> QED BY <2>2, <2>3, <1>1
<1> QED BY <1>2, <1>3

\* The distributor implements its emission schedule: no coin it ever minted is
\* taken back, and at every block it has minted at most what the periods up to
\* that block are worth, whichever updates were skipped.
THEOREM EmissionImplemented == Spec => EmissionSpec
<1> DEFINE Types == TypeOK /\ ScheduleInv
           Inv == UpdatedInTime /\ NothingPaidTwice
           Allowance == [b \in 0..MaxBlock |-> ScheduledBy(b)]
           Step == Emission!Next \/ UNCHANGED <<block, MintedHere>>
<1>0. TypeOK => MintedHere \in Int
  <2>1. SUFFICES ASSUME TypeOK PROVE MintedHere \in Int
    OBVIOUS
  <2>2. SumOver(wallet, User) \in Nat /\ SumOver(InitialWallet, User) \in Nat
    BY <2>1, ConstructorRequires, UnitsFinite DEF TypeOK
  <2> QED BY <2>1, <2>2 DEF MintedHere, TypeOK
<1>1. Init => MintedHere = 0
  <2>1. SUFFICES ASSUME Init PROVE MintedHere = 0
    OBVIOUS
  <2>2. splitterHeld = 0 /\ held = 0 /\ wallet = InitialWallet
    BY <2>1 DEF Init
  <2>3. SumOver(InitialWallet, User) \in Nat
    BY ConstructorRequires, UnitsFinite
  <2> QED BY <2>2, <2>3 DEF MintedHere
<1>2. Init /\ Types => Inv
  <2>1. SUFFICES ASSUME Init, TypeOK, ScheduleInv PROVE UpdatedInTime /\ NothingPaidTwice
    OBVIOUS
  <2>2. block = 0 /\ currentPhase = 0 /\ lastRewardBlock = START_BLOCK
    BY <2>1 DEF Init
  <2>3. PeriodStart(0) = START_BLOCK /\ START_BLOCK \in Nat /\ MaxBlock \in Nat
    BY PeriodStartTypes, ConstructorRequires
  <2>4. UpdatedInTime
    BY <2>2, <2>3 DEF UpdatedInTime
  <2>5. currentPhase \in 0..LastPeriod /\ lastRewardBlock \in Nat
    BY <2>1 DEF TypeOK
  <2>6. PaidFor(StakingRate, currentPhase, lastRewardBlock) \in Nat
        /\ PaidFor(OthersRate, currentPhase, lastRewardBlock) \in Nat
    BY <2>5, ScheduleTypes, PaidForTypes
  <2> QED BY <2>1, <2>4, <2>6, <1>1 DEF NothingPaidTwice
<1>3. Types /\ Inv /\ [Next]_vars => Inv' /\ (MintedHere' >= MintedHere) /\ (UNCHANGED block \/ NextBlock)
  <2> SUFFICES ASSUME TypeOK, ScheduleInv, UpdatedInTime, NothingPaidTwice, [Next]_vars
               PROVE  /\ UpdatedInTime' /\ NothingPaidTwice'
                      /\ MintedHere' >= MintedHere
                      /\ UNCHANGED block \/ NextBlock
    OBVIOUS
  <2>m. MintedHere \in Int
    BY <1>0
  <2>t. wallet \in [User -> Nat] /\ amount \in [User -> Nat] /\ held \in Nat
    BY DEF TypeOK
  <2>u. ASSUME UpdatePool, UNCHANGED block, NEW u \in User, NEW n \in Int, wallet[u] + n >= 0,
               wallet' = [wallet EXCEPT ![u] = @ + n], held' = held + StakingMinted - n
        PROVE  UpdatedInTime' /\ NothingPaidTwice' /\ MintedHere' >= MintedHere
    <3>1. splitterHeld' = splitterHeld + OthersMinted /\ StakingMinted \in Nat /\ OthersMinted \in Nat
      BY <2>u, SplitterMinted
    <3>2. MintedHere' = MintedHere + StakingMinted + OthersMinted
      <4> DEFINE m == StakingMinted
                 i == OthersMinted
      <4>1. m \in Int /\ i \in Int
        BY <3>1
      <4>2. held' = held + m - n /\ splitterHeld' = splitterHeld + i
        BY <2>u, <3>1
      <4> HIDE DEF m, i
      <4>3. MintedHere' = MintedHere + m + i
        BY <2>u, <4>1, <4>2, MintedMoved
      <4> QED BY <4>3 DEF m, i
    <3>3. UpdatedInTime' /\ NothingPaidTwice'
      BY <2>u, <2>m, <3>2, EmissionUpdated
    <3> QED BY <3>1, <3>2, <3>3, <2>m
  <2>w. ASSUME UpdatePool, UNCHANGED <<block, wallet>>, held' = held + StakingMinted
        PROVE  UpdatedInTime' /\ NothingPaidTwice' /\ MintedHere' >= MintedHere
    <3>1. splitterHeld' = splitterHeld + OthersMinted /\ StakingMinted \in Nat /\ OthersMinted \in Nat
      BY <2>w, SplitterMinted
    <3>2. MintedHere' = MintedHere + StakingMinted + OthersMinted
      <4> DEFINE w == SumOver(wallet, User)
                 z == SumOver(InitialWallet, User)
      <4>1. w \in Nat /\ z \in Nat
        BY <2>t, ConstructorRequires, UnitsFinite
      <4>2. MintedHere = splitterHeld + held + w - z /\ MintedHere' = splitterHeld' + held' + w - z
        BY <2>w DEF MintedHere
      <4>3. splitterHeld \in Nat
        BY DEF TypeOK
      <4> HIDE DEF w, z
      <4> QED BY <4>1, <4>2, <4>3, <3>1, <2>w, <2>t
    <3>3. UpdatedInTime' /\ NothingPaidTwice'
      BY <2>w, <2>m, <3>2, EmissionUpdated
    <3> QED BY <3>1, <3>2, <3>3, <2>m
  <2>1. ASSUME NEW u \in User, NEW n \in 1..wallet[u], Deposit(u, n)
        PROVE  UpdatedInTime' /\ NothingPaidTwice' /\ MintedHere' >= MintedHere /\ UNCHANGED block
    <3>1. /\ UpdatePool /\ UNCHANGED block
          /\ held' = held + StakingMinted + n
          /\ wallet' = [wallet EXCEPT ![u] = @ - n]
      BY <2>1 DEF Deposit
    <3>2. StakingMinted \in Nat /\ wallet[u] \in Nat
      BY <2>t, MintedNat
    <3>3. /\ 0 - n \in Int /\ wallet[u] + (0 - n) >= 0
          /\ held' = held + StakingMinted - (0 - n)
          /\ wallet[u] - n = wallet[u] + (0 - n)
      BY <3>1, <3>2, <2>t
    <3>4. wallet' = [wallet EXCEPT ![u] = @ + (0 - n)]
      BY <3>1, <3>3
    <3> QED BY <3>1, <3>3, <3>4, <2>u
  <2>2. ASSUME NEW u \in User, HarvestAndCompound(u)
        PROVE  UpdatedInTime' /\ NothingPaidTwice' /\ MintedHere' >= MintedHere /\ UNCHANGED block
    BY <2>2, <2>w DEF HarvestAndCompound
  <2>3. ASSUME UpdatePoolOnly
        PROVE  UpdatedInTime' /\ NothingPaidTwice' /\ MintedHere' >= MintedHere /\ UNCHANGED block
    BY <2>3, <2>w DEF UpdatePoolOnly
  <2>4. ASSUME NEW u \in User, NEW n \in 1..amount[u], Withdraw(u, n)
        PROVE  UpdatedInTime' /\ NothingPaidTwice' /\ MintedHere' >= MintedHere /\ UNCHANGED block
    <3>1. /\ UpdatePool /\ UNCHANGED block
          /\ held' = held + StakingMinted - n
          /\ wallet' = [wallet EXCEPT ![u] = @ + n]
      BY <2>4 DEF Withdraw
    <3>2. n \in Int /\ wallet[u] + n >= 0
      BY <2>t
    <3> QED BY <3>1, <3>2, <2>u
  <2>5. ASSUME NEW u \in User, WithdrawAll(u)
        PROVE  UpdatedInTime' /\ NothingPaidTwice' /\ MintedHere' >= MintedHere /\ UNCHANGED block
    <3> DEFINE pending == Pending(u, accTokenPerShare')
               n == amount[u] + pending
    <3>1. /\ UpdatePool /\ UNCHANGED block /\ pending >= 0
          /\ held' = held + StakingMinted - n
          /\ wallet' = [wallet EXCEPT ![u] = @ + n]
      BY <2>5 DEF WithdrawAll
    <3>2. pending \in Int
      <4>1. (amount[u] * accTokenPerShare') \div PRECISION_FACTOR \in Nat
        BY <3>1, <2>t, UpdatePoolTypes, MulNat, DivNat, ConstructorRequires
      <4>2. rewardDebt[u] \in Nat
        BY DEF TypeOK
      <4> QED BY <4>1, <4>2 DEF Pending
    <3>3. n \in Int /\ wallet[u] + n >= 0
      <4> HIDE DEF pending
      <4> QED BY <3>1, <3>2, <2>t
    <3> HIDE DEF n
    <3> QED BY <3>1, <3>3, <2>u
  <2>6. ASSUME UNCHANGED <<pool, splitterHeld, held, wallet, block>>
        PROVE  UpdatedInTime' /\ NothingPaidTwice' /\ MintedHere' >= MintedHere /\ UNCHANGED block
    <3>1. UNCHANGED <<block, currentPhase, lastRewardBlock, splitterHeld, held, wallet>>
      BY <2>6 DEF pool, schedule
    <3>2. UpdatedInTime' /\ NothingPaidTwice'
      BY <3>1 DEF UpdatedInTime, NothingPaidTwice, PeriodStart, MintedHere, PaidFor, PaidBlocks, Elapsed
    <3>3. MintedHere' = MintedHere
      BY <3>1 DEF MintedHere
    <3> QED BY <3>1, <3>2, <3>3, <2>m
  <2>7. ASSUME NextBlock
        PROVE  UpdatedInTime' /\ NothingPaidTwice' /\ MintedHere' >= MintedHere
    <3>1. UNCHANGED <<currentPhase, lastRewardBlock, splitterHeld, held, wallet>>
      BY <2>7 DEF NextBlock, pool, schedule, minting
    <3>2. block' = block + 1 /\ block < MaxBlock /\ block \in Nat /\ MaxBlock \in Nat
      BY <2>7, ConstructorRequires DEF NextBlock, TypeOK
    <3>3. NothingPaidTwice' /\ MintedHere' = MintedHere
      BY <3>1 DEF NothingPaidTwice, PeriodStart, MintedHere, PaidFor, PaidBlocks, Elapsed
    <3>4. PeriodStart(currentPhase)' = PeriodStart(currentPhase) /\ lastRewardBlock \in Nat
      BY <3>1 DEF PeriodStart, TypeOK
    <3>5. UpdatedInTime'
      BY <3>1, <3>2, <3>4 DEF UpdatedInTime
    <3> QED BY <3>3, <3>5, <2>m
  <2>8. \/ UNCHANGED <<pool, splitterHeld, held, wallet, block>>
        \/ NextBlock
        \/ UpdatePoolOnly
        \/ \E u \in User :
             \/ HarvestAndCompound(u)
             \/ WithdrawAll(u)
             \/ \E n \in 1..wallet[u] : Deposit(u, n)
             \/ \E n \in 1..amount[u] : Withdraw(u, n)
    BY Zenon DEF Next, DeployerMint, TransferOwnership, vars, minting
  <2> QED BY <2>1, <2>2, <2>3, <2>4, <2>5, <2>6, <2>7, <2>8, Zenon
<1>4. Types /\ Inv => MintedHere <= Allowance[block] /\ Allowance[block] \in Nat /\ block \in 0..MaxBlock
  <2> SUFFICES ASSUME TypeOK, ScheduleInv, UpdatedInTime, NothingPaidTwice
               PROVE  MintedHere <= Allowance[block] /\ Allowance[block] \in Nat /\ block \in 0..MaxBlock
    OBVIOUS
  <2>1. block \in 0..MaxBlock
    BY ConstructorRequires DEF TypeOK, UpdatedInTime
  <2>2. Allowance[block] = ScheduledBy(block)
    BY <2>1
  <2> DEFINE ps == PaidFor(StakingRate, currentPhase, lastRewardBlock)
             po == PaidFor(OthersRate, currentPhase, lastRewardBlock)
  <2>3. ps \in Nat /\ po \in Nat
    BY ScheduleTypes, PaidForTypes DEF TypeOK
  <2>4. MintedHere <= ps + po /\ ps + po <= ScheduledBy(block) /\ ScheduledBy(block) \in Nat
    BY ScheduleCovers DEF NothingPaidTwice
  <2>5. MintedHere \in Int
    BY <1>0
  <2> HIDE DEF ps, po, Allowance
  <2> QED BY <2>1, <2>2, <2>3, <2>4, <2>5
<1>5. Init /\ Types /\ Inv => Emission!Init
  <2> SUFFICES ASSUME Init, Types, Inv PROVE Emission!Init
    OBVIOUS
  <2>1. DOMAIN Allowance = 0..MaxBlock
    OBVIOUS
  <2> HIDE DEF Types, Inv
  <2>2. block \in DOMAIN Allowance /\ MintedHere \in 0..Allowance[block]
    <3> HIDE DEF Allowance
    <3> QED BY <2>1, <1>1, <1>4
  <2> QED BY <2>2 DEF Emission!Init
<1>p. Types' /\ Inv' => (MintedHere <= Allowance[block])' /\ (MintedHere \in Int)'
  BY <1>0, <1>4, PTL
<1>6. Types /\ Types' /\ Inv /\ [Next]_vars => Step
  <2> SUFFICES ASSUME Types, Types', Inv, [Next]_vars PROVE Step
    OBVIOUS
  <2>1. Inv' /\ MintedHere' >= MintedHere /\ (UNCHANGED block \/ NextBlock)
    BY <1>3
  <2>2. MintedHere \in Int /\ MintedHere' \in Int
    BY <2>1, <1>0, <1>p
  <2>3. CASE UNCHANGED block
    <3>1. MintedHere' <= Allowance[block]
      <4>1. (MintedHere <= Allowance[block])'
        BY <2>1, <1>p
      <4>2. Allowance' = Allowance
        BY DEF ScheduledBy, Elapsed, PeriodStart
      <4> HIDE DEF Allowance
      <4> QED BY <4>1, <4>2, <2>3
    <3>2. CASE MintedHere' = MintedHere
      BY <3>2, <2>3
    <3>3. CASE MintedHere' # MintedHere
      <4>1. MintedHere' > MintedHere
        BY <3>3, <2>1, <2>2
      <4> QED BY <4>1, <3>1, <2>3 DEF Emission!Next, Emission!Issue
    <3> QED BY <3>2, <3>3
  <2>4. CASE NextBlock
    <3>1. block' = block + 1 /\ block < MaxBlock /\ block \in Nat /\ MaxBlock \in Nat
      BY <2>4, ConstructorRequires DEF NextBlock, TypeOK
    <3>2. block' \in DOMAIN Allowance
      BY <3>1
    <3>3. MintedHere' = MintedHere
      BY <2>4 DEF NextBlock, minting, MintedHere
    <3> QED BY <3>1, <3>2, <3>3 DEF Emission!Next, Emission!NextBlock
  <2> QED BY <2>1, <2>3, <2>4
<1>7. Step => [Emission!Next]_<<block, MintedHere>>
  OBVIOUS
<1> QED BY <1>2, <1>3, <1>5, <1>6, <1>7, TypeCorrect, PTL DEF Spec, EmissionSpec, Emission!Spec
-----------------------------------------------------------------------------
(* The gas-optimized contract *)

\* The reward of the blocks before the first boundary, and what the loop has
\* added to it when it is in period p.
RewardUpTo(p, rate, rates) ==
  Multiplier(lastRewardBlock, block, endBlock) * rate
    + PartialSum(RoundReward(rates), NUMBER_PERIODS)[p + 1]

\* The loop adds the periods it crosses one by one, and nothing else.
LEMMA RewardRounds ==
  ASSUME TypeOK, ScheduleInv, RewardsDue, NEW rate \in Nat, NEW rates \in [0..LastPeriod -> Nat]
  PROVE  /\ RewardUpTo(currentPhase, rate, rates)
              = Multiplier(lastRewardBlock, block, endBlock) * rate
         /\ \A p \in currentPhase..(PhaseReached - 1) :
              RewardUpTo(p + 1, rate, rates)
                = RewardUpTo(p, rate, rates)
                    + Multiplier(PeriodStart(p + 1), block, PeriodStart(p + 2)) * rates[p + 1]
         /\ RewardUpTo(PhaseReached, rate, rates) = TokenReward(rate, rates)
<1> DEFINE R == RoundReward(rates)
           S == PartialSum(R, NUMBER_PERIODS)
           first == Multiplier(lastRewardBlock, block, endBlock) * rate
           Crossed == (currentPhase + 1)..PhaseReached
<1>1. /\ currentPhase \in 0..LastPeriod /\ PhaseReached \in currentPhase..LastPeriod
      /\ LastPeriod \in Nat /\ NUMBER_PERIODS = LastPeriod + 1
  BY LoopExit, ScheduleTypes DEF TypeOK
<1>2. R \in [0..(NUMBER_PERIODS - 1) -> Nat] /\ NUMBER_PERIODS \in Nat
  BY RoundRewardNat
<1>3. \A q \in 0..LastPeriod :
        R[q] = IF q \in Crossed THEN Multiplier(EndOf(q - 1), block, EndOf(q)) * rates[q] ELSE 0
  BY DEF RoundReward
<1>4. first \in Nat
  <2>1. lastRewardBlock <= block /\ lastRewardBlock \in Nat /\ block \in Nat /\ endBlock \in Nat
    BY DEF TypeOK, RewardsDue
  <2>2. Multiplier(lastRewardBlock, block, endBlock) \in Nat
    BY <2>1, MultiplierNat
  <2> QED BY <2>2, MulNat
<1>5. \A p : RewardUpTo(p, rate, rates) = first + S[p + 1]
  BY DEF RewardUpTo
<1> HIDE DEF R, first
<1>6. /\ S \in [0..NUMBER_PERIODS -> Nat] /\ S[0] = 0
      /\ \A k \in 0..(NUMBER_PERIODS - 1) : S[k + 1] = S[k] + R[k]
  BY <1>2, PartialSumRec
<1>7. S[currentPhase + 1] = 0
  <2>1. \A k \in 0..currentPhase : R[k] = 0
    BY <1>1, <1>3
  <2>2. 0 \in 0..NUMBER_PERIODS /\ currentPhase + 1 \in 0..NUMBER_PERIODS /\ 0 <= currentPhase + 1
        /\ (currentPhase + 1) - 1 = currentPhase
    BY <1>1
  <2>3. \A k \in 0..((currentPhase + 1) - 1) : R[k] = 0
    BY <2>1, <2>2
  <2>4. S[currentPhase + 1] = S[0]
    BY <1>2, <2>3, <2>2, PartialSumFlat
  <2> QED BY <1>6, <2>4
<1>8. S[NUMBER_PERIODS] = S[PhaseReached + 1]
  <2>1. \A k \in (PhaseReached + 1)..(NUMBER_PERIODS - 1) : R[k] = 0
    BY <1>1, <1>3
  <2>2. PhaseReached + 1 \in 0..NUMBER_PERIODS /\ NUMBER_PERIODS \in 0..NUMBER_PERIODS
        /\ PhaseReached + 1 <= NUMBER_PERIODS
    BY <1>1
  <2> QED BY <1>2, <2>1, <2>2, PartialSumFlat
<1>9. TokenReward(rate, rates) = first + S[NUMBER_PERIODS]
  BY DEF TokenReward, first, R
<1> HIDE DEF S
<1>10. ASSUME NEW p \in currentPhase..(PhaseReached - 1)
       PROVE  RewardUpTo(p + 1, rate, rates)
                = RewardUpTo(p, rate, rates)
                    + Multiplier(PeriodStart(p + 1), block, PeriodStart(p + 2)) * rates[p + 1]
  <2>1. /\ p + 1 \in 0..(NUMBER_PERIODS - 1) /\ p + 1 \in Crossed /\ (p + 1) - 1 = p
        /\ (p + 1) + 1 = p + 2
        /\ p \in currentPhase..LastPeriod /\ p + 1 \in currentPhase..LastPeriod
        /\ p + 1 \in 0..LastPeriod /\ p + 1 \in 0..NUMBER_PERIODS
    BY <1>1
  <2>2. EndOf(p) = PeriodStart(p + 1) /\ EndOf(p + 1) = PeriodStart(p + 2)
    BY <2>1, LoopExit
  <2>3. R[p + 1] = Multiplier(PeriodStart(p + 1), block, PeriodStart(p + 2)) * rates[p + 1]
    BY <1>3, <2>1, <2>2
  <2>4. S[(p + 1) + 1] = S[p + 1] + R[p + 1] /\ S[p + 1] \in Nat /\ R[p + 1] \in Nat
    BY <1>2, <1>6, <2>1
  <2>5. first + S[(p + 1) + 1] = (first + S[p + 1]) + R[p + 1]
    BY <1>4, <2>4
  <2>6. RewardUpTo(p + 1, rate, rates) = RewardUpTo(p, rate, rates) + R[p + 1]
    BY <1>5, <2>5
  <2> QED BY <2>3, <2>6
<1>11. RewardUpTo(currentPhase, rate, rates) = first
  BY <1>4, <1>5, <1>7
<1>12. RewardUpTo(PhaseReached, rate, rates) = TokenReward(rate, rates)
  BY <1>5, <1>8, <1>9
<1> QED BY <1>10, <1>11, <1>12 DEF first

\* An unchecked sum that is a uint does not wrap.
LEMMA NoWrap ==
  ASSUME NEW x \in 0..UINT_MAX
  PROVE  Optimized!Unchecked(x) = x
<1>1. x % (UINT_MAX + 1) = x
  <2>0. UINT_MAX \in Nat
    BY UintAssumption
  <2>1. x \in Nat /\ UINT_MAX + 1 \in Nat \ {0} /\ x < UINT_MAX + 1
    BY <2>0
  <2> DEFINE m == UINT_MAX + 1
             q == x \div m
             r == x % m
  <2>2. x = m * q + r /\ r \in 0..(m - 1) /\ q \in Nat
    BY <2>0, <2>1
  <2> HIDE DEF q, r
  <2>3. CASE q = 0
    BY <2>1, <2>2, <2>3 DEF r
  <2>4. CASE q # 0
    <3>1. m * 1 <= m * q
      <4> HIDE DEF m
      <4> QED BY <2>1, <2>2, <2>4, MulMonotone DEF m
    <3> QED BY <2>1, <2>2, <3>1
  <2> QED BY <2>3, <2>4
<1> QED BY <1>1 DEF Optimized!Unchecked

\* The optimized loop when it stands in period p, and one round of it.
LoopAt(p) ==
  [now |-> [phase |-> p, staking |-> StakingRate[p], others |-> OthersRate[p]],
   endBlock |-> PeriodStart(p + 1),
   forStaking |-> RewardUpTo(p, rewardPerBlockForStaking, StakingRate),
   forOthers |-> RewardUpTo(p, rewardPerBlockForOthers, OthersRate)]

LoopRound(r) ==
  LET now == Optimized!UpdateRewardsPerBlock(r.now)
      end == r.endBlock + stakingPeriod[now.phase].periodLengthInBlock
      newMultiplier == Optimized!GetMultiplier(r.endBlock, block, end)
  IN IF block > r.endBlock /\ r.now.phase < NUMBER_PERIODS - 1
     THEN [now |-> now,
           endBlock |-> end,
           forStaking |-> r.forStaking + newMultiplier * now.staking,
           forOthers |-> r.forOthers + newMultiplier * now.others]
     ELSE r

\* Until the loop of the original would stop, a round moves to the next period.
LEMMA LoopMoves ==
  ASSUME TypeOK, ScheduleInv, RewardsDue,
         NEW p \in currentPhase..(PhaseReached - 1)
  PROVE  LoopRound(LoopAt(p)) = LoopAt(p + 1)
<1>1. /\ currentPhase \in 0..LastPeriod /\ PhaseReached \in currentPhase..LastPeriod
      /\ LastPeriod \in Nat /\ NUMBER_PERIODS = LastPeriod + 1
  BY LoopExit, ScheduleTypes DEF TypeOK
<1>2. /\ p \in 0..LastPeriod /\ p + 1 \in 0..LastPeriod /\ p < NUMBER_PERIODS - 1
      /\ p \in currentPhase..LastPeriod /\ (p + 1) + 1 = p + 2
  BY <1>1
<1>3. block > PeriodStart(p + 1)
  BY <1>2, LoopExit
<1>4. Optimized!Unchecked(p + 1) = p + 1
  <2>1. UINT_MAX \in Nat /\ p + 1 \in 0..UINT_MAX
    BY <1>1, <1>2, UintAssumption
  <2> QED BY <2>1, NoWrap
<1>5. /\ stakingPeriod[p + 1].rewardPerBlockForStaking = StakingRate[p + 1]
      /\ stakingPeriod[p + 1].rewardPerBlockForOthers = OthersRate[p + 1]
      /\ stakingPeriod[p + 1].periodLengthInBlock = Length[p + 1]
  BY <1>2 DEF StakingRate, OthersRate, Length
<1> DEFINE r == LoopAt(p)
           now == Optimized!UpdateRewardsPerBlock(r.now)
           end == r.endBlock + stakingPeriod[now.phase].periodLengthInBlock
           m == Optimized!GetMultiplier(r.endBlock, block, end)
           mult == Multiplier(PeriodStart(p + 1), block, PeriodStart(p + 2))
<1>6. now = [phase |-> p + 1, staking |-> StakingRate[p + 1], others |-> OthersRate[p + 1]]
  BY <1>4, <1>5 DEF Optimized!UpdateRewardsPerBlock, LoopAt
<1>7. r.endBlock = PeriodStart(p + 1) /\ r.now.phase = p
  BY DEF LoopAt
<1>8. end = PeriodStart(p + 2)
  <2>1. PeriodStart((p + 1) + 1) = PeriodStart(p + 1) + Length[p + 1]
    BY <1>2, PeriodStartTypes
  <2> HIDE DEF r, now
  <2>2. end = PeriodStart(p + 1) + Length[p + 1]
    BY <1>5, <1>6, <1>7
  <2> QED BY <2>1, <2>2, <1>2
<1>9. m = mult
  <2> HIDE DEF r, end
  <2> QED BY <1>7, <1>8 DEF Optimized!GetMultiplier, Multiplier
<1>10. LoopRound(r) = [now |-> now, endBlock |-> end,
                       forStaking |-> r.forStaking + m * now.staking,
                       forOthers |-> r.forOthers + m * now.others]
  <2>1. LoopRound(r) = IF block > r.endBlock /\ r.now.phase < NUMBER_PERIODS - 1
                       THEN [now |-> now, endBlock |-> end,
                             forStaking |-> r.forStaking + m * now.staking,
                             forOthers |-> r.forOthers + m * now.others]
                       ELSE r
    BY DEF LoopRound
  <2> HIDE DEF r, now, end, m
  <2> QED BY <2>1, <1>2, <1>3, <1>7
<1>11. /\ RewardUpTo(p + 1, rewardPerBlockForStaking, StakingRate)
            = RewardUpTo(p, rewardPerBlockForStaking, StakingRate) + mult * StakingRate[p + 1]
       /\ RewardUpTo(p + 1, rewardPerBlockForOthers, OthersRate)
            = RewardUpTo(p, rewardPerBlockForOthers, OthersRate) + mult * OthersRate[p + 1]
  BY RewardRounds, ScheduleTypes DEF TypeOK
<1>12. /\ r.forStaking = RewardUpTo(p, rewardPerBlockForStaking, StakingRate)
       /\ r.forOthers = RewardUpTo(p, rewardPerBlockForOthers, OthersRate)
  BY DEF LoopAt
<1>13. LoopAt(p + 1) = [now |-> [phase |-> p + 1, staking |-> StakingRate[p + 1], others |-> OthersRate[p + 1]],
                        endBlock |-> PeriodStart(p + 2),
                        forStaking |-> RewardUpTo(p + 1, rewardPerBlockForStaking, StakingRate),
                        forOthers |-> RewardUpTo(p + 1, rewardPerBlockForOthers, OthersRate)]
  BY <1>2 DEF LoopAt
<1>14. now.staking = StakingRate[p + 1] /\ now.others = OthersRate[p + 1]
  BY <1>6
<1> HIDE DEF r, now, end, m, mult
<1>15. LoopRound(r) = LoopAt(p + 1)
  BY <1>6, <1>8, <1>9, <1>10, <1>11, <1>12, <1>13, <1>14, Zenon
<1> QED BY <1>15 DEF r

\* Where the loop of the original stops, so does the optimized one.
LEMMA LoopStays ==
  ASSUME TypeOK, ScheduleInv
  PROVE  LoopRound(LoopAt(PhaseReached)) = LoopAt(PhaseReached)
<1> DEFINE p == PhaseReached
           r == LoopAt(p)
<1>1. r.endBlock = PeriodStart(p + 1) /\ r.now.phase = p
  BY DEF LoopAt
<1>2. ~(block > PeriodStart(p + 1)) \/ ~(p < NUMBER_PERIODS - 1)
  <2>1. p \in currentPhase..LastPeriod /\ (block <= EndOf(p) \/ p = LastPeriod)
        /\ EndOf(p) = PeriodStart(p + 1)
    BY LoopExit
  <2>2. currentPhase \in 0..LastPeriod /\ LastPeriod \in Nat /\ NUMBER_PERIODS = LastPeriod + 1 /\ block \in Nat
    BY ScheduleTypes DEF TypeOK
  <2>3. PeriodStart(p + 1) \in Nat
    <3>1. p + 1 \in 0..NUMBER_PERIODS
      BY <2>1, <2>2
    <3> QED BY <3>1, PeriodStartTypes
  <2> HIDE DEF p
  <2> QED BY <2>1, <2>2, <2>3
<1> HIDE DEF r
<1>3. LoopRound(r) = r
  BY <1>1, <1>2 DEF LoopRound
<1> QED BY <1>3 DEF r

\* Two sequences that start alike and, while they are alike, go on alike.
LEMMA SameRounds ==
  ASSUME NEW n \in Nat, NEW f, NEW g, f[0] = g[0],
         \A k \in 0..(n - 1) : f[k] = g[k] => f[k + 1] = g[k + 1]
  PROVE  f[n] = g[n]
<1> DEFINE Same == {k \in Nat : k <= n => f[k] = g[k]}
<1>1. 0 \in Same
  OBVIOUS
<1>2. \A k \in Nat : k \in Same => k + 1 \in Same
  OBVIOUS
<1>3. n \in Same
  <2> HIDE DEF Same
  <2> QED BY <1>1, <1>2, SetInduction
<1> QED BY <1>3

\* The period a loop that starts in the current one is in after k rounds.
PhaseAfter(k) ==
  IF currentPhase + k <= PhaseReached THEN currentPhase + k ELSE PhaseReached

LEMMA PhaseAfterRounds ==
  ASSUME TypeOK, ScheduleInv
  PROVE  /\ PhaseAfter(0) = currentPhase
         /\ PhaseAfter(NUMBER_PERIODS) = PhaseReached
         /\ \A k \in Nat :
              \/ /\ PhaseAfter(k) \in currentPhase..(PhaseReached - 1)
                 /\ PhaseAfter(k + 1) = PhaseAfter(k) + 1
              \/ PhaseAfter(k) = PhaseReached /\ PhaseAfter(k + 1) = PhaseReached
<1>1. /\ currentPhase \in 0..LastPeriod /\ PhaseReached \in currentPhase..LastPeriod
      /\ LastPeriod \in Nat /\ NUMBER_PERIODS = LastPeriod + 1
  BY LoopExit, ScheduleTypes DEF TypeOK
<1> QED BY <1>1 DEF PhaseAfter

\* The whole loop ends where the original's does, with the original's rewards.
LEMMA LoopEnds ==
  ASSUME TypeOK, ScheduleInv, RewardsDue
  PROVE  Optimized!AfterLoop = LoopAt(PhaseReached)
<1> DEFINE first == LoopAt(currentPhase)
           Eq(f) == f = [k \in 0..NUMBER_PERIODS |-> IF k = 0 THEN first ELSE LoopRound(f[k - 1])]
           E == [k \in 0..NUMBER_PERIODS |-> LoopAt(PhaseAfter(k))]
           R == Optimized!Rounds
<1>1. NUMBER_PERIODS \in Nat
  BY ScheduleTypes
<1>2. first = [now |-> [phase |-> currentPhase, staking |-> rewardPerBlockForStaking,
                         others |-> rewardPerBlockForOthers],
               endBlock |-> endBlock,
               forStaking |-> Optimized!GetMultiplier(lastRewardBlock, block, endBlock)
                                * rewardPerBlockForStaking,
               forOthers |-> Optimized!GetMultiplier(lastRewardBlock, block, endBlock)
                               * rewardPerBlockForOthers]
  <2>1. /\ RewardUpTo(currentPhase, rewardPerBlockForStaking, StakingRate)
             = Multiplier(lastRewardBlock, block, endBlock) * rewardPerBlockForStaking
        /\ RewardUpTo(currentPhase, rewardPerBlockForOthers, OthersRate)
             = Multiplier(lastRewardBlock, block, endBlock) * rewardPerBlockForOthers
    BY RewardRounds, ScheduleTypes DEF TypeOK
  <2>2. Optimized!GetMultiplier(lastRewardBlock, block, endBlock)
          = Multiplier(lastRewardBlock, block, endBlock)
    BY DEF Optimized!GetMultiplier, Multiplier
  <2> QED BY <2>1, <2>2, Zenon DEF LoopAt, ScheduleInv
<1>3. R = CHOOSE f : Eq(f)
  <2>1. R = CHOOSE f : f = [k \in 0..NUMBER_PERIODS |->
              IF k = 0
              THEN [now |-> [phase |-> currentPhase, staking |-> rewardPerBlockForStaking,
                              others |-> rewardPerBlockForOthers],
                    endBlock |-> endBlock,
                    forStaking |-> Optimized!GetMultiplier(lastRewardBlock, block, endBlock)
                                     * rewardPerBlockForStaking,
                    forOthers |-> Optimized!GetMultiplier(lastRewardBlock, block, endBlock)
                                    * rewardPerBlockForOthers]
              ELSE LoopRound(f[k - 1])]
    BY Zenon DEF Optimized!Rounds, LoopRound
  <2> QED BY <1>2, <2>1, Zenon
<1>4. LoopAt(PhaseAfter(0)) = first
  BY PhaseAfterRounds
<1>5. ASSUME NEW k \in Nat
      PROVE  LoopRound(LoopAt(PhaseAfter(k))) = LoopAt(PhaseAfter(k + 1))
  BY LoopMoves, LoopStays, PhaseAfterRounds
<1> HIDE DEF first
<1>6. Eq(E)
  <2>1. ASSUME NEW k \in 0..NUMBER_PERIODS
        PROVE  E[k] = IF k = 0 THEN first ELSE LoopRound(E[k - 1])
    <3>1. CASE k = 0
      BY <3>1, <1>4
    <3>2. CASE k # 0
      <4>1. k - 1 \in 0..NUMBER_PERIODS /\ k - 1 \in Nat /\ (k - 1) + 1 = k
        BY <1>1, <3>2
      <4>2. LoopRound(LoopAt(PhaseAfter(k - 1))) = LoopAt(PhaseAfter((k - 1) + 1))
        BY <4>1, <1>5
      <4>3. E[k - 1] = LoopAt(PhaseAfter(k - 1)) /\ E[k] = LoopAt(PhaseAfter(k))
        BY <4>1
      <4> HIDE DEF E
      <4> QED BY <3>2, <4>1, <4>2, <4>3, Zenon
    <3> QED BY <3>1, <3>2
  <2>2. E = [k \in 0..NUMBER_PERIODS |-> E[k]]
    OBVIOUS
  <2> HIDE DEF E
  <2> QED BY <2>1, <2>2, Zenon
<1>7. Eq(R)
  <2> HIDE DEF Eq, E, R
  <2> QED BY <1>3, <1>6, Zenon
<1>8. \A k \in 0..NUMBER_PERIODS : /\ R[k] = IF k = 0 THEN first ELSE LoopRound(R[k - 1])
                                   /\ E[k] = IF k = 0 THEN first ELSE LoopRound(E[k - 1])
  <2> HIDE DEF E, R
  <2> QED BY <1>6, <1>7, Zenon
<1>9. E[NUMBER_PERIODS] = LoopAt(PhaseReached)
  BY <1>1, PhaseAfterRounds
<1> HIDE DEF E, R
<1>10. R[0] = E[0]
  BY <1>1, <1>8
<1>11. \A k \in 0..(NUMBER_PERIODS - 1) : R[k] = E[k] => R[k + 1] = E[k + 1]
  <2>1. ASSUME NEW k \in 0..(NUMBER_PERIODS - 1), R[k] = E[k] PROVE R[k + 1] = E[k + 1]
    <3>1. k + 1 \in 0..NUMBER_PERIODS /\ k + 1 # 0 /\ (k + 1) - 1 = k
      BY <1>1
    <3> QED BY <1>8, <2>1, <3>1, Zenon
  <2> QED BY <2>1
<1>12. R[NUMBER_PERIODS] = LoopAt(PhaseReached)
  BY <1>1, <1>9, <1>10, <1>11, SameRounds
<1> QED BY <1>12 DEF R, Optimized!AfterLoop

\* What the optimized update mints is what the original mints.
LEMMA SameMints ==
  ASSUME TypeOK, ScheduleInv
  PROVE  /\ Optimized!StakingMinted = StakingMinted
         /\ Optimized!OthersMinted = OthersMinted
         /\ Optimized!RewardsDue <=> RewardsDue
         /\ RewardsDue => /\ Optimized!AfterLoop = LoopAt(PhaseReached)
                          /\ Optimized!AfterLoop.forStaking = TokenRewardForStaking
<1>1. Optimized!RewardsDue <=> RewardsDue
  BY Zenon DEF Optimized!RewardsDue, RewardsDue
<1>2. \A s, n : Optimized!Minted(s, n) = Minted(s, n)
  BY Zenon DEF Optimized!Minted, Minted
<1>3. CASE RewardsDue
  <2>1. Optimized!AfterLoop = LoopAt(PhaseReached)
    BY <1>3, LoopEnds
  <2>2. /\ Optimized!AfterLoop.forStaking = RewardUpTo(PhaseReached, rewardPerBlockForStaking, StakingRate)
        /\ Optimized!AfterLoop.forOthers = RewardUpTo(PhaseReached, rewardPerBlockForOthers, OthersRate)
    BY <2>1 DEF LoopAt
  <2>3. /\ RewardUpTo(PhaseReached, rewardPerBlockForStaking, StakingRate) = TokenRewardForStaking
        /\ RewardUpTo(PhaseReached, rewardPerBlockForOthers, OthersRate) = TokenRewardForOthers
    BY <1>3, RewardRounds, ScheduleTypes DEF TypeOK, TokenRewardForStaking, TokenRewardForOthers
  <2>4. Optimized!StakingMinted = StakingMinted
    BY <1>1, <1>2, <1>3, <2>2, <2>3, Zenon DEF Optimized!StakingMinted, StakingMinted
  <2>5. Optimized!OthersMinted = OthersMinted
    BY <1>1, <1>2, <1>3, <2>2, <2>3, <2>4 DEF Optimized!OthersMinted, OthersMinted
  <2> QED BY <1>1, <2>1, <2>2, <2>3, <2>4, <2>5
<1>4. CASE ~RewardsDue
  <2>1. TokenRewardForStaking = 0
    BY <1>4 DEF TokenRewardForStaking, TokenReward
  <2>2. StakingMinted = 0 /\ OthersMinted = 0
    BY <2>1 DEF StakingMinted, OthersMinted, Minted
  <2>3. Optimized!StakingMinted = 0 /\ Optimized!OthersMinted = 0
    BY <1>1, <1>4 DEF Optimized!StakingMinted, Optimized!OthersMinted
  <2> QED BY <1>1, <1>4, <2>2, <2>3
<1> QED BY <1>3, <1>4

\* An update of the optimized contract is one of the original.
LEMMA SameUpdate ==
  ASSUME TypeOK, ScheduleInv, Optimized!UpdatePool
  PROVE  UpdatePool
<1>1. CASE block <= lastRewardBlock /\ UNCHANGED <<Optimized!pool, Optimized!minting>>
  <2>1. UNCHANGED <<pool, minting>>
    BY <1>1 DEF Optimized!pool, Optimized!schedule, Optimized!minting, pool, schedule, minting
  <2> QED BY <1>1, <2>1, Zenon DEF UpdatePool
<1>2. CASE /\ block > lastRewardBlock
           /\ totalAmountStaked = 0
           /\ lastRewardBlock' = block
           /\ UNCHANGED <<Optimized!schedule, accTokenPerShare, Optimized!minting>>
  <2>1. UNCHANGED <<schedule, accTokenPerShare, minting>>
    BY <1>2 DEF Optimized!schedule, Optimized!minting, schedule, minting
  <2> QED BY <1>2, <2>1, Zenon DEF UpdatePool
<1>3. CASE RewardsDue /\ ~(block <= lastRewardBlock) /\ totalAmountStaked # 0
  <2>1. /\ Optimized!AfterLoop.forStaking > 0 => tokenOwner = "distributor"
        /\ accTokenPerShare' =
             accTokenPerShare + (Optimized!StakingMinted * PRECISION_FACTOR) \div totalAmountStaked
        /\ currentPhase' = Optimized!AfterLoop.now.phase
        /\ endBlock' = Optimized!AfterLoop.endBlock
        /\ rewardPerBlockForStaking' = Optimized!AfterLoop.now.staking
        /\ rewardPerBlockForOthers' = Optimized!AfterLoop.now.others
        /\ lastRewardBlock' = IF lastRewardBlock <= endBlock' THEN block ELSE lastRewardBlock
        /\ totalSupply' = totalSupply + Optimized!StakingMinted + Optimized!OthersMinted
        /\ splitterHeld' = splitterHeld + Optimized!OthersMinted
    BY <1>3, Zenon DEF Optimized!UpdatePool
  <2>2. /\ Optimized!StakingMinted = StakingMinted
        /\ Optimized!OthersMinted = OthersMinted
        /\ Optimized!AfterLoop = LoopAt(PhaseReached)
        /\ Optimized!AfterLoop.forStaking = TokenRewardForStaking
    BY <1>3, SameMints
  <2>3. /\ Optimized!AfterLoop.now.phase = PhaseReached
        /\ Optimized!AfterLoop.endBlock = PeriodStart(PhaseReached + 1)
        /\ Optimized!AfterLoop.now.staking = StakingRate[PhaseReached]
        /\ Optimized!AfterLoop.now.others = OthersRate[PhaseReached]
    BY <2>2 DEF LoopAt
  <2>4. EndOf(PhaseReached) = PeriodStart(PhaseReached + 1)
    BY LoopExit
  <2>5. /\ rewardPerBlockForStaking = StakingRate[currentPhase]
        /\ rewardPerBlockForOthers = OthersRate[currentPhase]
    BY DEF ScheduleInv
  <2>6. accTokenPerShare' = accTokenPerShare + SharePerToken
    BY <2>1, <2>2, Zenon DEF SharePerToken
  <2>7. /\ TokenRewardForStaking > 0 => tokenOwner = "distributor"
        /\ currentPhase' = PhaseReached
        /\ endBlock' = EndOf(PhaseReached)
        /\ totalSupply' = totalSupply + StakingMinted + OthersMinted
        /\ splitterHeld' = splitterHeld + OthersMinted
    BY <2>1, <2>2, <2>3, <2>4, Zenon
  <2>8. /\ rewardPerBlockForStaking' =
             IF PhaseReached = currentPhase THEN rewardPerBlockForStaking ELSE StakingRate[PhaseReached]
        /\ rewardPerBlockForOthers' =
             IF PhaseReached = currentPhase THEN rewardPerBlockForOthers ELSE OthersRate[PhaseReached]
    BY <2>1, <2>3, <2>5, Zenon
  <2> QED BY <1>3, <2>1, <2>6, <2>7, <2>8, Zenon DEF UpdatePool
<1>4. \/ block <= lastRewardBlock /\ UNCHANGED <<Optimized!pool, Optimized!minting>>
      \/ /\ block > lastRewardBlock
         /\ totalAmountStaked = 0
         /\ lastRewardBlock' = block
         /\ UNCHANGED <<Optimized!schedule, accTokenPerShare, Optimized!minting>>
      \/ Optimized!RewardsDue
  BY Zenon DEF Optimized!UpdatePool
<1>5. RewardsDue => ~(block <= lastRewardBlock) /\ totalAmountStaked # 0
  BY DEF RewardsDue, TypeOK
<1> QED BY <1>1, <1>2, <1>3, <1>4, <1>5, SameMints, Zenon

\* No stake exceeds the total, which is a uint: compounding does not wrap.
LEMMA CompoundFits ==
  ASSUME TypeOK, StakeAccounted, NEW u \in User, NEW n \in Nat, totalAmountStaked + n \in 0..UINT_MAX
  PROVE  Optimized!Unchecked(amount[u] + n) = amount[u] + n
<1>1. amount \in [User -> Nat] /\ IsFiniteSet(User) /\ IsFiniteSet(User \ {u}) /\ totalAmountStaked \in Nat
  BY ConstructorRequires, FS_RemoveElement DEF TypeOK
<1>2. totalAmountStaked = amount[u] + SumOver(amount, User \ {u})
  BY <1>1, SumSplit DEF StakeAccounted
<1>3. SumOver(amount, User \ {u}) \in Nat
  <2> DEFINE f == [v \in User \ {u} |-> amount[v]]
  <2>1. SumOver(amount, User) \in Nat /\ amount[u] \in Nat
    BY <1>1, UnitsFinite
  <2>2. SumOver(f, User \ {u}) \in Nat
    <3>1. f \in [User \ {u} -> Nat]
      BY <1>1
    <3> HIDE DEF f
    <3> QED BY <1>1, <3>1, UnitsFinite
  <2>3. SumOver(f, User \ {u}) = SumOver(amount, User \ {u})
    <3>1. Units(f, User \ {u}) = Units(amount, User \ {u})
      BY DEF Units
    <3> QED BY <3>1, Zenon DEF SumOver
  <2> QED BY <2>2, <2>3
<1>4. amount[u] + n \in 0..UINT_MAX
  BY <1>1, <1>2, <1>3, UintAssumption
<1> QED BY <1>4, NoWrap

\* A step of the optimized contract is a step of the original.
LEMMA SameStep ==
  ASSUME TypeOK, ScheduleInv, StakeAccounted, Optimized!Next
  PROVE  Next
<1> DEFINE Paid(u) == (amount[u] * accTokenPerShare') \div PRECISION_FACTOR - rewardDebt[u]
<1>u. UINT_MAX \in Nat
  BY UintAssumption
<1>f. \A x : Optimized!Fits(x) <=> x \in 0..UINT_MAX
  BY DEF Optimized!Fits
<1>t. amount \in [User -> Nat] /\ totalAmountStaked \in Nat /\ held \in Nat
  BY DEF TypeOK
<1>p. \A u : Optimized!Pending(u) = Paid(u) /\ Pending(u, accTokenPerShare') = Paid(u)
  BY Zenon DEF Optimized!Pending, Pending
<1>s. \A u, n : Optimized!Settle(u, n) => Settle(u, n)
  BY Zenon DEF Optimized!Settle, Settle
<1>m. Optimized!StakingMinted = StakingMinted
  BY SameMints
<1>g. Optimized!UpdatePool => UpdatePool
  BY SameUpdate
<1>n. StakingMinted \in Nat
  BY MintedNat
<1>1. ASSUME NEW u \in User, NEW n \in 1..wallet[u], Optimized!Deposit(u, n)
      PROVE  Deposit(u, n)
  <2> DEFINE pending == IF amount[u] > 0 THEN Paid(u) ELSE 0
  <2>1. /\ n <= wallet[u]
        /\ Optimized!UpdatePool
        /\ amount[u] > 0 => Optimized!PendingFits(u)
        /\ Optimized!Settle(u, amount[u] + n + pending)
        /\ totalAmountStaked' = totalAmountStaked + n + pending
        /\ held' = held + StakingMinted + n
        /\ wallet' = [wallet EXCEPT ![u] = @ - n]
        /\ UNCHANGED <<block, tokenOwner>>
    BY <1>1, <1>m, <1>p, Zenon DEF Optimized!Deposit
  <2>2. pending >= 0
    BY <2>1, <1>p, <1>f DEF Optimized!PendingFits
  <2>3. n > 0
    OBVIOUS
  <2>4. pending = IF amount[u] > 0 THEN Pending(u, accTokenPerShare') ELSE 0
    BY <1>p, Zenon
  <2> HIDE DEF pending
  <2> QED BY <2>1, <2>2, <2>3, <2>4, <1>g, <1>s, Zenon DEF Deposit
<1>2. ASSUME NEW u \in User, Optimized!HarvestAndCompound(u)
      PROVE  HarvestAndCompound(u)
  <2>1. /\ UpdatePool
        /\ held' = held + StakingMinted
        /\ UNCHANGED <<block, tokenOwner, wallet>>
        /\ Paid(u) \in 0..UINT_MAX
    BY <1>2, <1>m, <1>g, <1>p, <1>f, Zenon DEF Optimized!HarvestAndCompound, Optimized!PendingFits
  <2>2. CASE Paid(u) = 0
    <3>1. UNCHANGED Optimized!stakes
      BY <1>2, <1>p, <2>2, Zenon DEF Optimized!HarvestAndCompound
    <3>2. UNCHANGED stakes
      BY <3>1 DEF Optimized!stakes, stakes
    <3> QED BY <2>1, <2>2, <3>2, <1>p, Zenon DEF HarvestAndCompound
  <2>3. CASE Paid(u) # 0
    <3>1. /\ Optimized!Settle(u, Optimized!Unchecked(amount[u] + Paid(u)))
          /\ totalAmountStaked' = totalAmountStaked + Paid(u)
          /\ totalAmountStaked' \in 0..UINT_MAX
      BY <1>2, <1>p, <1>f, <2>3, Zenon DEF Optimized!HarvestAndCompound
    <3> DEFINE n == Paid(u)
    <3>2. n \in Nat /\ n > 0
      <4> HIDE DEF n
      <4> QED BY <2>1, <2>3, <1>u DEF n
    <3>3. Optimized!Unchecked(amount[u] + n) = amount[u] + n
      <4> HIDE DEF n
      <4>1. totalAmountStaked + n \in 0..UINT_MAX
        BY <3>1 DEF n
      <4> QED BY <4>1, <3>2, <1>u, CompoundFits
    <3>4. Settle(u, amount[u] + n)
      BY <3>1, <3>3, <1>s, Zenon
    <3> QED BY <2>1, <3>1, <3>2, <3>4, <1>p, Zenon DEF HarvestAndCompound
  <2> QED BY <2>2, <2>3
<1>3. Optimized!UpdatePoolOnly => UpdatePoolOnly
  BY <1>g, <1>m, Zenon DEF Optimized!UpdatePoolOnly, UpdatePoolOnly, Optimized!stakes, stakes
<1>4. ASSUME NEW u \in User, NEW n \in 1..amount[u], Optimized!Withdraw(u, n)
      PROVE  Withdraw(u, n)
  <2> DEFINE pending == Paid(u)
  <2>1. /\ UpdatePool
        /\ pending \in 0..UINT_MAX
        /\ Optimized!Settle(u, amount[u] + pending - n)
        /\ totalAmountStaked' = totalAmountStaked + pending - n
        /\ totalAmountStaked' \in 0..UINT_MAX
        /\ held' = held + StakingMinted - n
        /\ held' \in 0..UINT_MAX
        /\ wallet' = [wallet EXCEPT ![u] = @ + n]
        /\ UNCHANGED <<block, tokenOwner>>
    BY <1>4, <1>m, <1>g, <1>p, <1>f, Zenon DEF Optimized!Withdraw, Optimized!PendingFits
  <2>2. pending = Pending(u, accTokenPerShare')
    BY <1>p, Zenon
  <2> HIDE DEF pending
  <2>3. /\ n > 0 /\ n <= amount[u] /\ pending >= 0
        /\ totalAmountStaked + pending >= n
        /\ held + StakingMinted >= n
    BY <2>1, <1>t, <1>n, <1>u
  <2> QED BY <2>1, <2>2, <2>3, <1>s, Zenon DEF Withdraw
<1>5. ASSUME NEW u \in User, Optimized!WithdrawAll(u)
      PROVE  WithdrawAll(u)
  <2> DEFINE pending == Paid(u)
  <2>1. /\ amount[u] # 0
        /\ UpdatePool
        /\ pending \in 0..UINT_MAX
        /\ held' = held + StakingMinted - (amount[u] + pending)
        /\ held' \in 0..UINT_MAX
        /\ totalAmountStaked' = totalAmountStaked - amount[u]
        /\ totalAmountStaked' \in 0..UINT_MAX
        /\ wallet' = [wallet EXCEPT ![u] = @ + (amount[u] + pending)]
        /\ amount' = [amount EXCEPT ![u] = 0]
        /\ rewardDebt' = [rewardDebt EXCEPT ![u] = 0]
        /\ UNCHANGED <<block, tokenOwner>>
    BY <1>5, <1>m, <1>g, <1>p, <1>f, Zenon DEF Optimized!WithdrawAll, Optimized!PendingFits
  <2>2. pending = Pending(u, accTokenPerShare')
    BY <1>p, Zenon
  <2> HIDE DEF pending
  <2>3. /\ amount[u] > 0 /\ pending >= 0
        /\ totalAmountStaked >= amount[u]
        /\ held + StakingMinted >= amount[u] + pending
    BY <2>1, <1>t, <1>n, <1>u
  <2> QED BY <2>1, <2>2, <2>3, Zenon DEF WithdrawAll
<1>6. ASSUME NEW n \in DeployerMints, Optimized!DeployerMint(n)
      PROVE  DeployerMint(n)
  BY <1>6 DEF Optimized!DeployerMint, DeployerMint, Optimized!Minted, Minted, Optimized!pool,
              Optimized!schedule, Optimized!stakes, pool, schedule, stakes
<1>7. Optimized!TransferOwnership => TransferOwnership
  BY DEF Optimized!TransferOwnership, TransferOwnership, Optimized!pool, Optimized!schedule,
         Optimized!stakes, Optimized!minting, pool, schedule, stakes, minting
<1>8. Optimized!NextBlock => NextBlock
  BY DEF Optimized!NextBlock, NextBlock, Optimized!pool, Optimized!schedule,
         Optimized!stakes, Optimized!minting, pool, schedule, stakes, minting
<1> QED BY <1>1, <1>2, <1>3, <1>4, <1>5, <1>6, <1>7, <1>8, Zenon DEF Optimized!Next, Next

\* The rewrite with its unchecked sums implements the original contract, for
\* every schedule, number of users and supply cap that a uint holds: no
\* transaction of its own that succeeds ends anywhere the original would not.
THEOREM OptimizedImplements == OptimizedSpec => ImplementsOriginal
<1> DEFINE Inv == TypeOK /\ ScheduleInv /\ StakesSound
<1>1. Optimized!Init => Init
  BY DEF Optimized!Init, Init
<1>2. Init => Inv
  BY TypesFirst, StakesFirst, Zenon
<1>3. Inv /\ [Optimized!Next]_Optimized!vars => [Next]_vars
  <2>1. UNCHANGED Optimized!vars => UNCHANGED vars
    BY DEF Optimized!vars, vars, Optimized!pool, Optimized!schedule, Optimized!stakes, Optimized!minting,
           pool, schedule, stakes, minting
  <2>2. Inv /\ Optimized!Next => Next
    BY SameStep DEF StakesSound
  <2> QED BY <2>1, <2>2
<1>4. Inv /\ [Next]_vars => Inv'
  BY TypesInductive, StakesInductive, Zenon
<1> QED BY <1>1, <1>2, <1>3, <1>4, PTL DEF OptimizedSpec, Optimized!Spec, ImplementsOriginal, Spec

-----------------------------------------------------------------------------
(* The view of the gas-optimized contract *)

\* The last period ends at a block number that is a uint, which the checked
\* sums of the transactions enforce but the unchecked ones of the view do not.
ScheduleFits == PeriodStart(NUMBER_PERIODS) \in 0..UINT_MAX

\* The loop of the view when it stands in period p, and one round of it.
ViewAt(p) ==
  [phase |-> p,
   endBlock |-> PeriodStart(p + 1),
   forStaking |-> RewardUpTo(p, rewardPerBlockForStaking, StakingRate)]

ViewRound(r) ==
  LET phase == Optimized!Unchecked(r.phase + 1)
      length == stakingPeriod[phase].periodLengthInBlock
      end == Optimized!Unchecked(r.endBlock + length)
      newMultiplier == IF block <= end THEN block - r.endBlock ELSE length
  IN IF block > r.endBlock /\ r.phase < NUMBER_PERIODS - 1
     THEN [phase |-> phase,
           endBlock |-> end,
           forStaking |-> r.forStaking
                            + newMultiplier * stakingPeriod[phase].rewardPerBlockForStaking]
     ELSE r

LEMMA ViewMoves ==
  ASSUME TypeOK, ScheduleInv, RewardsDue, ScheduleFits,
         NEW p \in currentPhase..(PhaseReached - 1)
  PROVE  ViewRound(ViewAt(p)) = ViewAt(p + 1)
<1>1. /\ currentPhase \in 0..LastPeriod /\ PhaseReached \in currentPhase..LastPeriod
      /\ LastPeriod \in Nat /\ NUMBER_PERIODS = LastPeriod + 1 /\ block \in Nat
  BY LoopExit, ScheduleTypes DEF TypeOK
<1>2. /\ p \in 0..LastPeriod /\ p + 1 \in 0..LastPeriod /\ p < NUMBER_PERIODS - 1
      /\ p \in currentPhase..LastPeriod /\ (p + 1) + 1 = p + 2
      /\ p + 1 \in 0..NUMBER_PERIODS /\ p + 2 \in 0..NUMBER_PERIODS /\ NUMBER_PERIODS \in (p + 2)..NUMBER_PERIODS
  BY <1>1
<1>3. block > PeriodStart(p + 1)
  BY <1>2, LoopExit
<1>4. Optimized!Unchecked(p + 1) = p + 1
  <2>1. UINT_MAX \in Nat /\ p + 1 \in 0..UINT_MAX
    BY <1>1, <1>2, UintAssumption
  <2> QED BY <2>1, NoWrap
<1>5. /\ stakingPeriod[p + 1].rewardPerBlockForStaking = StakingRate[p + 1]
      /\ stakingPeriod[p + 1].periodLengthInBlock = Length[p + 1]
  BY <1>2 DEF StakingRate, Length
<1>6. PeriodStart(p + 2) = PeriodStart(p + 1) + Length[p + 1]
      /\ PeriodStart(p + 1) \in Nat /\ PeriodStart(p + 2) \in Nat /\ Length[p + 1] \in Nat
  <2>1. PeriodStart((p + 1) + 1) = PeriodStart(p + 1) + Length[p + 1]
    BY <1>2, PeriodStartTypes
  <2> QED BY <2>1, <1>2, PeriodStartTypes, ScheduleTypes
<1>7. Optimized!Unchecked(PeriodStart(p + 1) + Length[p + 1]) = PeriodStart(p + 2)
  <2>1. PeriodStart(p + 2) <= PeriodStart(NUMBER_PERIODS)
    BY <1>2, PeriodStartMonotone
  <2>2. UINT_MAX \in Nat /\ PeriodStart(p + 2) \in 0..UINT_MAX
    BY <2>1, <1>6, UintAssumption DEF ScheduleFits
  <2>3. Optimized!Unchecked(PeriodStart(p + 2)) = PeriodStart(p + 2)
    BY <2>2, NoWrap
  <2> QED BY <2>3, <1>6, Zenon
<1> DEFINE r == ViewAt(p)
           phase == Optimized!Unchecked(r.phase + 1)
           length == stakingPeriod[phase].periodLengthInBlock
           end == Optimized!Unchecked(r.endBlock + length)
           m == IF block <= end THEN block - r.endBlock ELSE length
           mult == Multiplier(PeriodStart(p + 1), block, PeriodStart(p + 2))
<1>8. /\ r.endBlock = PeriodStart(p + 1) /\ r.phase = p
      /\ r.forStaking = RewardUpTo(p, rewardPerBlockForStaking, StakingRate)
  BY DEF ViewAt
<1>9. ViewRound(r) = IF block > r.endBlock /\ r.phase < NUMBER_PERIODS - 1
                     THEN [phase |-> phase, endBlock |-> end,
                           forStaking |-> r.forStaking + m * stakingPeriod[phase].rewardPerBlockForStaking]
                     ELSE r
  BY DEF ViewRound
<1> HIDE DEF r
<1>10. phase = p + 1
  BY <1>4, <1>8
<1> HIDE DEF phase
<1>11. length = Length[p + 1]
  BY <1>5, <1>10
<1>12. end = PeriodStart(p + 2)
  BY <1>7, <1>8, <1>11
<1> HIDE DEF length, end
<1>13. m = mult
  <2>1. m = IF block <= PeriodStart(p + 2) THEN block - PeriodStart(p + 1) ELSE Length[p + 1]
    BY <1>8, <1>11, <1>12
  <2> HIDE DEF m
  <2> QED BY <2>1, <1>1, <1>3, <1>6 DEF Multiplier
<1>14. RewardUpTo(p + 1, rewardPerBlockForStaking, StakingRate)
         = RewardUpTo(p, rewardPerBlockForStaking, StakingRate) + mult * StakingRate[p + 1]
  BY RewardRounds, ScheduleTypes DEF TypeOK
<1>15. ViewAt(p + 1) = [phase |-> p + 1, endBlock |-> PeriodStart(p + 2),
                        forStaking |-> RewardUpTo(p + 1, rewardPerBlockForStaking, StakingRate)]
  BY <1>2 DEF ViewAt
<1> HIDE DEF m, mult
<1>16. ViewRound(r) = ViewAt(p + 1)
  <2>1. block > r.endBlock /\ r.phase < NUMBER_PERIODS - 1
    BY <1>2, <1>3, <1>8
  <2> QED BY <2>1, <1>5, <1>8, <1>9, <1>10, <1>12, <1>13, <1>14, <1>15, Zenon
<1> QED BY <1>16 DEF r

LEMMA ViewStays ==
  ASSUME TypeOK, ScheduleInv
  PROVE  ViewRound(ViewAt(PhaseReached)) = ViewAt(PhaseReached)
<1> DEFINE p == PhaseReached
           r == ViewAt(p)
<1>1. r.endBlock = PeriodStart(p + 1) /\ r.phase = p
  BY DEF ViewAt
<1>2. ~(block > PeriodStart(p + 1)) \/ ~(p < NUMBER_PERIODS - 1)
  <2>1. p \in currentPhase..LastPeriod /\ (block <= EndOf(p) \/ p = LastPeriod)
        /\ EndOf(p) = PeriodStart(p + 1)
    BY LoopExit
  <2>2. currentPhase \in 0..LastPeriod /\ LastPeriod \in Nat /\ NUMBER_PERIODS = LastPeriod + 1 /\ block \in Nat
    BY ScheduleTypes DEF TypeOK
  <2>3. PeriodStart(p + 1) \in Nat
    <3>1. p + 1 \in 0..NUMBER_PERIODS
      BY <2>1, <2>2
    <3> QED BY <3>1, PeriodStartTypes
  <2> HIDE DEF p
  <2> QED BY <2>1, <2>2, <2>3
<1> HIDE DEF r
<1>3. ViewRound(r) = r
  BY <1>1, <1>2 DEF ViewRound
<1> QED BY <1>3 DEF r

LEMMA ViewEnds ==
  ASSUME TypeOK, ScheduleInv, RewardsDue, ScheduleFits
  PROVE  Optimized!ViewRounds[NUMBER_PERIODS] = ViewAt(PhaseReached)
<1> DEFINE first == ViewAt(currentPhase)
           Eq(f) == f = [k \in 0..NUMBER_PERIODS |-> IF k = 0 THEN first ELSE ViewRound(f[k - 1])]
           E == [k \in 0..NUMBER_PERIODS |-> ViewAt(PhaseAfter(k))]
           R == Optimized!ViewRounds
<1>1. NUMBER_PERIODS \in Nat
  BY ScheduleTypes
<1>2. first = [phase |-> currentPhase,
               endBlock |-> endBlock,
               forStaking |-> Optimized!GetMultiplier(lastRewardBlock, block, endBlock)
                                * rewardPerBlockForStaking]
  <2>1. RewardUpTo(currentPhase, rewardPerBlockForStaking, StakingRate)
          = Multiplier(lastRewardBlock, block, endBlock) * rewardPerBlockForStaking
    BY RewardRounds, ScheduleTypes DEF TypeOK
  <2>2. Optimized!GetMultiplier(lastRewardBlock, block, endBlock)
          = Multiplier(lastRewardBlock, block, endBlock)
    BY DEF Optimized!GetMultiplier, Multiplier
  <2> QED BY <2>1, <2>2, Zenon DEF ViewAt, ScheduleInv
<1>3. R = CHOOSE f : Eq(f)
  <2>1. R = CHOOSE f : f = [k \in 0..NUMBER_PERIODS |->
              IF k = 0
              THEN [phase |-> currentPhase,
                    endBlock |-> endBlock,
                    forStaking |-> Optimized!GetMultiplier(lastRewardBlock, block, endBlock)
                                     * rewardPerBlockForStaking]
              ELSE ViewRound(f[k - 1])]
    BY Zenon DEF Optimized!ViewRounds, ViewRound
  <2> QED BY <1>2, <2>1, Zenon
<1>4. ViewAt(PhaseAfter(0)) = first
  BY PhaseAfterRounds
<1>5. ASSUME NEW k \in Nat
      PROVE  ViewRound(ViewAt(PhaseAfter(k))) = ViewAt(PhaseAfter(k + 1))
  BY ViewMoves, ViewStays, PhaseAfterRounds
<1> HIDE DEF first
<1>6. Eq(E)
  <2>1. ASSUME NEW k \in 0..NUMBER_PERIODS
        PROVE  E[k] = IF k = 0 THEN first ELSE ViewRound(E[k - 1])
    <3>1. CASE k = 0
      BY <3>1, <1>4
    <3>2. CASE k # 0
      <4>1. k - 1 \in 0..NUMBER_PERIODS /\ k - 1 \in Nat /\ (k - 1) + 1 = k
        BY <1>1, <3>2
      <4>2. ViewRound(ViewAt(PhaseAfter(k - 1))) = ViewAt(PhaseAfter((k - 1) + 1))
        BY <4>1, <1>5
      <4>3. E[k - 1] = ViewAt(PhaseAfter(k - 1)) /\ E[k] = ViewAt(PhaseAfter(k))
        BY <4>1
      <4> HIDE DEF E
      <4> QED BY <3>2, <4>1, <4>2, <4>3, Zenon
    <3> QED BY <3>1, <3>2
  <2>2. E = [k \in 0..NUMBER_PERIODS |-> E[k]]
    OBVIOUS
  <2> HIDE DEF E
  <2> QED BY <2>1, <2>2, Zenon
<1>7. Eq(R)
  <2> HIDE DEF Eq, E, R
  <2> QED BY <1>3, <1>6, Zenon
<1>8. \A k \in 0..NUMBER_PERIODS : /\ R[k] = IF k = 0 THEN first ELSE ViewRound(R[k - 1])
                                   /\ E[k] = IF k = 0 THEN first ELSE ViewRound(E[k - 1])
  <2> HIDE DEF E, R
  <2> QED BY <1>6, <1>7, Zenon
<1>9. E[NUMBER_PERIODS] = ViewAt(PhaseReached)
  BY <1>1, PhaseAfterRounds
<1> HIDE DEF E, R
<1>10. R[0] = E[0]
  BY <1>1, <1>8
<1>11. \A k \in 0..(NUMBER_PERIODS - 1) : R[k] = E[k] => R[k + 1] = E[k + 1]
  <2>1. ASSUME NEW k \in 0..(NUMBER_PERIODS - 1), R[k] = E[k] PROVE R[k + 1] = E[k + 1]
    <3>1. k + 1 \in 0..NUMBER_PERIODS /\ k + 1 # 0 /\ (k + 1) - 1 = k
      BY <1>1
    <3> QED BY <1>8, <2>1, <3>1, Zenon
  <2> QED BY <2>1
<1>12. R[NUMBER_PERIODS] = ViewAt(PhaseReached)
  BY <1>1, <1>9, <1>10, <1>11, SameRounds
<1> QED BY <1>12 DEF R

\* The optimized view promises what the original promises, so long as the
\* schedule ends at a block number that is a uint.
THEOREM OptimizedPreviewSafe ==
  ASSUME ScheduleFits
  PROVE  OptimizedSpec => []SamePreview
<1> DEFINE Inv == TypeOK /\ ScheduleInv
<1>1. Inv => SamePreview
  <2> SUFFICES ASSUME TypeOK, ScheduleInv, NEW u \in User
               PROVE  Optimized!CalculatePendingRewards(u) = CalculatePendingRewards(u)
    BY DEF SamePreview
  <2>1. Optimized!RewardsDue <=> RewardsDue
    BY Zenon DEF Optimized!RewardsDue, RewardsDue
  <2>2. CASE RewardsDue
    <3>1. Optimized!ViewReward = RewardUpTo(PhaseReached, rewardPerBlockForStaking, StakingRate)
      <4>1. Optimized!ViewRounds[NUMBER_PERIODS] = ViewAt(PhaseReached)
        BY <2>2, ViewEnds
      <4> QED BY <4>1 DEF Optimized!ViewReward, ViewAt
    <3>2. Optimized!ViewReward =
            Multiplier(lastRewardBlock, block, endBlock) * rewardPerBlockForStaking
              + PartialSum(AdjustedReward, NUMBER_PERIODS)[NUMBER_PERIODS]
      <4>1. Optimized!ViewReward = TokenReward(rewardPerBlockForStaking, StakingRate)
        BY <2>2, <3>1, RewardRounds, ScheduleTypes DEF TypeOK
      <4> QED BY <2>2, <4>1, AdjustedIsRound, Zenon DEF TokenReward
    <3>3. accTokenPerShare + (Optimized!ViewReward * PRECISION_FACTOR) \div totalAmountStaked
            = AdjustedTokenPerShare
      BY <3>2, Zenon DEF AdjustedTokenPerShare
    <3> QED BY <2>1, <2>2, <3>3, Zenon
            DEF Optimized!CalculatePendingRewards, CalculatePendingRewards, Pending
  <2>3. CASE ~RewardsDue
    <3>1. accTokenPerShare + 0 = accTokenPerShare
      BY DEF TypeOK
    <3> QED BY <2>1, <2>3, <3>1, Zenon
            DEF Optimized!CalculatePendingRewards, CalculatePendingRewards, Pending
  <2> QED BY <2>2, <2>3
<1> QED BY <1>1, OptimizedImplements, TypeCorrect, PTL DEF ImplementsOriginal
=============================================================================

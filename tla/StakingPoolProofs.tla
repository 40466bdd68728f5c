-------------------------- MODULE StakingPoolProofs --------------------------
(***************************************************************************)
(* Theorems about StakingPoolForUniswapV2Tokens and its budget, for every   *)
(* number of users, every precision, and all rates, end blocks and amounts. *)
(***************************************************************************)
EXTENDS StakingPoolBudget, SumTheorems

\* An update adds a natural to the accumulator: no block is counted backwards.
LEMMA AdjustedGrows ==
  ASSUME PoolTypeOK
  PROVE  AdjustedTokenPerShare \in Nat /\ accTokenPerShare <= AdjustedTokenPerShare
<1>1. CASE RewardsDue
  <2>1. Multiplier \in Nat /\ rewardPerBlock \in Nat
    BY <1>1 DEF PoolTypeOK, RewardsDue, Multiplier
  <2>2. TokenReward \in Nat
    BY <1>1, <2>1, MulNat DEF TokenReward
  <2>3. TokenReward * PRECISION_FACTOR \in Nat
    BY <2>2, MulNat, PoolAssumption
  <2>4. stakedHeld \in Nat \ {0}
    BY <1>1 DEF RewardsDue, PoolTypeOK
  <2>5. (TokenReward * PRECISION_FACTOR) \div stakedHeld \in Nat
    BY <2>3, <2>4, DivNat
  <2> QED BY <1>1, <2>5 DEF AdjustedTokenPerShare, PoolTypeOK
<1>2. CASE ~RewardsDue
  BY <1>2 DEF AdjustedTokenPerShare, PoolTypeOK
<1> QED BY <1>1, <1>2

\* The two variables an update changes.
LEMMA UpdatePoolTypes ==
  ASSUME PoolTypeOK, UpdatePool
  PROVE  /\ accTokenPerShare' \in Nat
         /\ accTokenPerShare <= accTokenPerShare'
         /\ lastRewardBlock' \in Nat
BY AdjustedGrows DEF UpdatePool, PoolTypeOK

\* A stake of n has earned n * acc / PRECISION_FACTOR.
LEMMA EarnedNat ==
  ASSUME NEW n \in Nat, NEW acc \in Nat
  PROVE  (n * acc) \div PRECISION_FACTOR \in Nat
<1>1. n * acc \in Nat
  BY MulNat
<1> QED BY <1>1, DivNat, PoolAssumption

\* What is pending is the difference of two naturals, and grows with the
\* accumulator.
LEMMA PendingGrows ==
  ASSUME PoolTypeOK, NEW v \in User, NEW a \in Nat, NEW b \in Nat, a <= b
  PROVE  Pending(v, a) \in Int /\ Pending(v, b) \in Int /\ Pending(v, a) <= Pending(v, b)
<1>1. amount[v] \in Nat /\ rewardDebt[v] \in Nat
  BY DEF PoolTypeOK
<1> DEFINE x == amount[v] * a
           y == amount[v] * b
<1>2. x \in Nat /\ y \in Nat /\ x <= y
  BY <1>1, MulNat, MulMonotone
<1>3. Pending(v, a) = x \div PRECISION_FACTOR - rewardDebt[v]
      /\ Pending(v, b) = y \div PRECISION_FACTOR - rewardDebt[v]
  BY DEF Pending
<1> HIDE DEF x, y
<1>4. x \div PRECISION_FACTOR \in Nat /\ y \div PRECISION_FACTOR \in Nat
      /\ x \div PRECISION_FACTOR <= y \div PRECISION_FACTOR
  BY <1>2, DivNat, DivMonotone, PoolAssumption
<1> QED BY <1>1, <1>3, <1>4
-----------------------------------------------------------------------------
\* The invariant of the stakes.
StakesInv == PoolTypeOK /\ StakesHeld /\ DebtCovered

\* A transaction that settles u at a stake of m and moves the difference
\* between its wallet and the pool.
LEMMA SettledStakes ==
  ASSUME StakesInv, UpdatePool, NEW u \in User, NEW m \in Nat, Settle(u, m),
         stakedHeld' = stakedHeld - amount[u] + m,
         wallet[u] + amount[u] - m \in Nat,
         wallet' = [wallet EXCEPT ![u] = wallet[u] + amount[u] - m],
         looks' \in Nat, UNCHANGED <<block, plan, paused, funded>>
  PROVE  StakesInv'
<1>1. PoolTypeOK /\ StakesHeld /\ DebtCovered /\ IsFiniteSet(User)
  BY PoolAssumption DEF StakesInv
<1>2. /\ amount \in [User -> Nat] /\ rewardDebt \in [User -> Nat] /\ wallet \in [User -> Nat]
      /\ stakedHeld \in Nat
  BY <1>1 DEF PoolTypeOK
<1>3. accTokenPerShare' \in Nat /\ accTokenPerShare <= accTokenPerShare' /\ lastRewardBlock' \in Nat
      /\ accTokenPerShare \in Nat
  BY <1>1, UpdatePoolTypes DEF PoolTypeOK
<1>4. /\ amount' = [amount EXCEPT ![u] = m]
      /\ rewardDebt' = [rewardDebt EXCEPT ![u] = (m * accTokenPerShare') \div PRECISION_FACTOR]
      /\ (m * accTokenPerShare') \div PRECISION_FACTOR \in Nat
  BY <1>3, EarnedNat DEF Settle
<1>5. /\ amount' \in [User -> Nat] /\ amount'[u] = m
      /\ \A v \in User \ {u} : amount'[v] = amount[v] /\ rewardDebt'[v] = rewardDebt[v]
      /\ rewardDebt' \in [User -> Nat]
      /\ rewardDebt'[u] = (m * accTokenPerShare') \div PRECISION_FACTOR
      /\ wallet' \in [User -> Nat]
  BY <1>2, <1>4
<1>6. StakesHeld' /\ stakedHeld' \in Nat
  <2>1. SumOver(amount', User) = SumOver(amount, User) - amount[u] + amount'[u]
        /\ SumOver(amount', User) \in Nat /\ SumOver(amount, User) \in Nat
    BY <1>1, <1>2, <1>5, SumUpdate, UnitsFinite
  <2> QED BY <2>1, <1>1, <1>2, <1>5 DEF StakesHeld
<1>7. PoolTypeOK'
  BY <1>1, <1>3, <1>5, <1>6 DEF PoolTypeOK, plan
<1>8. ASSUME NEW v \in User PROVE Pending(v, accTokenPerShare)' >= 0
  <2>1. CASE v = u
    BY <2>1, <1>4, <1>5 DEF Pending
  <2>2. CASE v # u
    <3>1. Pending(v, accTokenPerShare)' = Pending(v, accTokenPerShare')
      BY <2>2, <1>5 DEF Pending
    <3>2. Pending(v, accTokenPerShare) >= 0
      BY <1>1 DEF DebtCovered
    <3> QED BY <3>1, <3>2, <1>1, <1>3, PendingGrows
  <2> QED BY <2>1, <2>2
<1> QED BY <1>6, <1>7, <1>8 DEF StakesInv, DebtCovered

\* A transaction that leaves the accounts alone and takes no LP tokens out.
LEMMA UntouchedStakes ==
  ASSUME StakesInv, PoolTypeOK', UNCHANGED stakes, stakedHeld <= stakedHeld',
         accTokenPerShare <= accTokenPerShare'
  PROVE  StakesInv'
<1>1. PoolTypeOK /\ StakesHeld /\ DebtCovered /\ UNCHANGED <<amount, rewardDebt>>
  BY DEF StakesInv, stakes
<1>2. StakesHeld'
  <2>1. SumOver(amount, User) \in Nat
    BY <1>1, UnitsFinite, PoolAssumption DEF PoolTypeOK
  <2> QED BY <2>1, <1>1 DEF StakesHeld, PoolTypeOK
<1>3. ASSUME NEW v \in User PROVE Pending(v, accTokenPerShare)' >= 0
  <2>1. Pending(v, accTokenPerShare)' = Pending(v, accTokenPerShare')
    BY <1>1 DEF Pending
  <2>2. Pending(v, accTokenPerShare) >= 0
    BY <1>1 DEF DebtCovered
  <2>3. accTokenPerShare \in Nat /\ accTokenPerShare' \in Nat
    BY DEF StakesInv, PoolTypeOK
  <2> QED BY <2>1, <2>2, <2>3, <1>1, PendingGrows
<1> QED BY <1>2, <1>3 DEF StakesInv, DebtCovered

\* An emergency takes one stake out with its tokens and its debt.
LEMMA EmergencyStakes ==
  ASSUME StakesInv, NEW u \in User, EmergencyWithdraw(u)
  PROVE  StakesInv'
<1>1. PoolTypeOK /\ StakesHeld /\ DebtCovered /\ IsFiniteSet(User)
  BY PoolAssumption DEF StakesInv
<1>2. /\ amount[u] <= stakedHeld
      /\ amount' = [amount EXCEPT ![u] = 0]
      /\ rewardDebt' = [rewardDebt EXCEPT ![u] = 0]
      /\ stakedHeld' = stakedHeld - amount[u]
      /\ wallet' = [wallet EXCEPT ![u] = @ + amount[u]]
      /\ UNCHANGED <<block, endBlock, rewardPerBlock, accTokenPerShare, lastRewardBlock, paused,
                     looks, funded>>
  BY DEF EmergencyWithdraw, plan, accrual
<1>3. /\ amount \in [User -> Nat] /\ rewardDebt \in [User -> Nat] /\ stakedHeld \in Nat
      /\ accTokenPerShare \in Nat
  BY <1>1 DEF PoolTypeOK
<1>4. PoolTypeOK'
  BY <1>1, <1>2 DEF PoolTypeOK
<1>5. /\ amount' \in [User -> Nat] /\ amount'[u] = 0 /\ rewardDebt'[u] = 0
      /\ \A v \in User \ {u} : amount'[v] = amount[v] /\ rewardDebt'[v] = rewardDebt[v]
  BY <1>2, <1>3
<1>6. StakesHeld'
  <2>1. SumOver(amount', User) = SumOver(amount, User) - amount[u] + amount'[u]
        /\ SumOver(amount, User) \in Nat
    BY <1>1, <1>3, <1>5, SumUpdate, UnitsFinite
  <2> QED BY <2>1, <1>1, <1>2, <1>3, <1>5 DEF StakesHeld
<1>7. ASSUME NEW v \in User PROVE Pending(v, accTokenPerShare)' >= 0
  <2>1. CASE v = u
    <3>1. 0 * accTokenPerShare = 0 /\ 0 \div PRECISION_FACTOR \in Nat
      BY <1>3, EarnedNat, PoolAssumption
    <3> QED BY <2>1, <3>1, <1>2, <1>5 DEF Pending
  <2>2. CASE v # u
    BY <2>2, <1>1, <1>2, <1>5 DEF Pending, DebtCovered
  <2> QED BY <2>1, <2>2
<1> QED BY <1>4, <1>6, <1>7 DEF StakesInv, DebtCovered

\* An empty pool has nothing to lose.
LEMMA StakesStart == PoolInit => StakesInv
<1> SUFFICES ASSUME PoolInit PROVE StakesInv
  OBVIOUS
<1>1. PoolTypeOK
  BY PoolAssumption DEF PoolInit, PoolTypeOK
<1>2. amount \in [User -> Nat] /\ \A u \in User : amount[u] = 0 /\ rewardDebt[u] = 0
  BY DEF PoolInit
<1>3. StakesHeld
  BY <1>1, <1>2, SumZero DEF StakesHeld, PoolInit
<1>4. ASSUME NEW u \in User PROVE Pending(u, accTokenPerShare) >= 0
  <2>1. (amount[u] * accTokenPerShare) \div PRECISION_FACTOR \in Nat
    BY <1>1, EarnedNat DEF PoolTypeOK
  <2> QED BY <2>1, <1>2 DEF Pending
<1> QED BY <1>1, <1>3, <1>4 DEF StakesInv, DebtCovered

\* No transaction, plan or block takes the invariant away.
LEMMA StakesStep == StakesInv /\ [PoolNext]_poolVars => StakesInv'
<1> SUFFICES ASSUME StakesInv, [PoolNext]_poolVars PROVE StakesInv'
  OBVIOUS
<1>t. /\ PoolTypeOK
      /\ amount \in [User -> Nat] /\ wallet \in [User -> Nat]
      /\ stakedHeld \in Nat /\ looks \in Nat /\ accTokenPerShare \in Nat
  BY DEF StakesInv, PoolTypeOK
<1>p. ASSUME NEW u \in User, UpdatePool PROVE Pending(u, accTokenPerShare') \in Int
  BY <1>t, <1>p, UpdatePoolTypes, PendingGrows
<1>1. ASSUME NEW u \in User, NEW n \in 1..wallet[u], Deposit(u, n) PROVE StakesInv'
  <2> DEFINE pending == IF amount[u] > 0 THEN Pending(u, accTokenPerShare') ELSE 0
  <2>1. /\ UpdatePool /\ Settle(u, amount[u] + n) /\ PayLooks(pending)
        /\ stakedHeld' = stakedHeld + n
        /\ wallet' = [wallet EXCEPT ![u] = @ - n]
        /\ UNCHANGED <<block, plan, paused, funded>>
    BY <1>1 DEF Deposit
  <2>2. pending \in Int
    BY <2>1, <1>p
  <2> HIDE DEF pending
  <2>3. looks' \in Nat
    BY <2>1, <2>2, <1>t DEF PayLooks
  <2>4. /\ amount[u] + n \in Nat
        /\ stakedHeld' = stakedHeld - amount[u] + (amount[u] + n)
        /\ wallet[u] + amount[u] - (amount[u] + n) = wallet[u] - n
        /\ wallet[u] - n \in Nat
    BY <2>1, <1>1, <1>t
  <2> QED BY <2>1, <2>3, <2>4, SettledStakes
<1>2. ASSUME NEW u \in User, Harvest(u) PROVE StakesInv'
  <2>1. /\ UpdatePool /\ Settle(u, amount[u]) /\ PayLooks(Pending(u, accTokenPerShare'))
        /\ UNCHANGED <<stakedHeld, wallet>>
        /\ UNCHANGED <<block, plan, paused, funded>>
    BY <1>2 DEF Harvest, lp
  <2>2. Pending(u, accTokenPerShare') \in Int
    BY <2>1, <1>p
  <2>3. looks' \in Nat
    BY <2>1, <2>2, <1>t DEF PayLooks
  <2>4. /\ amount[u] \in Nat
        /\ stakedHeld' = stakedHeld - amount[u] + amount[u]
        /\ wallet[u] + amount[u] - amount[u] = wallet[u]
        /\ wallet[u] \in Nat
        /\ wallet' = [wallet EXCEPT ![u] = wallet[u]]
    BY <2>1, <1>t
  <2> QED BY <2>1, <2>3, <2>4, SettledStakes
<1>3. ASSUME NEW u \in User, NEW n \in 1..stakedHeld, Withdraw(u, n) PROVE StakesInv'
  <2>1. /\ n <= amount[u]
        /\ UpdatePool /\ Settle(u, amount[u] - n) /\ PayLooks(Pending(u, accTokenPerShare'))
        /\ stakedHeld' = stakedHeld - n
        /\ wallet' = [wallet EXCEPT ![u] = @ + n]
        /\ UNCHANGED <<block, plan, paused, funded>>
    BY <1>3 DEF Withdraw
  <2>2. Pending(u, accTokenPerShare') \in Int
    BY <2>1, <1>p
  <2>3. looks' \in Nat
    BY <2>1, <2>2, <1>t DEF PayLooks
  <2>4. /\ amount[u] - n \in Nat
        /\ stakedHeld' = stakedHeld - amount[u] + (amount[u] - n)
        /\ wallet[u] + amount[u] - (amount[u] - n) = wallet[u] + n
        /\ wallet[u] + n \in Nat
    BY <2>1, <1>3, <1>t
  <2> QED BY <2>1, <2>3, <2>4, SettledStakes
<1>4. ASSUME NEW u \in User, EmergencyWithdraw(u) PROVE StakesInv'
  BY <1>4, EmergencyStakes
<1>5. ASSUME NEW u \in User, NEW n \in 1..wallet[u], SendStaked(u, n) PROVE StakesInv'
  <2>1. PoolTypeOK' /\ UNCHANGED stakes /\ stakedHeld <= stakedHeld' /\ UNCHANGED accTokenPerShare
    BY <1>5, <1>t DEF SendStaked, PoolTypeOK, plan, accrual, stakes
  <2> QED BY <2>1, <1>t, UntouchedStakes
<1>6. ASSUME NEW r \in Rates, NEW e \in 1..MaxBlock, UpdateRewardPerBlockAndEndBlock(r, e)
      PROVE  StakesInv'
  <2>1. /\ UpdatePool \/ UNCHANGED accrual
        /\ endBlock' = e /\ rewardPerBlock' = r
        /\ UNCHANGED <<block, stakes, paused, lp, looks, funded>>
    BY <1>6 DEF UpdateRewardPerBlockAndEndBlock
  <2>2. accTokenPerShare' \in Nat /\ accTokenPerShare <= accTokenPerShare' /\ lastRewardBlock' \in Nat
    BY <2>1, <1>t, UpdatePoolTypes DEF accrual, PoolTypeOK
  <2>3. PoolTypeOK' /\ stakedHeld <= stakedHeld'
    BY <2>1, <2>2, <1>t, PoolAssumption DEF PoolTypeOK, stakes, lp
  <2> QED BY <2>1, <2>2, <2>3, UntouchedStakes
<1>7. CASE TreasuryNext
  <2>1. PoolTypeOK' /\ UNCHANGED <<accrual, stakes, lp>>
    <3>1. CASE Pause \/ Unpause
      BY <3>1, <1>t DEF Pause, Unpause, PoolTypeOK, plan, accrual, stakes, lp
    <3>2. ASSUME NEW n \in Fundings, Fund(n)
          PROVE  PoolTypeOK' /\ UNCHANGED <<accrual, stakes, lp>>
      BY <3>2, <1>t, PoolAssumption DEF Fund, PoolTypeOK, plan, accrual, stakes, lp
    <3>3. ASSUME NEW n \in Fundings, AdminRewardWithdraw(n)
          PROVE  PoolTypeOK' /\ UNCHANGED <<accrual, stakes, lp>>
      BY <3>3, <1>t, PoolAssumption
         DEF AdminRewardWithdraw, PayLooks, PoolTypeOK, plan, accrual, stakes, lp
    <3> QED BY <1>7, <3>1, <3>2, <3>3 DEF TreasuryNext
  <2> QED BY <2>1, <1>t, UntouchedStakes DEF accrual, lp
<1>8. CASE NextBlock
  <2>1. PoolTypeOK' /\ UNCHANGED <<accrual, stakes, lp>>
    BY <1>8, <1>t DEF NextBlock, PoolTypeOK, plan, accrual, stakes, lp
  <2> QED BY <2>1, <1>t, UntouchedStakes DEF accrual, lp
<1>9. CASE UNCHANGED poolVars
  <2>1. PoolTypeOK' /\ UNCHANGED <<accrual, stakes, lp>>
    BY <1>9, <1>t DEF poolVars, PoolTypeOK, plan, accrual, stakes, lp
  <2> QED BY <2>1, <1>t, UntouchedStakes DEF accrual, lp
<1> QED BY <1>1, <1>2, <1>3, <1>4, <1>5, <1>6, <1>7, <1>8, <1>9
        DEF PoolNext, StakerNext, Replan

\* The LP tokens of every account are in the pool and its pending reward can
\* be computed, whatever mix of deposits, withdrawals, emergencies, transfers
\* by mistake and new plans came before: no stake is ever locked.
THEOREM PoolStakesSafe == PoolSpec => [](PoolTypeOK /\ StakesSound)
<1>1. StakesInv => PoolTypeOK /\ StakesSound
  BY DEF StakesInv, StakesSound
<1> QED BY <1>1, StakesStart, StakesStep, PTL DEF PoolSpec
-----------------------------------------------------------------------------
(* The budget *)

\* What v would be owed at an accumulator of a.
OwedAt(v, a) == amount[v] * a - PRECISION_FACTOR * rewardDebt[v]

TotalOwed == SumOver([v \in User |-> Owed(v)], User)

TotalOwedAt(a) == SumOver([v \in User |-> OwedAt(v, a)], User)

\* The reward that can be taken is a whole number of units of what is owed.
LEMMA OwedNat ==
  ASSUME StakesInv, NEW v \in User, NEW a \in Nat, accTokenPerShare <= a
  PROVE  /\ OwedAt(v, a) \in Nat
         /\ Pending(v, a) \in Nat
         /\ PRECISION_FACTOR * Pending(v, a) <= OwedAt(v, a)
<1>1. /\ amount[v] \in Nat /\ rewardDebt[v] \in Nat /\ accTokenPerShare \in Nat
      /\ PRECISION_FACTOR \in Nat \ {0}
      /\ Pending(v, accTokenPerShare) >= 0
  BY PoolAssumption DEF StakesInv, PoolTypeOK, DebtCovered
<1>2. Pending(v, a) \in Int /\ Pending(v, a) >= 0
  BY <1>1, PendingGrows DEF StakesInv
<1> DEFINE x == amount[v] * a
           q == x \div PRECISION_FACTOR
           d == rewardDebt[v]
<1>3. x \in Nat
  BY <1>1, MulNat
<1>4. Pending(v, a) = q - d /\ OwedAt(v, a) = x - PRECISION_FACTOR * d
  BY DEF Pending, OwedAt
<1> HIDE DEF x
<1>5. q \in Nat /\ PRECISION_FACTOR * q <= x
  BY <1>1, <1>3, DivNat, DivBounds
<1> HIDE DEF q
<1>6. d \in Nat /\ d <= q
  BY <1>1, <1>2, <1>4, <1>5
<1>7. /\ PRECISION_FACTOR * d <= PRECISION_FACTOR * q
      /\ PRECISION_FACTOR * d \in Nat /\ PRECISION_FACTOR * q \in Nat
  BY <1>1, <1>5, <1>6, MulMonotone, MulNat
<1>8. PRECISION_FACTOR * (q - d) = PRECISION_FACTOR * q - PRECISION_FACTOR * d
  BY <1>1, <1>5, <1>6
<1> QED BY <1>2, <1>3, <1>4, <1>5, <1>7, <1>8

\* What is owed, in types.
LEMMA OwedTypes ==
  ASSUME StakesInv
  PROVE  /\ [v \in User |-> Owed(v)] \in [User -> Nat]
         /\ TotalOwed \in Nat
         /\ \A a \in Nat : accTokenPerShare <= a =>
              [v \in User |-> OwedAt(v, a)] \in [User -> Nat] /\ TotalOwedAt(a) \in Nat
<1>1. accTokenPerShare \in Nat /\ IsFiniteSet(User)
  BY PoolAssumption DEF StakesInv, PoolTypeOK
<1>2. ASSUME NEW a \in Nat, accTokenPerShare <= a
      PROVE  [v \in User |-> OwedAt(v, a)] \in [User -> Nat] /\ TotalOwedAt(a) \in Nat
  <2> DEFINE f == [v \in User |-> OwedAt(v, a)]
  <2>1. f \in [User -> Nat]
    BY <1>2, OwedNat
  <2>2. TotalOwedAt(a) = SumOver(f, User)
    BY DEF TotalOwedAt
  <2> HIDE DEF f
  <2> QED BY <2>1, <2>2, <1>1, UnitsFinite DEF f
<1>3. \A v \in User : Owed(v) = OwedAt(v, accTokenPerShare)
  BY DEF Owed, OwedAt
<1>4. [v \in User |-> Owed(v)] = [v \in User |-> OwedAt(v, accTokenPerShare)]
  BY <1>3
<1>5. accTokenPerShare <= accTokenPerShare
  BY <1>1
<1> QED BY <1>1, <1>2, <1>4, <1>5 DEF TotalOwed, TotalOwedAt

\* An update gives the users no more than the reward it credits.
LEMMA UpdateOwed ==
  ASSUME StakesInv, UpdatePool
  PROVE  /\ TokenReward \in Nat
         /\ TotalOwedAt(accTokenPerShare') <= TotalOwed + PRECISION_FACTOR * TokenReward
<1>1. /\ PoolTypeOK /\ IsFiniteSet(User) /\ PRECISION_FACTOR \in Nat \ {0}
      /\ amount \in [User -> Nat] /\ rewardDebt \in [User -> Nat] /\ stakedHeld \in Nat
      /\ accTokenPerShare \in Nat
      /\ SumOver(amount, User) <= stakedHeld
  BY PoolAssumption DEF StakesInv, PoolTypeOK, StakesHeld
<1>2. accTokenPerShare' \in Nat /\ accTokenPerShare <= accTokenPerShare'
  BY <1>1, UpdatePoolTypes
<1>3. PICK d \in Nat : accTokenPerShare' = accTokenPerShare + d
  <2>1. \A a \in Nat, b \in Nat : a <= b => \E d \in Nat : b = a + d
    <3> SUFFICES ASSUME NEW a \in Nat, NEW b \in Nat, a <= b PROVE b - a \in Nat /\ b = a + (b - a)
      OBVIOUS
    <3> QED OBVIOUS
  <2> QED BY <2>1, <1>1, <1>2
<1> DEFINE f == [v \in User |-> Owed(v)]
           g == [v \in User |-> d * amount[v]]
           h == [v \in User |-> OwedAt(v, accTokenPerShare')]
<1>4. /\ f \in [User -> Nat] /\ h \in [User -> Nat]
      /\ TotalOwed = SumOver(f, User) /\ TotalOwedAt(accTokenPerShare') = SumOver(h, User)
      /\ TotalOwed \in Nat /\ TotalOwedAt(accTokenPerShare') \in Nat
  BY <1>2, OwedTypes DEF TotalOwed, TotalOwedAt
<1>5. TokenReward \in Nat /\ d * stakedHeld <= PRECISION_FACTOR * TokenReward
  <2>1. CASE RewardsDue
    <3>1. Multiplier \in Nat /\ rewardPerBlock \in Nat
      BY <2>1, <1>1 DEF PoolTypeOK, RewardsDue, Multiplier
    <3>2. TokenReward \in Nat
      BY <2>1, <3>1, MulNat DEF TokenReward
    <3> DEFINE t == TokenReward * PRECISION_FACTOR
    <3>3. t \in Nat /\ t = PRECISION_FACTOR * TokenReward
      <4>1. \A r \in Nat : r * PRECISION_FACTOR = PRECISION_FACTOR * r /\ r * PRECISION_FACTOR \in Nat
        BY <1>1, MulNat
      <4> QED BY <4>1, <3>2
    <3>4. stakedHeld \in Nat \ {0}
      BY <2>1, <1>1 DEF RewardsDue
    <3>5. accTokenPerShare' = accTokenPerShare + (t \div stakedHeld)
      BY <2>1 DEF UpdatePool, AdjustedTokenPerShare
    <3> HIDE DEF t
    <3>6. t \div stakedHeld \in Nat /\ stakedHeld * (t \div stakedHeld) <= t
      BY <3>3, <3>4, DivNat, DivBounds
    <3>7. d = t \div stakedHeld
      <4> DEFINE q == t \div stakedHeld
      <4>1. q \in Nat /\ accTokenPerShare' = accTokenPerShare + q
        BY <3>5, <3>6
      <4> HIDE DEF q
      <4>2. d = q
        BY <4>1, <1>1, <1>3
      <4> QED BY <4>2 DEF q
    <3>8. d * stakedHeld = stakedHeld * d
      BY <1>3, <1>1
    <3> QED BY <3>2, <3>3, <3>6, <3>7, <3>8
  <2>2. CASE ~RewardsDue
    <3>1. TokenReward = 0 /\ accTokenPerShare' = accTokenPerShare
      BY <2>2 DEF TokenReward, UpdatePool, AdjustedTokenPerShare
    <3>2. d = 0
      BY <3>1, <1>1, <1>3
    <3> QED BY <3>1, <3>2, <1>1
  <2> QED BY <2>1, <2>2
<1>6. g \in [User -> Nat]
  <2>1. \A v \in User : d * amount[v] \in Nat
    BY <1>1, <1>3, MulNat
  <2> QED BY <2>1
<1>7. \A v \in User : h[v] = f[v] + g[v]
  <2> TAKE v \in User
  <2>1. amount[v] \in Nat /\ rewardDebt[v] \in Nat
    BY <1>1
  <2>2. amount[v] * (accTokenPerShare + d) = amount[v] * accTokenPerShare + d * amount[v]
    BY <2>1, <1>1, <1>3
  <2>3. /\ PRECISION_FACTOR * rewardDebt[v] \in Nat /\ amount[v] * accTokenPerShare \in Nat
        /\ d * amount[v] \in Nat
    BY <2>1, <1>1, <1>3, MulNat
  <2> QED BY <2>2, <2>3, <1>3 DEF Owed, OwedAt
<1>8. SumOver(g, User) <= d * SumOver(amount, User) /\ SumOver(g, User) \in Nat
      /\ SumOver(amount, User) \in Nat
  <2>1. SumOver(g, User) \in Nat /\ SumOver(amount, User) \in Nat
    BY <1>1, <1>6, UnitsFinite
  <2>2. \A v \in User : 1 * g[v] <= d * amount[v]
    BY <1>1, <1>3, MulNat
  <2> HIDE DEF g
  <2>3. 1 * SumOver(g, User) <= d * SumOver(amount, User)
    BY <2>2, <1>1, <1>3, <1>6, SumBound
  <2> QED BY <2>1, <2>3
<1> HIDE DEF f, g, h
<1>9. SumOver(h, User) = SumOver(f, User) + SumOver(g, User)
  BY <1>1, <1>4, <1>6, <1>7, SumAdd
<1>10. d * SumOver(amount, User) <= d * stakedHeld /\ d * SumOver(amount, User) \in Nat
       /\ d * stakedHeld \in Nat /\ PRECISION_FACTOR * TokenReward \in Nat
  BY <1>1, <1>3, <1>5, <1>8, MulMonotone, MulNat
<1> QED BY <1>4, <1>5, <1>8, <1>9, <1>10

\* A settlement turns what u is owed into the reward it is paid, and leaves
\* less than one unit.
LEMMA SettledOwed ==
  ASSUME StakesInv, UpdatePool, NEW u \in User, NEW m \in Nat, Settle(u, m),
         NEW x \in Nat, PRECISION_FACTOR * x <= OwedAt(u, accTokenPerShare')
  PROVE  /\ TotalOwed' \in Nat
         /\ PRECISION_FACTOR * x + TotalOwed'
              <= TotalOwedAt(accTokenPerShare') + (PRECISION_FACTOR - 1)
<1>1. /\ PoolTypeOK /\ IsFiniteSet(User) /\ PRECISION_FACTOR \in Nat \ {0}
      /\ amount \in [User -> Nat] /\ rewardDebt \in [User -> Nat]
  BY PoolAssumption DEF StakesInv, PoolTypeOK
<1> DEFINE acc == accTokenPerShare'
           e == (m * acc) \div PRECISION_FACTOR
           f == [v \in User |-> OwedAt(v, acc)]
           g == [v \in User |-> Owed(v)']
<1>2. acc \in Nat /\ accTokenPerShare <= acc
  BY <1>1, UpdatePoolTypes
<1>3. f \in [User -> Nat] /\ TotalOwedAt(acc) = SumOver(f, User)
  BY <1>2, OwedTypes DEF TotalOwedAt
<1>4. TotalOwed' = SumOver(g, User)
  BY DEF TotalOwed
<1>5. /\ amount'[u] = m /\ rewardDebt'[u] = e
      /\ \A v \in User \ {u} : amount'[v] = amount[v] /\ rewardDebt'[v] = rewardDebt[v]
  BY <1>1 DEF Settle
<1>6. /\ g[u] = m * acc - PRECISION_FACTOR * e
      /\ \A v \in User \ {u} : g[v] = f[v]
  BY <1>5 DEF Owed, OwedAt
<1>7. g[u] \in Nat /\ g[u] <= PRECISION_FACTOR - 1
  <2> DEFINE y == m * acc
  <2>1. y \in Nat
    BY <1>2, MulNat
  <2> HIDE DEF y
  <2>2. y \div PRECISION_FACTOR \in Nat
        /\ PRECISION_FACTOR * (y \div PRECISION_FACTOR) <= y
        /\ y < PRECISION_FACTOR * (y \div PRECISION_FACTOR + 1)
    BY <2>1, <1>1, DivNat, DivBounds
  <2> DEFINE q == y \div PRECISION_FACTOR
  <2>3. g[u] = y - PRECISION_FACTOR * q
    BY <1>6 DEF y
  <2> HIDE DEF q, g
  <2>4. /\ q \in Nat /\ PRECISION_FACTOR * q <= y /\ y < PRECISION_FACTOR * (q + 1)
    BY <2>2 DEF q
  <2>5. PRECISION_FACTOR * (q + 1) = PRECISION_FACTOR * q + PRECISION_FACTOR
        /\ PRECISION_FACTOR * q \in Nat
    BY <2>4, <1>1
  <2> QED BY <2>1, <2>3, <2>4, <2>5, <1>1
<1>8. g \in [User -> Nat]
  <2>1. \A v \in User : g[v] \in Nat
    BY <1>3, <1>6, <1>7
  <2> QED BY <2>1
<1>9. f[u] = OwedAt(u, acc)
  OBVIOUS
<1> HIDE DEF f, g, e
<1>10. SumOver(g, User) = SumOver(f, User) - f[u] + g[u]
       /\ SumOver(g, User) \in Nat /\ SumOver(f, User) \in Nat
  BY <1>1, <1>3, <1>6, <1>8, SumUpdate, UnitsFinite
<1>11. PRECISION_FACTOR * x \in Nat
  BY <1>1, MulNat
<1>12. f[u] \in Nat
  BY <1>3
<1> QED BY <1>1, <1>3, <1>4, <1>7, <1>9, <1>10, <1>11, <1>12

\* The invariant of the budget.
BudgetInv ==
  /\ StakesInv
  /\ credited \in Nat
  /\ paid \in Nat
  /\ settlements \in Nat
  /\ PaidOutOfCredited

\* An update credits at least what it gives.
LEMMA CreditOwed ==
  ASSUME StakesInv, UpdatePool, Credit, credited \in Nat
  PROVE  /\ credited' \in Nat
         /\ TotalOwedAt(accTokenPerShare') + PRECISION_FACTOR * credited
              <= TotalOwed + PRECISION_FACTOR * credited'
<1>1. /\ TokenReward \in Nat
      /\ TotalOwedAt(accTokenPerShare') <= TotalOwed + PRECISION_FACTOR * TokenReward
  BY UpdateOwed
<1>2. PRECISION_FACTOR \in Nat \ {0} /\ PoolTypeOK
  BY PoolAssumption DEF StakesInv
<1>3. accTokenPerShare' \in Nat /\ accTokenPerShare <= accTokenPerShare'
  BY <1>2, UpdatePoolTypes
<1>4. TotalOwed \in Nat /\ TotalOwedAt(accTokenPerShare') \in Nat
  BY <1>3, OwedTypes
<1>5. CASE Updates
  <2>1. credited' = credited + TokenReward
    BY <1>5 DEF Credit
  <2>2. \A c \in Nat, t \in Nat : PRECISION_FACTOR * (c + t) = PRECISION_FACTOR * c + PRECISION_FACTOR * t
    BY <1>2
  <2>3. PRECISION_FACTOR * credited' = PRECISION_FACTOR * credited + PRECISION_FACTOR * TokenReward
    BY <2>1, <2>2, <1>1
  <2>4. PRECISION_FACTOR * credited \in Nat /\ PRECISION_FACTOR * TokenReward \in Nat
    BY <1>1, <1>2, MulNat
  <2> QED BY <2>1, <2>3, <2>4, <1>1, <1>4
<1>6. CASE ~Updates
  <2>1. credited' = credited /\ accTokenPerShare' = accTokenPerShare
    BY <1>6 DEF Credit, Updates
  <2>2. TotalOwedAt(accTokenPerShare') = TotalOwed
    BY <2>1 DEF TotalOwedAt, TotalOwed, OwedAt, Owed
  <2>3. PRECISION_FACTOR * credited \in Nat
    BY <1>2, MulNat
  <2> QED BY <2>1, <2>2, <2>3, <1>4
<1> QED BY <1>5, <1>6

\* A transaction that brings the pool up to date and pays u a reward of x.
LEMMA SettledBudget ==
  ASSUME BudgetInv, StakesInv', UpdatePool, Credit,
         NEW u \in User, NEW m \in Nat, Settle(u, m),
         NEW x \in Nat, PRECISION_FACTOR * x <= OwedAt(u, accTokenPerShare'),
         paid' = paid + x, settlements' = settlements + 1
  PROVE  BudgetInv'
<1>1. StakesInv /\ credited \in Nat /\ paid \in Nat /\ settlements \in Nat
      /\ PRECISION_FACTOR \in Nat \ {0}
  BY PoolAssumption DEF BudgetInv
<1>2. PRECISION_FACTOR * paid + TotalOwed
        <= PRECISION_FACTOR * credited + (PRECISION_FACTOR - 1) * settlements
  BY DEF BudgetInv, PaidOutOfCredited, TotalOwed
<1>3. /\ credited' \in Nat
      /\ TotalOwedAt(accTokenPerShare') + PRECISION_FACTOR * credited
           <= TotalOwed + PRECISION_FACTOR * credited'
  BY <1>1, CreditOwed
<1>4. /\ TotalOwed' \in Nat
      /\ PRECISION_FACTOR * x + TotalOwed' <= TotalOwedAt(accTokenPerShare') + (PRECISION_FACTOR - 1)
  BY <1>1, SettledOwed
<1>5. TotalOwed \in Nat /\ TotalOwedAt(accTokenPerShare') \in Nat
  <2>1. accTokenPerShare' \in Nat /\ accTokenPerShare <= accTokenPerShare'
    BY <1>1, UpdatePoolTypes DEF StakesInv
  <2> QED BY <1>1, <2>1, OwedTypes
<1>6. /\ PRECISION_FACTOR * (paid + x) = PRECISION_FACTOR * paid + PRECISION_FACTOR * x
      /\ PRECISION_FACTOR * paid \in Nat /\ PRECISION_FACTOR * x \in Nat
  <2>1. \A a \in Nat, b \in Nat : PRECISION_FACTOR * (a + b) = PRECISION_FACTOR * a + PRECISION_FACTOR * b
    BY <1>1
  <2> QED BY <2>1, <1>1, MulNat
<1>7. /\ (PRECISION_FACTOR - 1) * (settlements + 1)
           = (PRECISION_FACTOR - 1) * settlements + (PRECISION_FACTOR - 1)
      /\ (PRECISION_FACTOR - 1) * settlements \in Nat
  <2>1. \A a \in Nat, b \in Nat : a * (b + 1) = a * b + a /\ a * b \in Nat
    OBVIOUS
  <2>2. PRECISION_FACTOR - 1 \in Nat
    BY <1>1
  <2> QED BY <2>1, <2>2, <1>1
<1>8. PRECISION_FACTOR * credited \in Nat /\ PRECISION_FACTOR * credited' \in Nat
  BY <1>1, <1>3, MulNat
<1>9. PaidOutOfCredited'
  <2>1. PRECISION_FACTOR * (paid + x) + TotalOwed'
          <= PRECISION_FACTOR * credited' + (PRECISION_FACTOR - 1) * (settlements + 1)
    <3> DEFINE a == PRECISION_FACTOR * paid
               b == PRECISION_FACTOR * x
               c == PRECISION_FACTOR * credited
               d == PRECISION_FACTOR * credited'
               e == (PRECISION_FACTOR - 1) * settlements
               s == TotalOwedAt(accTokenPerShare')
               t == TotalOwed
               w == TotalOwed'
    <3>1. /\ a \in Nat /\ b \in Nat /\ c \in Nat /\ d \in Nat /\ e \in Nat
          /\ s \in Nat /\ t \in Nat /\ w \in Nat
      BY <1>4, <1>5, <1>6, <1>7, <1>8
    <3>2. /\ a + t <= c + e
          /\ s + c <= t + d
          /\ b + w <= s + (PRECISION_FACTOR - 1)
      BY <1>2, <1>3, <1>4
    <3>3. /\ PRECISION_FACTOR * (paid + x) = a + b
          /\ (PRECISION_FACTOR - 1) * (settlements + 1) = e + (PRECISION_FACTOR - 1)
      BY <1>6, <1>7
    <3> HIDE DEF a, b, c, d, e, s, t, w
    <3>4. PRECISION_FACTOR - 1 \in Nat
      BY <1>1
    <3>5. (a + b) + w <= d + (e + (PRECISION_FACTOR - 1))
      BY <3>1, <3>2, <3>4
    <3> QED BY <3>3, <3>5 DEF d, w
  <2> QED BY <2>1 DEF PaidOutOfCredited, TotalOwed
<1> QED BY <1>1, <1>3, <1>9 DEF BudgetInv

\* A transaction that pays nobody and settles nobody, up to date or not.
LEMMA UnsettledBudget ==
  ASSUME BudgetInv, StakesInv', UNCHANGED <<stakes, paid, settlements>>,
         \/ UpdatePool /\ Credit
         \/ UNCHANGED <<accTokenPerShare, credited>>
  PROVE  BudgetInv'
<1>1. StakesInv /\ credited \in Nat /\ paid \in Nat /\ settlements \in Nat
      /\ PRECISION_FACTOR \in Nat \ {0}
      /\ UNCHANGED <<amount, rewardDebt, paid, settlements>>
  BY PoolAssumption DEF BudgetInv, stakes
<1>2. PRECISION_FACTOR * paid + TotalOwed
        <= PRECISION_FACTOR * credited + (PRECISION_FACTOR - 1) * settlements
  BY DEF BudgetInv, PaidOutOfCredited, TotalOwed
<1>3. TotalOwed' = TotalOwedAt(accTokenPerShare')
  BY <1>1 DEF TotalOwed, TotalOwedAt, Owed, OwedAt
<1>4. /\ credited' \in Nat
      /\ TotalOwed' + PRECISION_FACTOR * credited <= TotalOwed + PRECISION_FACTOR * credited'
      /\ TotalOwed' \in Nat /\ TotalOwed \in Nat
  <2>1. CASE UpdatePool /\ Credit
    <3>1. accTokenPerShare' \in Nat /\ accTokenPerShare <= accTokenPerShare'
      BY <2>1, <1>1, UpdatePoolTypes DEF StakesInv
    <3> QED BY <2>1, <3>1, <1>1, <1>3, CreditOwed, OwedTypes
  <2>2. CASE UNCHANGED <<accTokenPerShare, credited>>
    <3>1. TotalOwed' = TotalOwed
      BY <2>2, <1>1 DEF TotalOwed, Owed
    <3>2. TotalOwed \in Nat /\ PRECISION_FACTOR * credited \in Nat
      BY <1>1, OwedTypes, MulNat
    <3> QED BY <2>2, <3>1, <3>2, <1>1
  <2> QED BY <2>1, <2>2
<1>5. /\ PRECISION_FACTOR * credited \in Nat /\ PRECISION_FACTOR * credited' \in Nat
      /\ PRECISION_FACTOR * paid \in Nat /\ (PRECISION_FACTOR - 1) * settlements \in Nat
  <2>1. PRECISION_FACTOR - 1 \in Nat
    BY <1>1
  <2> QED BY <2>1, <1>1, <1>4, MulNat
<1>6. PaidOutOfCredited'
  <2>1. PRECISION_FACTOR * paid + TotalOwed'
          <= PRECISION_FACTOR * credited' + (PRECISION_FACTOR - 1) * settlements
    BY <1>2, <1>4, <1>5
  <2> QED BY <2>1, <1>1 DEF PaidOutOfCredited, TotalOwed
<1> QED BY <1>1, <1>4, <1>6 DEF BudgetInv

\* An emergency gives up what u is owed.
LEMMA EmergencyBudget ==
  ASSUME BudgetInv, StakesInv', NEW u \in User, EmergencyWithdraw(u),
         UNCHANGED <<credited, paid>>, settlements' = settlements + 1
  PROVE  BudgetInv'
<1>1. /\ StakesInv /\ credited \in Nat /\ paid \in Nat /\ settlements \in Nat
      /\ PRECISION_FACTOR \in Nat \ {0} /\ IsFiniteSet(User)
      /\ amount \in [User -> Nat] /\ rewardDebt \in [User -> Nat] /\ accTokenPerShare \in Nat
  BY PoolAssumption DEF BudgetInv, StakesInv, PoolTypeOK
<1>2. PRECISION_FACTOR * paid + TotalOwed
        <= PRECISION_FACTOR * credited + (PRECISION_FACTOR - 1) * settlements
  BY DEF BudgetInv, PaidOutOfCredited, TotalOwed
<1>3. /\ amount'[u] = 0 /\ rewardDebt'[u] = 0 /\ accTokenPerShare' = accTokenPerShare
      /\ \A v \in User \ {u} : amount'[v] = amount[v] /\ rewardDebt'[v] = rewardDebt[v]
  BY <1>1 DEF EmergencyWithdraw, accrual
<1> DEFINE f == [v \in User |-> Owed(v)]
           g == [v \in User |-> Owed(v)']
<1>4. f \in [User -> Nat] /\ TotalOwed = SumOver(f, User) /\ TotalOwed' = SumOver(g, User)
  BY <1>1, OwedTypes DEF TotalOwed
<1>5. g[u] = 0 /\ \A v \in User \ {u} : g[v] = f[v]
  BY <1>1, <1>3 DEF Owed
<1>6. g \in [User -> Nat]
  <2>1. \A v \in User : g[v] \in Nat
    BY <1>4, <1>5
  <2> QED BY <2>1
<1> HIDE DEF f, g
<1>7. TotalOwed' = TotalOwed - f[u] + g[u] /\ TotalOwed \in Nat /\ TotalOwed' \in Nat
  BY <1>1, <1>4, <1>5, <1>6, SumUpdate, UnitsFinite
<1>8. TotalOwed' <= TotalOwed
  <2>1. f[u] \in Nat
    BY <1>4
  <2> QED BY <2>1, <1>5, <1>7
<1> DEFINE a == PRECISION_FACTOR * paid
           c == PRECISION_FACTOR * credited
           e == (PRECISION_FACTOR - 1) * settlements
<1>9. (PRECISION_FACTOR - 1) * (settlements + 1) = e + (PRECISION_FACTOR - 1)
  <2>1. \A x \in Nat, y \in Nat : x * (y + 1) = x * y + x
    OBVIOUS
  <2>2. PRECISION_FACTOR - 1 \in Nat
    BY <1>1
  <2> QED BY <2>1, <2>2, <1>1
<1>10. a \in Nat /\ c \in Nat /\ e \in Nat /\ PRECISION_FACTOR - 1 \in Nat
  <2>1. PRECISION_FACTOR - 1 \in Nat
    BY <1>1
  <2> QED BY <2>1, <1>1, MulNat
<1>11. a + TotalOwed <= c + e
  BY <1>2
<1>12. PaidOutOfCredited'
  <2> HIDE DEF a, c, e
  <2>1. a + TotalOwed' <= c + (e + (PRECISION_FACTOR - 1))
    BY <1>7, <1>8, <1>10, <1>11
  <2>2. PRECISION_FACTOR * paid + TotalOwed'
          <= PRECISION_FACTOR * credited + (PRECISION_FACTOR - 1) * (settlements + 1)
    BY <2>1, <1>9 DEF a, c, e
  <2> QED BY <2>2 DEF PaidOutOfCredited, TotalOwed
<1> QED BY <1>1, <1>12 DEF BudgetInv

\* The steps of the budget are steps of the pool.
LEMMA BudgetPoolStep ==
  ASSUME StakesInv, [BudgetNext]_budgetVars
  PROVE  StakesInv'
<1>1. [PoolNext]_poolVars
  BY DEF BudgetNext, budgetVars, GrantBlock, CountedStakerNext, CountedReplan, UncountedNext, PoolNext
<1> QED BY <1>1, StakesStep

\* Every transaction of a user keeps the budget.
LEMMA StakerBudget ==
  ASSUME BudgetInv, StakesInv', CountedStakerNext
  PROVE  BudgetInv'
<1>1. /\ Credit /\ paid' = paid + looks - looks'
      /\ settlements' = IF stakes' = stakes THEN settlements ELSE settlements + 1
  BY DEF CountedStakerNext
<1>2. /\ StakesInv /\ credited \in Nat /\ paid \in Nat /\ settlements \in Nat
      /\ amount \in [User -> Nat] /\ wallet \in [User -> Nat] /\ looks \in Nat /\ PoolTypeOK
  BY DEF BudgetInv, StakesInv, PoolTypeOK
<1>s. ASSUME NEW u \in User, NEW m \in Nat, NEW x \in Nat, UpdatePool, Settle(u, m), PayLooks(x),
             PRECISION_FACTOR * x <= OwedAt(u, accTokenPerShare'),
             m # amount[u] \/ (x = Pending(u, accTokenPerShare') /\ x > 0)
      PROVE  BudgetInv'
  <2>1. paid' = paid + x
    <3>1. looks' = looks - x
      BY <1>s DEF PayLooks
    <3> QED BY <3>1, <1>1, <1>2
  <2>2. stakes' # stakes
    <3>1. CASE m # amount[u]
      <4>1. amount'[u] = m
        BY <1>s, <1>2 DEF Settle
      <4> QED BY <3>1, <4>1 DEF stakes
    <3>2. CASE m = amount[u]
      <4>1. x = (amount[u] * accTokenPerShare') \div PRECISION_FACTOR - rewardDebt[u] /\ x > 0
        BY <3>2, <1>s DEF Pending
      <4>2. rewardDebt \in [User -> Nat]
        BY <1>2 DEF PoolTypeOK
      <4>3. rewardDebt'[u] = (amount[u] * accTokenPerShare') \div PRECISION_FACTOR
        BY <1>s, <3>2, <4>2 DEF Settle
      <4>4. rewardDebt'[u] \in Nat /\ rewardDebt[u] \in Nat
        BY <4>2 DEF StakesInv, PoolTypeOK
      <4>5. x = rewardDebt'[u] - rewardDebt[u]
        BY <4>1, <4>3
      <4>6. rewardDebt'[u] # rewardDebt[u]
        BY <4>1, <4>4, <4>5
      <4> QED BY <4>6 DEF stakes
    <3> QED BY <3>1, <3>2
  <2>3. settlements' = settlements + 1
    BY <1>1, <2>2
  <2> QED BY <2>1, <2>3, <1>1, <1>s, SettledBudget
<1>o. ASSUME NEW u \in User, UpdatePool
      PROVE  /\ Pending(u, accTokenPerShare') \in Nat
             /\ PRECISION_FACTOR * Pending(u, accTokenPerShare') <= OwedAt(u, accTokenPerShare')
             /\ OwedAt(u, accTokenPerShare') \in Nat
  <2>1. accTokenPerShare' \in Nat /\ accTokenPerShare <= accTokenPerShare'
    BY <1>o, <1>2, UpdatePoolTypes
  <2> QED BY <2>1, <1>2, OwedNat
<1>3. ASSUME NEW u \in User, NEW n \in 1..wallet[u], Deposit(u, n) PROVE BudgetInv'
  <2>1. /\ UpdatePool /\ Settle(u, amount[u] + n)
        /\ PayLooks(IF amount[u] > 0 THEN Pending(u, accTokenPerShare') ELSE 0)
    BY <1>3 DEF Deposit
  <2>2. amount[u] + n \in Nat /\ amount[u] + n # amount[u]
    BY <1>2, <1>3
  <2>3. PICK x \in Nat : PayLooks(x) /\ PRECISION_FACTOR * x <= OwedAt(u, accTokenPerShare')
    <3>1. CASE amount[u] > 0
      BY <2>1, <3>1, <1>o
    <3>2. CASE ~(amount[u] > 0)
      <4>1. PayLooks(0)
        BY <2>1, <3>2
      <4>2. PRECISION_FACTOR * 0 = 0 /\ OwedAt(u, accTokenPerShare') \in Nat
        BY <2>1, <1>o, PoolAssumption
      <4>3. PRECISION_FACTOR * 0 <= OwedAt(u, accTokenPerShare')
        BY <4>2
      <4> QED BY <4>1, <4>3
    <3> QED BY <3>1, <3>2
  <2> QED BY <2>1, <2>2, <2>3, <1>s
<1>4. ASSUME NEW u \in User, Harvest(u) PROVE BudgetInv'
  <2>1. /\ UpdatePool /\ Settle(u, amount[u]) /\ PayLooks(Pending(u, accTokenPerShare'))
        /\ Pending(u, accTokenPerShare') > 0
    BY <1>4 DEF Harvest
  <2>2. amount[u] \in Nat
    BY <1>2
  <2> DEFINE x == Pending(u, accTokenPerShare')
  <2>3. x \in Nat /\ PayLooks(x) /\ PRECISION_FACTOR * x <= OwedAt(u, accTokenPerShare') /\ x > 0
        /\ x = Pending(u, accTokenPerShare')
    BY <2>1, <1>o
  <2> HIDE DEF x
  <2> QED BY <2>1, <2>2, <2>3, <1>s
<1>5. ASSUME NEW u \in User, NEW n \in 1..stakedHeld, Withdraw(u, n) PROVE BudgetInv'
  <2>1. /\ UpdatePool /\ Settle(u, amount[u] - n) /\ PayLooks(Pending(u, accTokenPerShare'))
        /\ n <= amount[u]
    BY <1>5 DEF Withdraw
  <2>2. amount[u] - n \in Nat /\ amount[u] - n # amount[u]
    BY <2>1, <1>2, <1>5
  <2> DEFINE x == Pending(u, accTokenPerShare')
  <2>3. x \in Nat /\ PayLooks(x) /\ PRECISION_FACTOR * x <= OwedAt(u, accTokenPerShare')
    BY <2>1, <1>o
  <2> HIDE DEF x
  <2> QED BY <2>1, <2>2, <2>3, <1>s
<1>6. ASSUME NEW u \in User, EmergencyWithdraw(u) PROVE BudgetInv'
  <2>1. UNCHANGED <<accTokenPerShare, lastRewardBlock, looks>> /\ amount[u] # 0
        /\ amount' = [amount EXCEPT ![u] = 0]
    BY <1>6 DEF EmergencyWithdraw, accrual
  <2>2. credited' = credited
    BY <2>1, <1>1 DEF Credit, Updates
  <2>3. paid' = paid
    BY <2>1, <1>1, <1>2
  <2>4. amount'[u] = 0
    BY <2>1, <1>2
  <2>5. stakes' # stakes
    BY <2>1, <2>4 DEF stakes
  <2>6. settlements' = settlements + 1
    BY <2>5, <1>1
  <2> QED BY <1>6, <2>2, <2>3, <2>6, EmergencyBudget
<1>7. ASSUME NEW u \in User, NEW n \in 1..wallet[u], SendStaked(u, n) PROVE BudgetInv'
  <2>1. UNCHANGED <<accTokenPerShare, lastRewardBlock, looks, stakes>>
    BY <1>7 DEF SendStaked, accrual
  <2>2. credited' = credited /\ settlements' = settlements
    BY <2>1, <1>1 DEF Credit, Updates
  <2>3. paid' = paid
    BY <2>1, <1>1, <1>2
  <2> QED BY <2>1, <2>2, <2>3, UnsettledBudget
<1> QED BY <1>3, <1>4, <1>5, <1>6, <1>7 DEF CountedStakerNext, StakerNext

\* No order of deposits, harvests, withdrawals and emergencies pays a reward
\* twice: what users were paid and are owed comes out of the rewards the
\* updates credited, whatever the owner plans and whenever it plans it, but
\* for less than one unit per settlement.
THEOREM PaidOnce == BudgetSpec => []PaidOutOfCredited
<1>1. BudgetInit => BudgetInv
  <2> SUFFICES ASSUME BudgetInit PROVE BudgetInv
    OBVIOUS
  <2>1. StakesInv /\ credited = 0 /\ paid = 0 /\ settlements = 0
    BY StakesStart DEF BudgetInit
  <2>2. amount = [u \in User |-> 0] /\ rewardDebt = [u \in User |-> 0] /\ accTokenPerShare = 0
        /\ PRECISION_FACTOR \in Nat \ {0}
    BY PoolAssumption DEF BudgetInit, PoolInit
  <2>3. [u \in User |-> Owed(u)] \in [User -> Nat]
    BY <2>1, OwedTypes
  <2>4. \A u \in User : [v \in User |-> Owed(v)][u] = 0
    BY <2>2 DEF Owed
  <2>5. TotalOwed = 0
    BY <2>3, <2>4, SumZero DEF TotalOwed
  <2>6. PRECISION_FACTOR * 0 + 0 <= PRECISION_FACTOR * 0 + (PRECISION_FACTOR - 1) * 0
    BY <2>2
  <2> QED BY <2>1, <2>5, <2>6 DEF BudgetInv, PaidOutOfCredited, TotalOwed
<1>2. BudgetInv /\ [BudgetNext]_budgetVars => BudgetInv'
  <2> SUFFICES ASSUME BudgetInv, [BudgetNext]_budgetVars PROVE BudgetInv'
    OBVIOUS
  <2>1. StakesInv'
    BY BudgetPoolStep DEF BudgetInv
  <2>2. CASE GrantBlock
    <3>1. UNCHANGED <<stakes, paid, settlements, accTokenPerShare, credited>>
      BY <2>2 DEF GrantBlock, NextBlock, accrual
    <3> QED BY <3>1, <2>1, UnsettledBudget
  <2>3. CASE CountedStakerNext
    BY <2>1, <2>3, StakerBudget
  <2>4. CASE CountedReplan
    <3>1. UNCHANGED <<stakes, paid, settlements>> /\ Credit
          /\ (UpdatePool \/ UNCHANGED <<accTokenPerShare, lastRewardBlock>>)
      BY <2>4 DEF CountedReplan, Replan, UpdateRewardPerBlockAndEndBlock, accrual
    <3>2. UNCHANGED <<accTokenPerShare, lastRewardBlock>> => UNCHANGED credited
      BY <3>1 DEF Credit, Updates
    <3> QED BY <3>1, <3>2, <2>1, UnsettledBudget
  <2>5. CASE UncountedNext
    <3>1. UNCHANGED <<stakes, paid, settlements, accTokenPerShare, credited>>
      BY <2>5 DEF UncountedNext, TreasuryNext, Pause, Unpause, Fund, AdminRewardWithdraw, accrual
    <3> QED BY <3>1, <2>1, UnsettledBudget
  <2>6. CASE UNCHANGED budgetVars
    <3>1. UNCHANGED <<stakes, paid, settlements, accTokenPerShare, credited>>
      BY <2>6 DEF budgetVars, poolVars, accrual
    <3> QED BY <3>1, <2>1, UnsettledBudget
  <2> QED BY <2>2, <2>3, <2>4, <2>5, <2>6 DEF BudgetNext
<1>3. BudgetInv => PaidOutOfCredited
  BY DEF BudgetInv
<1> QED BY <1>1, <1>2, <1>3, PTL DEF BudgetSpec

\* The reward of the blocks since the last update, the ones in which nothing
\* is staked included: a transfer of LP tokens by mistake makes them due.
Due == IF block > lastRewardBlock THEN Multiplier * rewardPerBlock ELSE 0

\* The invariant of the grant: until the first update, no block has passed
\* that rewards had not started in.
GrantInv ==
  /\ StakesInv
  /\ START_BLOCK <= lastRewardBlock
  /\ credited \in Nat
  /\ granted \in Nat
  /\ credited + Due <= granted

\* What an update credits is at most what is due.
LEMMA DueTypes ==
  ASSUME PoolTypeOK
  PROVE  Due \in Nat /\ TokenReward \in Nat /\ TokenReward <= Due
<1>1. CASE block > lastRewardBlock
  <2>1. Multiplier \in Nat /\ rewardPerBlock \in Nat
    BY <1>1 DEF PoolTypeOK, Multiplier
  <2>2. Multiplier * rewardPerBlock \in Nat
    BY <2>1, MulNat
  <2>3. Due = Multiplier * rewardPerBlock
    BY <1>1 DEF Due
  <2>4. TokenReward = 0 \/ TokenReward = Due
    BY <2>3 DEF TokenReward
  <2> HIDE DEF Due
  <2> QED BY <2>2, <2>3, <2>4
<1>2. CASE ~(block > lastRewardBlock)
  BY <1>2 DEF Due, TokenReward, RewardsDue
<1> QED BY <1>1, <1>2

\* An update leaves nothing due, unless the plan changes after its last block.
LEMMA UpdateDue ==
  ASSUME PoolTypeOK, UpdatePool, PoolTypeOK', block' = block,
         UNCHANGED plan \/ lastRewardBlock <= endBlock
  PROVE  Due' = 0 /\ lastRewardBlock <= lastRewardBlock'
<1>1. /\ block \in Nat /\ lastRewardBlock \in Nat /\ endBlock \in Nat /\ rewardPerBlock' \in Nat
      /\ lastRewardBlock' =
           IF block > lastRewardBlock /\ (stakedHeld = 0 \/ lastRewardBlock <= endBlock)
           THEN block ELSE lastRewardBlock
  BY DEF PoolTypeOK, UpdatePool
<1>2. lastRewardBlock <= lastRewardBlock'
  BY <1>1
<1>3. CASE block <= lastRewardBlock'
  BY <1>3, <1>1 DEF Due
<1>4. CASE ~(block <= lastRewardBlock')
  <2>1. lastRewardBlock' = lastRewardBlock /\ endBlock < lastRewardBlock /\ block > lastRewardBlock
    BY <1>1, <1>4
  <2>2. endBlock' = endBlock
    BY <2>1, <1>1 DEF plan
  <2>3. Multiplier' = 0
    BY <2>1, <2>2, <1>1 DEF Multiplier
  <2>4. 0 * rewardPerBlock' = 0
    <3>1. \A r \in Nat : 0 * r = 0
      OBVIOUS
    <3> QED BY <3>1, <1>1, Zenon
  <2>5. Multiplier' * rewardPerBlock' = 0
    BY <2>3, <2>4
  <2>6. Due' = 0
    BY <2>5 DEF Due
  <2> QED BY <2>6, <1>2
<1> QED BY <1>2, <1>3, <1>4

\* A transaction that leaves nothing due keeps the grant.
LEMMA UpdatedGrant ==
  ASSUME GrantInv, StakesInv', UpdatePool, Credit, block' = block, UNCHANGED granted,
         UNCHANGED plan \/ lastRewardBlock <= endBlock
  PROVE  GrantInv'
<1>1. /\ PoolTypeOK /\ PoolTypeOK' /\ credited \in Nat /\ granted \in Nat
      /\ credited + Due <= granted /\ START_BLOCK <= lastRewardBlock
      /\ lastRewardBlock \in Nat /\ lastRewardBlock' \in Nat /\ START_BLOCK \in Nat
  BY PoolAssumption DEF GrantInv, StakesInv, PoolTypeOK
<1>2. Due \in Nat /\ TokenReward \in Nat /\ TokenReward <= Due
  BY <1>1, DueTypes
<1>3. Due' = 0 /\ lastRewardBlock <= lastRewardBlock'
  BY <1>1, UpdateDue
<1>4. credited' = credited \/ credited' = credited + TokenReward
  BY DEF Credit
<1>5. credited' \in Nat /\ credited' <= granted
  BY <1>1, <1>2, <1>4
<1>6. credited' + Due' <= granted'
  <2>1. credited' + 0 <= granted
    <3>1. \A c \in Nat : c + 0 = c
      OBVIOUS
    <3> QED BY <3>1, <1>5, Zenon
  <2>2. granted' = granted
    OBVIOUS
  <2> QED BY <2>1, <2>2, <1>3, Zenon
<1>7. START_BLOCK <= lastRewardBlock'
  BY <1>1, <1>3
<1> QED BY <1>1, <1>5, <1>6, <1>7 DEF GrantInv

\* A step that changes neither the plan nor what is due.
LEMMA UnchangedGrant ==
  ASSUME GrantInv, StakesInv', UNCHANGED <<block, plan, accrual, credited, granted>>
  PROVE  GrantInv'
<1>1. UNCHANGED <<block, endBlock, rewardPerBlock, lastRewardBlock, credited, granted>>
  BY DEF plan, accrual
<1>2. Due' = Due
  BY <1>1 DEF Due, Multiplier
<1> QED BY <1>1, <1>2 DEF GrantInv

\* A block is due its reward, and granted it, up to the end block.
LEMMA BlockGrant ==
  ASSUME GrantInv, StakesInv', GrantBlock
  PROVE  GrantInv'
<1>1. /\ block \in Nat /\ lastRewardBlock \in Nat /\ endBlock \in Nat /\ rewardPerBlock \in Nat
      /\ START_BLOCK \in Nat /\ START_BLOCK <= lastRewardBlock /\ PoolTypeOK
      /\ credited \in Nat /\ granted \in Nat /\ credited + Due <= granted
  BY PoolAssumption DEF GrantInv, StakesInv, PoolTypeOK
<1>2. /\ block' = block + 1
      /\ UNCHANGED <<endBlock, rewardPerBlock, lastRewardBlock, credited>>
      /\ granted' = IF START_BLOCK <= block /\ block < endBlock THEN granted + rewardPerBlock ELSE granted
  BY DEF GrantBlock, NextBlock, plan, accrual
<1>3. Due \in Nat
  BY <1>1, DueTypes
<1>4. granted' \in Nat /\ Due' \in Nat /\ Due' - Due <= granted' - granted
  <2>1. CASE block < lastRewardBlock
    <3>1. Due' = 0 /\ Due = 0
      BY <2>1, <1>1, <1>2 DEF Due
    <3> QED BY <3>1, <1>1, <1>2
  <2>2. CASE lastRewardBlock <= block /\ block < endBlock
    <3>1. granted' = granted + rewardPerBlock
      BY <2>2, <1>1, <1>2
    <3>2. Due' = (block + 1 - lastRewardBlock) * rewardPerBlock
      BY <2>2, <1>1, <1>2 DEF Due, Multiplier
    <3>3. Due = (block - lastRewardBlock) * rewardPerBlock
      <4>1. CASE block > lastRewardBlock
        BY <4>1, <2>2, <1>1 DEF Due, Multiplier
      <4>2. CASE block = lastRewardBlock
        <5>1. 0 * rewardPerBlock = 0 /\ block - lastRewardBlock = 0
          BY <4>2, <1>1
        <5> QED BY <5>1, <4>2, <1>1 DEF Due
      <4> QED BY <4>1, <4>2, <2>2, <1>1
    <3> DEFINE n == block - lastRewardBlock
    <3>4. n \in Nat /\ block + 1 - lastRewardBlock = n + 1
      BY <2>2, <1>1
    <3> HIDE DEF n
    <3>5. (n + 1) * rewardPerBlock = n * rewardPerBlock + rewardPerBlock
      BY <3>4, <1>1
    <3>6. Due' = Due + rewardPerBlock
      BY <3>2, <3>3, <3>4, <3>5 DEF n
    <3> QED BY <3>1, <3>6, <1>1, <1>3
  <2>3. CASE lastRewardBlock <= block /\ ~(block < endBlock)
    <3>1. granted' = granted
      BY <2>3, <1>1, <1>2
    <3>2. CASE lastRewardBlock >= endBlock
      <4>1. Multiplier' = 0 /\ 0 * rewardPerBlock' = 0
        BY <2>3, <3>2, <1>1, <1>2 DEF Multiplier
      <4>2. Due' = 0
        BY <4>1 DEF Due
      <4> QED BY <3>1, <4>2, <1>1, <1>3
    <3>3. CASE lastRewardBlock < endBlock
      <4>1. Multiplier' = Multiplier /\ block > lastRewardBlock /\ block' > lastRewardBlock'
        BY <2>3, <3>3, <1>1, <1>2 DEF Multiplier
      <4>2. Due' = Due
        BY <4>1, <1>2 DEF Due
      <4> QED BY <3>1, <4>2, <1>1, <1>3
    <3> QED BY <3>2, <3>3, <1>1
  <2> QED BY <2>1, <2>2, <2>3, <1>1
<1>5. credited' = credited /\ lastRewardBlock' = lastRewardBlock
  BY <1>2
<1>6. credited + Due' <= granted'
  <2>1. \A c \in Nat, d \in Nat, e \in Nat, g \in Nat, h \in Nat :
          c + d <= g /\ e - d <= h - g => c + e <= h
    OBVIOUS
  <2> QED BY <2>1, <1>1, <1>3, <1>4
<1>7. credited' + Due' <= granted'
  BY <1>5, <1>6
<1> QED BY <1>1, <1>4, <1>5, <1>7 DEF GrantInv

\* The owner need not provide more LOOKS than the blocks before the end block
\* of their time were promised: neither the updates nor the next one to come
\* credit more, provided no plan is made after its end was passed by an
\* update (StakingPool_replan shows what happens then).
THEOREM GrantHeld == TimelySpec => []CreditedWithinGrant
<1>1. BudgetInit => GrantInv
  <2> SUFFICES ASSUME BudgetInit PROVE GrantInv
    OBVIOUS
  <2>1. StakesInv
    BY StakesStart DEF BudgetInit
  <2>2. /\ block = 0 /\ lastRewardBlock = START_BLOCK /\ credited = 0 /\ granted = 0
        /\ START_BLOCK \in Nat
    BY PoolAssumption DEF BudgetInit, PoolInit
  <2>3. Due = 0
    BY <2>2 DEF Due
  <2> QED BY <2>1, <2>2, <2>3 DEF GrantInv
<1>2. GrantInv /\ [TimelyNext]_budgetVars => GrantInv'
  <2> SUFFICES ASSUME GrantInv, [TimelyNext]_budgetVars PROVE GrantInv'
    OBVIOUS
  <2>1. StakesInv'
    <3>1. [BudgetNext]_budgetVars
      BY DEF TimelyNext, TimelyReplan, BudgetNext
    <3> QED BY <3>1, BudgetPoolStep DEF GrantInv
  <2>2. CASE GrantBlock
    BY <2>1, <2>2, BlockGrant
  <2>3. CASE CountedStakerNext
    <3>1. Credit /\ UNCHANGED granted
      BY <2>3 DEF CountedStakerNext
    <3>2. UNCHANGED <<block, plan>> /\ (UpdatePool \/ UNCHANGED accrual)
      <4>1. PICK u \in User :
              \/ Harvest(u)
              \/ EmergencyWithdraw(u)
              \/ \E n \in 1..wallet[u] : Deposit(u, n)
              \/ \E n \in 1..stakedHeld : Withdraw(u, n)
              \/ \E n \in 1..wallet[u] : SendStaked(u, n)
        BY <2>3 DEF CountedStakerNext, StakerNext
      <4> QED BY <4>1 DEF Harvest, EmergencyWithdraw, Deposit, Withdraw, SendStaked
    <3>3. CASE UpdatePool
      BY <3>1, <3>2, <3>3, <2>1, UpdatedGrant
    <3>4. CASE UNCHANGED accrual
      <4>1. UNCHANGED credited
        BY <3>1, <3>4 DEF Credit, Updates, accrual
      <4> QED BY <3>1, <3>2, <3>4, <4>1, <2>1, UnchangedGrant
    <3> QED BY <3>2, <3>3, <3>4
  <2>4. CASE TimelyReplan
    <3>1. /\ Credit /\ UNCHANGED <<granted, block>> /\ lastRewardBlock <= endBlock
          /\ IF block >= START_BLOCK THEN UpdatePool ELSE UNCHANGED accrual
      BY <2>4 DEF TimelyReplan, CountedReplan, Replan, UpdateRewardPerBlockAndEndBlock
    <3>2. CASE block >= START_BLOCK
      BY <3>1, <3>2, <2>1, UpdatedGrant
    <3>3. CASE ~(block >= START_BLOCK)
      <4>1. UNCHANGED <<accTokenPerShare, lastRewardBlock, credited>>
        BY <3>1, <3>3 DEF Credit, Updates, accrual
      <4>2. /\ START_BLOCK <= lastRewardBlock /\ START_BLOCK \in Nat /\ lastRewardBlock \in Nat
            /\ block \in Nat /\ credited \in Nat /\ granted \in Nat
        BY PoolAssumption DEF GrantInv, StakesInv, PoolTypeOK
      <4>3. Due' = 0 /\ Due = 0
        BY <3>1, <3>3, <4>1, <4>2 DEF Due
      <4>4. credited' + Due' <= granted'
        BY <3>1, <4>1, <4>3 DEF GrantInv
      <4> QED BY <2>1, <3>1, <4>1, <4>2, <4>4 DEF GrantInv
    <3> QED BY <3>2, <3>3
  <2>5. CASE UncountedNext
    <3>1. UNCHANGED <<block, plan, accrual, credited, granted>>
      BY <2>5 DEF UncountedNext, TreasuryNext, Pause, Unpause, Fund, AdminRewardWithdraw
    <3> QED BY <3>1, <2>1, UnchangedGrant
  <2>6. CASE UNCHANGED budgetVars
    <3>1. UNCHANGED <<block, plan, accrual, credited, granted>>
      BY <2>6 DEF budgetVars, poolVars
    <3> QED BY <3>1, <2>1, UnchangedGrant
  <2> QED BY <2>2, <2>3, <2>4, <2>5, <2>6 DEF TimelyNext
<1>3. GrantInv => CreditedWithinGrant
  <2> SUFFICES ASSUME GrantInv PROVE CreditedWithinGrant
    OBVIOUS
  <2>1. Due \in Nat /\ TokenReward \in Nat /\ TokenReward <= Due
    BY DueTypes DEF GrantInv, StakesInv
  <2> QED BY <2>1 DEF GrantInv, CreditedWithinGrant
<1> QED BY <1>1, <1>2, <1>3, PTL DEF TimelySpec
-----------------------------------------------------------------------------
(* What a user is shown *)

\* The same of the state a step leads to.
LEMMA AdjustedAlways ==
  PoolTypeOK => AdjustedTokenPerShare \in Nat /\ accTokenPerShare <= AdjustedTokenPerShare
BY AdjustedGrows

LEMMA AdjustedLater ==
  PoolTypeOK' => (AdjustedTokenPerShare \in Nat /\ accTokenPerShare <= AdjustedTokenPerShare)'
BY AdjustedAlways, PTL

\* An account no step touched is shown more when the accumulator shows more.
LEMMA ShownGrows ==
  ASSUME StakesInv, StakesInv', NEW u \in User, amount'[u] = amount[u],
         rewardDebt'[u] = rewardDebt[u],
         AdjustedTokenPerShare <= AdjustedTokenPerShare' \/ amount[u] = 0
  PROVE  CalculatePendingRewards'[u] >= CalculatePendingRewards[u]
<1> DEFINE a == AdjustedTokenPerShare
           b == AdjustedTokenPerShare'
<1>1. a \in Nat /\ b \in Nat /\ PoolTypeOK
  BY AdjustedAlways, AdjustedLater DEF StakesInv
<1>2. CalculatePendingRewards[u] = Pending(u, a)
  BY DEF CalculatePendingRewards
<1>3. CalculatePendingRewards'[u] = Pending(u, b)
  BY DEF CalculatePendingRewards, Pending
<1> HIDE DEF a, b
<1>4. CASE a <= b
  BY <1>1, <1>2, <1>3, <1>4, PendingGrows
<1>5. CASE amount[u] = 0
  <2>1. amount[u] * a = 0 /\ amount[u] * b = 0
    BY <1>1, <1>5
  <2>2. Pending(u, a) = Pending(u, b)
    BY <2>1 DEF Pending
  <2>3. a <= a
    BY <1>1
  <2>4. Pending(u, a) \in Int
    BY <1>1, <2>3, PendingGrows
  <2> QED BY <1>2, <1>3, <2>2, <2>4
<1> QED BY <1>4, <1>5 DEF a, b

\* No user leaving, plan or block lowers the accumulator that is shown, but
\* for the last stake to leave, which leaves nobody to be shown it.
LEMMA AdjustedStep ==
  ASSUME StakesInv, StakesInv', START_BLOCK <= lastRewardBlock, NEW u \in User,
         amount'[u] = amount[u], rewardDebt'[u] = rewardDebt[u],
         PoolNext, \A v \in User : \A n \in 1..wallet[v] : ~SendStaked(v, n)
  PROVE  AdjustedTokenPerShare <= AdjustedTokenPerShare' \/ amount[u] = 0
<1>1. /\ PoolTypeOK /\ PoolTypeOK' /\ PRECISION_FACTOR \in Nat \ {0} /\ IsFiniteSet(User)
      /\ block \in Nat /\ lastRewardBlock \in Nat /\ endBlock \in Nat /\ rewardPerBlock \in Nat
      /\ stakedHeld \in Nat /\ stakedHeld' \in Nat /\ START_BLOCK \in Nat
  BY PoolAssumption DEF StakesInv, PoolTypeOK
<1>2. /\ AdjustedTokenPerShare \in Nat /\ AdjustedTokenPerShare' \in Nat
      /\ accTokenPerShare' <= AdjustedTokenPerShare'
  BY <1>1, AdjustedAlways, AdjustedLater
<1>3. CASE UpdatePool
  BY <1>2, <1>3 DEF UpdatePool
<1>4. CASE ~RewardsDue /\ UNCHANGED accTokenPerShare
  BY <1>2, <1>4 DEF AdjustedTokenPerShare
<1>5. ASSUME RewardsDue, UNCHANGED <<accTokenPerShare, lastRewardBlock, endBlock, rewardPerBlock>>,
             block <= block', block' \in Nat, stakedHeld' <= stakedHeld, stakedHeld' # 0
      PROVE  AdjustedTokenPerShare <= AdjustedTokenPerShare'
  <2> DEFINE m == Multiplier
             k == Multiplier'
             t == TokenReward
             w == TokenReward'
  <2>1. m \in Nat /\ k \in Nat /\ m <= k /\ RewardsDue'
    <3>1. block > lastRewardBlock /\ block' > lastRewardBlock /\ RewardsDue'
      BY <1>5, <1>1 DEF RewardsDue
    <3> DEFINE mul(b) == IF b <= endBlock THEN b - lastRewardBlock
                         ELSE IF lastRewardBlock >= endBlock THEN 0 ELSE endBlock - lastRewardBlock
    <3>2. \A b \in Nat, c \in Nat : lastRewardBlock < b /\ b <= c
            => mul(b) \in Nat /\ mul(c) \in Nat /\ mul(b) <= mul(c)
      BY <1>1
    <3>3. m = mul(block) /\ k = mul(block')
      BY <1>5 DEF Multiplier
    <3> HIDE DEF m, k, mul
    <3>4. mul(block) \in Nat /\ mul(block') \in Nat /\ mul(block) <= mul(block')
      BY <3>1, <3>2, <1>1, <1>5
    <3> QED BY <3>1, <3>3, <3>4
  <2>2. t = m * rewardPerBlock /\ w = k * rewardPerBlock
    BY <2>1, <1>5 DEF TokenReward
  <2> HIDE DEF m, k, t, w
  <2>3. t \in Nat /\ w \in Nat /\ t <= w
    <3>1. rewardPerBlock * m <= rewardPerBlock * k
      BY <2>1, <1>1, MulMonotone
    <3>2. rewardPerBlock * m = m * rewardPerBlock /\ rewardPerBlock * k = k * rewardPerBlock
      BY <2>1, <1>1
    <3> QED BY <3>1, <3>2, <2>1, <2>2, <1>1, MulNat
  <2> DEFINE x == t * PRECISION_FACTOR
             y == w * PRECISION_FACTOR
  <2>4. x \in Nat /\ y \in Nat /\ x <= y
    <3>1. PRECISION_FACTOR * t <= PRECISION_FACTOR * w
      BY <2>3, <1>1, MulMonotone
    <3>2. PRECISION_FACTOR * t = t * PRECISION_FACTOR /\ PRECISION_FACTOR * w = w * PRECISION_FACTOR
      BY <2>3, <1>1
    <3> QED BY <3>1, <3>2, <2>3, <1>1, MulNat
  <2>5. /\ AdjustedTokenPerShare = accTokenPerShare + (x \div stakedHeld)
        /\ AdjustedTokenPerShare' = accTokenPerShare + (y \div stakedHeld')
    BY <2>1, <1>5 DEF AdjustedTokenPerShare, t, w
  <2>6. stakedHeld \in Nat \ {0} /\ stakedHeld' \in Nat \ {0}
    BY <1>1, <1>5 DEF RewardsDue
  <2> HIDE DEF x, y
  <2>7. /\ x \div stakedHeld <= y \div stakedHeld
        /\ x \div stakedHeld \in Nat /\ y \div stakedHeld \in Nat
    BY <2>4, <2>6, DivMonotone, DivNat
  <2>8. y \div stakedHeld <= y \div stakedHeld' /\ y \div stakedHeld' \in Nat
    BY <2>4, <2>6, <1>5, DivAntitone, DivNat
  <2> DEFINE p == x \div stakedHeld
             q == y \div stakedHeld
             r == y \div stakedHeld'
  <2>9. p \in Nat /\ r \in Nat /\ p <= r
    <3>1. p \in Nat /\ q \in Nat /\ r \in Nat /\ p <= q /\ q <= r
      BY <2>7, <2>8
    <3> HIDE DEF p, q, r
    <3> QED BY <3>1
  <2>10. AdjustedTokenPerShare = accTokenPerShare + p /\ AdjustedTokenPerShare' = accTokenPerShare + r
    BY <2>5
  <2>11. accTokenPerShare \in Nat
    BY <1>1 DEF PoolTypeOK
  <2> HIDE DEF p, q, r
  <2> QED BY <2>9, <2>10, <2>11
<1>6. CASE NextBlock
  <2>1. block' = block + 1
        /\ UNCHANGED <<accTokenPerShare, lastRewardBlock, endBlock, rewardPerBlock, stakedHeld>>
    BY <1>6 DEF NextBlock, plan, accrual, lp
  <2>2. CASE RewardsDue
    <3>1. stakedHeld' # 0 /\ block <= block' /\ block' \in Nat /\ stakedHeld' <= stakedHeld
      BY <2>1, <2>2, <1>1 DEF RewardsDue
    <3> QED BY <2>1, <2>2, <3>1, <1>5
  <2> QED BY <2>1, <2>2, <1>4
<1>7. ASSUME NEW v \in User, EmergencyWithdraw(v)
      PROVE  AdjustedTokenPerShare <= AdjustedTokenPerShare' \/ amount[u] = 0
  <2>1. /\ UNCHANGED <<block, accTokenPerShare, lastRewardBlock, endBlock, rewardPerBlock>>
        /\ stakedHeld' = stakedHeld - amount[v]
    BY <1>7 DEF EmergencyWithdraw, plan, accrual
  <2>2. /\ amount \in [User -> Nat] /\ amount' \in [User -> Nat]
        /\ SumOver(amount', User) <= stakedHeld'
    BY DEF StakesInv, PoolTypeOK, StakesHeld
  <2>3. CASE stakedHeld' = 0
    <3> DEFINE f == amount'
    <3>1. f \in [User -> Nat] /\ SumOver(f, User) <= 0
      BY <2>2, <2>3
    <3> HIDE DEF f
    <3>2. SumOver(f, User) = f[u] + SumOver(f, User \ {u}) /\ SumOver(f, User \ {u}) \in Nat
          /\ f[u] \in Nat
      BY <3>1, <1>1, SumSplit
    <3>3. f[u] = 0
      BY <3>1, <3>2
    <3> QED BY <3>3 DEF f
  <2>4. CASE stakedHeld' # 0 /\ RewardsDue
    <3>1. stakedHeld' <= stakedHeld /\ block <= block' /\ block' \in Nat
      <4>1. amount[v] \in Nat
        BY <2>2
      <4> QED BY <4>1, <2>1, <1>1
    <3> QED BY <2>1, <2>4, <3>1, <1>5
  <2> QED BY <2>1, <2>3, <2>4, <1>4
<1>8. CASE Replan
  <2>1. UpdatePool \/ (UNCHANGED accTokenPerShare /\ block < START_BLOCK)
    BY <1>8, <1>1 DEF Replan, UpdateRewardPerBlockAndEndBlock, accrual
  <2>2. CASE UNCHANGED accTokenPerShare /\ block < START_BLOCK
    <3>1. ~RewardsDue
      BY <2>2, <1>1 DEF RewardsDue
    <3> QED BY <2>2, <3>1, <1>4
  <2> QED BY <2>1, <2>2, <1>3
<1>9. CASE TreasuryNext
  <2>1. UNCHANGED <<block, plan, accrual, lp>>
    BY <1>9 DEF TreasuryNext, Pause, Unpause, Fund, AdminRewardWithdraw
  <2>2. UNCHANGED <<block, accTokenPerShare, lastRewardBlock, endBlock, rewardPerBlock, stakedHeld>>
    BY <2>1 DEF plan, accrual, lp
  <2>3. AdjustedTokenPerShare' = AdjustedTokenPerShare
    BY <2>2 DEF AdjustedTokenPerShare, TokenReward, RewardsDue, Multiplier
  <2> QED BY <2>3, <1>2
<1>10. CASE StakerNext
  <2>1. PICK v \in User :
          \/ Harvest(v)
          \/ EmergencyWithdraw(v)
          \/ \E n \in 1..wallet[v] : Deposit(v, n)
          \/ \E n \in 1..stakedHeld : Withdraw(v, n)
          \/ \E n \in 1..wallet[v] : SendStaked(v, n)
    BY <1>10 DEF StakerNext
  <2>2. UpdatePool \/ EmergencyWithdraw(v)
    BY <2>1 DEF Harvest, Deposit, Withdraw
  <2> QED BY <2>2, <1>3, <1>7
<1> QED BY <1>6, <1>8, <1>9, <1>10 DEF PoolNext

\* Only u's own transactions take from what the view shows u: no other user,
\* new plan or block does, whatever came before, as long as no LP tokens are
\* sent without a deposit.
THEOREM ShownKept == PoolSpec => ShownRewardKept
<1> DEFINE Inv == StakesInv /\ START_BLOCK <= lastRewardBlock
<1>1. PoolInit => Inv
  <2> SUFFICES ASSUME PoolInit PROVE Inv
    OBVIOUS
  <2>1. lastRewardBlock = START_BLOCK /\ START_BLOCK \in Nat
    BY PoolAssumption DEF PoolInit
  <2> QED BY <2>1, StakesStart
<1>2. Inv /\ [PoolNext]_poolVars => Inv'
  <2> SUFFICES ASSUME Inv, [PoolNext]_poolVars PROVE Inv'
    OBVIOUS
  <2>1. StakesInv'
    BY StakesStep
  <2>2. UpdatePool \/ UNCHANGED lastRewardBlock
    <3>1. CASE StakerNext
      <4>1. PICK v \in User :
              \/ Harvest(v)
              \/ EmergencyWithdraw(v)
              \/ \E n \in 1..wallet[v] : Deposit(v, n)
              \/ \E n \in 1..stakedHeld : Withdraw(v, n)
              \/ \E n \in 1..wallet[v] : SendStaked(v, n)
        BY <3>1 DEF StakerNext
      <4> QED BY <4>1 DEF Harvest, EmergencyWithdraw, Deposit, Withdraw, SendStaked, accrual
    <3>2. CASE Replan
      BY <3>2 DEF Replan, UpdateRewardPerBlockAndEndBlock, accrual
    <3>3. CASE TreasuryNext
      BY <3>3 DEF TreasuryNext, Pause, Unpause, Fund, AdminRewardWithdraw, accrual
    <3>4. CASE NextBlock \/ UNCHANGED poolVars
      BY <3>4 DEF NextBlock, poolVars, accrual
    <3> QED BY <3>1, <3>2, <3>3, <3>4 DEF PoolNext
  <2>3. START_BLOCK <= lastRewardBlock'
    <3>1. block \in Nat /\ lastRewardBlock \in Nat /\ START_BLOCK \in Nat
      BY PoolAssumption DEF StakesInv, PoolTypeOK
    <3>2. lastRewardBlock' = lastRewardBlock \/ (lastRewardBlock' = block /\ block > lastRewardBlock)
      BY <2>2 DEF UpdatePool
    <3> QED BY <3>1, <3>2
  <2> QED BY <2>1, <2>3
<1>3. Inv /\ Inv' /\ [PoolNext]_poolVars
        => [(\A u \in User : \A n \in 1..wallet[u] : ~SendStaked(u, n))
              => \A u \in User :
                   amount'[u] = amount[u] /\ rewardDebt'[u] = rewardDebt[u]
                     => CalculatePendingRewards'[u] >= CalculatePendingRewards[u]]_poolVars
  BY AdjustedStep, ShownGrows
<1> HIDE DEF Inv
<1> QED BY <1>1, <1>2, <1>3, PTL DEF PoolSpec, ShownRewardKept
=============================================================================

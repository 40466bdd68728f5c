-------------------------- MODULE FeeSharingProofs --------------------------
(***************************************************************************)
(* Theorems about the fee sharing system and what is built on it: the       *)
(* FeeSharingSystem, for every number of users, every size of deposit,      *)
(* reward and period, and every precision; the aggregator over it, for      *)
(* every number of stakers, all amounts, and every market; the splitter's   *)
(* books, for every set of accounts, list of shares and sequence of         *)
(* receipts; and the setter and the controller over all of these.           *)
(***************************************************************************)
EXTENDS AggregatorFeeSharingWithUniswapV3, OperatorControllerForRewardsV2, SumTheorems

\* The account of one user is a part of a total.
LEMMA PartOfSum ==
  ASSUME NEW S, IsFiniteSet(S), NEW f \in [S -> Nat], NEW u \in S
  PROVE  f[u] <= SumOver(f, S)
<1>1. SumOver(f, S) = f[u] + SumOver(f, S \ {u}) /\ SumOver(f, S \ {u}) \in Nat
  BY SumSplit
<1> QED BY <1>1

\* A checkpoint raises the accumulator and moves its clock to where rewards end.
LEMMA CheckpointTypes ==
  ASSUME TypeOK, NEW u \in User, UpdateReward(u)
  PROVE  /\ CalculatePendingRewards(u) \in Nat
         /\ rewardPerTokenStored' \in Nat
         /\ rewardPerTokenStored' >= rewardPerTokenStored
         /\ lastUpdateBlock' \in Nat
         /\ lastUpdateBlock' = LastRewardBlock \/ UNCHANGED lastUpdateBlock
         /\ userRewardPerTokenPaid' =
              [userRewardPerTokenPaid EXCEPT ![u] = rewardPerTokenStored']
         /\ userRewardPerTokenPaid' \in [User -> Nat]
<1> USE DEF TypeOK
<1>1. LastRewardBlock \in Nat /\ LastRewardBlock - lastUpdateBlock \in Nat
  BY DEF LastRewardBlock, UpdateReward
<1>2. RewardPerToken \in Nat /\ RewardPerToken >= rewardPerTokenStored
  <2> DEFINE grown == (LastRewardBlock - lastUpdateBlock)
                        * (currentRewardPerBlock * PRECISION_FACTOR)
  <2>1. CASE totalShares = 0
    BY <2>1 DEF RewardPerToken
  <2>2. CASE totalShares # 0
    <3>1. grown \in Nat
      BY <1>1, MulNat, FeeSharingAssumption
    <3>2. totalShares \in Nat \ {0}
      BY <2>2
    <3>3. RewardPerToken = rewardPerTokenStored + grown \div totalShares
      BY <2>2 DEF RewardPerToken
    <3> HIDE DEF grown
    <3>4. grown \div totalShares \in Nat
      BY <3>1, <3>2, DivNat
    <3> QED BY <3>3, <3>4
  <2> QED BY <2>1, <2>2
<1>3. RewardPerToken - userRewardPerTokenPaid[u] \in Nat
  BY <1>2 DEF UpdateReward
<1>4. CalculatePendingRewards(u) \in Nat
  <2> DEFINE due == shares[u] * (RewardPerToken - userRewardPerTokenPaid[u])
  <2>1. due \in Nat
    BY <1>3, MulNat
  <2>2. CalculatePendingRewards(u) = due \div PRECISION_FACTOR + rewards[u]
    BY DEF CalculatePendingRewards
  <2> HIDE DEF due
  <2>3. due \div PRECISION_FACTOR \in Nat
    BY <2>1, DivNat, FeeSharingAssumption
  <2> QED BY <2>2, <2>3
<1>5. /\ rewardPerTokenStored' \in Nat
      /\ rewardPerTokenStored' >= rewardPerTokenStored
      /\ lastUpdateBlock' \in Nat
      /\ lastUpdateBlock' = LastRewardBlock \/ UNCHANGED lastUpdateBlock
  <2> HIDE DEF TypeOK
  <2>1. CASE block # lastUpdateBlock
    BY <2>1, <1>1, <1>2 DEF UpdateReward
  <2>2. CASE block = lastUpdateBlock
    BY <2>2 DEF UpdateReward, TypeOK
  <2> QED BY <2>1, <2>2
<1>6. userRewardPerTokenPaid' = [userRewardPerTokenPaid EXCEPT ![u] = rewardPerTokenStored']
  BY DEF UpdateReward
<1> QED BY <1>4, <1>5, <1>6

\* Paying or keeping the rewards of one account.
LEMMA ClaimTypes ==
  ASSUME TypeOK, NEW u \in User, NEW claimRewardToken \in BOOLEAN,
         CalculatePendingRewards(u) \in Nat, Claim(u, claimRewardToken)
  PROVE  rewards' \in [User -> Nat] /\ weth' \in Nat
<1>1. CASE claimRewardToken
  BY <1>1 DEF Claim, TypeOK
<1>2. CASE ~claimRewardToken
  BY <1>2 DEF Claim, TypeOK
<1> QED BY <1>1, <1>2
-----------------------------------------------------------------------------
\* A deposit of n is issued at most n shares of T when they are worth A >= T.
LEMMA IssueBounds ==
  ASSUME NEW n \in Nat, NEW T \in Nat \ {0}, NEW A \in Nat, T <= A
  PROVE  (n * T) \div A \in 0..n
<1> DEFINE q == (n * T) \div A
<1>1. A \in Nat \ {0} /\ n * T \in Nat
  BY MulNat
<1>2. q \in Nat /\ A * q <= n * T
  BY <1>1, DivNat, DivBounds
<1> HIDE DEF q
<1>3. n * T <= n * A
  BY MulMonotone
<1>4. n * A = A * n /\ n * A \in Nat /\ A * q \in Nat
  BY <1>2
<1>5. A * q <= A * n
  BY <1>1, <1>2, <1>3, <1>4
<1>6. q <= n
  BY <1>1, <1>2, <1>5, MulCancel
<1> QED BY <1>2, <1>6 DEF q

\* Burning s of T shares worth A >= T pays q of it, and what is left is at
\* least as much as there are shares left, and nothing when there are none.
LEMMA PayoutBounds ==
  ASSUME NEW T \in Nat \ {0}, NEW A \in Nat, T <= A, NEW s \in 0..T
  PROVE  /\ (A * s) \div T \in 0..A
         /\ T - s <= A - (A * s) \div T
         /\ s = T => (A * s) \div T = A
<1> DEFINE q == (A * s) \div T
<1>1. A * s \in Nat /\ s \in Nat /\ T - s \in Nat
  BY MulNat
<1>2. q \in Nat /\ T * q <= A * s /\ A * s < T * (q + 1)
  BY <1>1, DivNat, DivBounds
<1> HIDE DEF q
<1>3. T - s <= A - q
  <2>1. (T - s) * T <= (T - s) * A
    BY <1>1, MulMonotone
  <2>2. /\ (T - s) * T = T * (T - s)
        /\ (T - s) * A = T * A - A * s
        /\ T * (A - q) = T * A - T * q
        /\ T * (T - s) \in Int /\ T * A \in Int /\ T * q \in Int /\ A * s \in Int
    BY <1>1, <1>2
  <2>3. T * (T - s) <= T * (A - q)
    BY <2>1, <2>2, <1>2
  <2> QED BY <2>3, <1>1, <1>2, MulCancel
<1>4. q <= A
  BY <1>1, <1>2, <1>3
<1>5. ASSUME s = T PROVE q = A
  <2>1. SUFFICES ASSUME q + 1 <= A PROVE FALSE
    BY <1>2, <1>4
  <2>2. T * (q + 1) <= T * A
    BY <1>2, <2>1, MulMonotone
  <2>3. A * s = T * A /\ T * A \in Nat /\ T * (q + 1) \in Nat
    BY <1>5, <1>2
  <2> QED BY <2>2, <2>3, <1>2
<1> QED BY <1>2, <1>3, <1>4, <1>5 DEF q

\* What the other transactions rely on: the totals and the shares are those of
\* the accounts, and no share is worth less than one LOOKS.
SharesInv == TypeOK /\ SharesAccounted /\ SharesRedeemable

\* A deposit keeps the shares.
LEMMA DepositShares ==
  ASSUME SharesInv, NEW u \in User, NEW c \in Compounds, NEW n \in 1..wallet[u],
         NEW claimRewardToken \in BOOLEAN, Deposit(u, n, claimRewardToken, c)
  PROVE  SharesInv'
<1> DEFINE issued == SharesFor(n, c)
<1>0. TypeOK /\ SharesAccounted /\ SharesRedeemable
  BY DEF SharesInv
<1>1. /\ n >= PRECISION_FACTOR
      /\ n <= wallet[u]
      /\ Compounded(c)
      /\ UpdateReward(u)
      /\ issued # 0
      /\ Issue(u, issued)
      /\ Claim(u, claimRewardToken)
      /\ staked' = staked + c + n
      /\ wallet' = [wallet EXCEPT ![u] = @ - n]
      /\ UNCHANGED <<block, period>>
  BY DEF Deposit
<1>2. c \in Nat /\ n \in Nat \ {0} /\ wallet[u] \in Nat /\ IsFiniteSet(User)
  BY <1>0, FeeSharingAssumption DEF TypeOK
<1>3. issued \in 1..n
  <2>1. CASE totalShares = 0
    BY <2>1, <1>1, <1>2 DEF SharesFor
  <2>2. CASE totalShares # 0
    <3>1. totalShares \in Nat \ {0} /\ staked + c \in Nat /\ totalShares <= staked + c
      BY <2>2, <1>0, <1>2 DEF TypeOK, SharesRedeemable
    <3>2. issued = (n * totalShares) \div (staked + c)
      BY <2>2 DEF SharesFor
    <3>3. issued \in 0..n
      BY <3>1, <3>2, <1>2, IssueBounds
    <3> HIDE DEF issued
    <3> QED BY <3>3, <1>1
  <2> QED BY <2>1, <2>2
<1> HIDE DEF issued
<1>4. /\ shares' = [shares EXCEPT ![u] = @ + issued]
      /\ totalShares' = totalShares + issued
  BY <1>1 DEF Issue
<1>5. shares' \in [User -> Nat] /\ shares'[u] = shares[u] + issued
      /\ \A v \in User \ {u} : shares'[v] = shares[v]
  BY <1>0, <1>3, <1>4, <1>2 DEF TypeOK
<1>6. totalShares' \in Nat \ {0} /\ totalShares' <= staked' /\ staked' \in Nat
  BY <1>0, <1>1, <1>2, <1>3, <1>4 DEF TypeOK, SharesRedeemable
<1>7. SumOver(shares', User) = SumOver(shares, User) - shares[u] + shares'[u]
  BY <1>0, <1>2, <1>5, SumUpdate DEF TypeOK
<1>8. SharesAccounted'
  <2>1. shares[u] \in Nat /\ totalShares \in Nat /\ issued \in Nat
    BY <1>0, <1>3, <1>2 DEF TypeOK
  <2> QED BY <1>7, <1>5, <1>4, <1>0, <2>1 DEF SharesAccounted
<1>9. TypeOK'
  <2>1. CalculatePendingRewards(u) \in Nat /\ rewardPerTokenStored' \in Nat
        /\ lastUpdateBlock' \in Nat /\ userRewardPerTokenPaid' \in [User -> Nat]
    BY <1>0, <1>1, CheckpointTypes
  <2>2. rewards' \in [User -> Nat] /\ weth' \in Nat
    BY <1>0, <1>1, <2>1, ClaimTypes
  <2>3. wallet' \in [User -> Nat]
    BY <1>0, <1>1, <1>2 DEF TypeOK
  <2> QED BY <1>0, <1>1, <1>5, <1>6, <2>1, <2>2, <2>3 DEF TypeOK, period
<1> QED BY <1>6, <1>8, <1>9 DEF SharesInv, SharesRedeemable

\* A withdrawal of s of the caller's shares keeps them.
LEMMA WithdrawKeepsShares ==
  ASSUME SharesInv, NEW u \in User, NEW c \in Compounds, NEW s \in 0..shares[u],
         NEW claimRewardToken \in BOOLEAN, WithdrawShares(u, s, claimRewardToken, c)
  PROVE  SharesInv'
<1> DEFINE paid == CurrentAmount(s, c)
<1>0. TypeOK /\ SharesAccounted /\ SharesRedeemable
  BY DEF SharesInv
<1>1. /\ UpdateReward(u)
      /\ totalShares # 0
      /\ Burn(u, s)
      /\ staked' = staked + c - paid
      /\ Claim(u, claimRewardToken)
      /\ wallet' = [wallet EXCEPT ![u] = @ + paid]
      /\ UNCHANGED <<block, period>>
  BY DEF WithdrawShares
<1>2. c \in Nat /\ shares[u] \in Nat /\ s \in Nat /\ s <= shares[u] /\ IsFiniteSet(User)
      /\ shares \in [User -> Nat]
  BY <1>0, FeeSharingAssumption DEF TypeOK
<1>3. /\ totalShares \in Nat \ {0} /\ staked \in Nat /\ c \in Nat
      /\ staked + c \in Nat /\ totalShares <= staked + c
  BY <1>0, <1>1, <1>2 DEF TypeOK, SharesRedeemable
<1>4. s \in 0..totalShares
  <2>1. shares[u] <= totalShares
    BY <1>0, <1>2, PartOfSum DEF SharesAccounted
  <2> QED BY <2>1, <1>2, <1>3
<1>5. /\ paid \in 0..(staked + c)
      /\ totalShares - s <= staked + c - paid
      /\ s = totalShares => paid = staked + c
  <2> DEFINE total == staked + c
  <2>1. paid = (total * s) \div totalShares
    BY DEF CurrentAmount
  <2>2. total \in Nat /\ totalShares <= total
    BY <1>3
  <2> HIDE DEF total
  <2>3. /\ (total * s) \div totalShares \in 0..total
        /\ totalShares - s <= total - (total * s) \div totalShares
        /\ s = totalShares => (total * s) \div totalShares = total
    BY <2>2, <1>3, <1>4, PayoutBounds
  <2> HIDE DEF paid
  <2>4. /\ paid \in 0..total
        /\ totalShares - s <= total - paid
        /\ s = totalShares => paid = total
    BY <2>1, <2>3
  <2> QED BY <2>4, <1>3 DEF total
<1> HIDE DEF paid
<1>6. /\ shares' = [shares EXCEPT ![u] = @ - s]
      /\ totalShares' = totalShares - s
  BY <1>1 DEF Burn
<1>7. shares' \in [User -> Nat] /\ shares'[u] = shares[u] - s
      /\ \A v \in User \ {u} : shares'[v] = shares[v]
  BY <1>2, <1>6
<1>8. /\ totalShares' \in Nat /\ staked' \in Nat
      /\ totalShares' <= staked'
      /\ totalShares' = 0 => staked' = 0
  <2>1. staked' = staked + c - paid /\ totalShares' = totalShares - s
    BY <1>1, <1>6
  <2>2. staked + c - paid \in Nat /\ totalShares - s \in Nat
    BY <1>3, <1>4, <1>5
  <2>3. totalShares - s = 0 => s = totalShares
    BY <1>3, <1>4
  <2>4. s = totalShares => staked + c - paid = 0
    BY <1>3, <1>5
  <2> QED BY <2>1, <2>2, <2>3, <2>4, <1>5
<1>9. SharesAccounted'
  <2>1. SumOver(shares', User) = SumOver(shares, User) - shares[u] + shares'[u]
    BY <1>2, <1>7, SumUpdate
  <2> QED BY <2>1, <1>7, <1>6, <1>0, <1>2, <1>3 DEF SharesAccounted
<1>10. TypeOK'
  <2>1. CalculatePendingRewards(u) \in Nat /\ rewardPerTokenStored' \in Nat
        /\ lastUpdateBlock' \in Nat /\ userRewardPerTokenPaid' \in [User -> Nat]
    BY <1>0, <1>1, CheckpointTypes
  <2>2. rewards' \in [User -> Nat] /\ weth' \in Nat
    BY <1>0, <1>1, <2>1, ClaimTypes
  <2>3. wallet' \in [User -> Nat]
    BY <1>0, <1>1, <1>5 DEF TypeOK
  <2> QED BY <1>0, <1>1, <1>7, <1>8, <2>1, <2>2, <2>3 DEF TypeOK, period
<1> QED BY <1>8, <1>9, <1>10 DEF SharesInv, SharesRedeemable

\* A harvest compounds, and only when something is staked.
LEMMA HarvestKeepsShares ==
  ASSUME SharesInv, NEW u \in User, NEW c \in Compounds, Harvest(u, c)
  PROVE  SharesInv'
<1>1. TypeOK /\ SharesAccounted /\ SharesRedeemable
  BY DEF SharesInv
<1>2. /\ staked = 0 => c = 0
      /\ UpdateReward(u)
      /\ Claim(u, TRUE)
      /\ staked' = staked + c
      /\ UNCHANGED <<block, period, totalShares, shares, wallet>>
  BY DEF Harvest, Compounded
<1>3. c \in Nat
  BY FeeSharingAssumption
<1>4. CalculatePendingRewards(u) \in Nat /\ rewardPerTokenStored' \in Nat
      /\ lastUpdateBlock' \in Nat /\ userRewardPerTokenPaid' \in [User -> Nat]
  BY <1>1, <1>2, CheckpointTypes
<1>5. rewards' \in [User -> Nat] /\ weth' \in Nat
  BY <1>1, <1>2, <1>4, ClaimTypes
<1>6. TypeOK'
  BY <1>1, <1>2, <1>3, <1>4, <1>5 DEF TypeOK, period
<1>7. SharesAccounted' /\ SharesRedeemable'
  BY <1>1, <1>2, <1>3 DEF TypeOK, SharesAccounted, SharesRedeemable
<1> QED BY <1>6, <1>7 DEF SharesInv

\* A new period has a rate and an end, whatever its reward and its length.
LEMMA PeriodTypes ==
  ASSUME TypeOK, NEW reward \in Nat, NEW duration \in Nat,
         UpdateRewards(reward, duration), weth' = weth + reward
  PROVE  /\ TypeOK'
         /\ UNCHANGED <<totalShares, shares, staked, userRewardPerTokenPaid, rewards,
                        rewardPerTokenStored>>
         /\ duration * currentRewardPerBlock'
              <= reward + (IF block >= periodEndBlock THEN 0
                           ELSE (periodEndBlock - block) * currentRewardPerBlock)
<1> DEFINE left == IF block >= periodEndBlock THEN 0
                   ELSE (periodEndBlock - block) * currentRewardPerBlock
           spread == IF block >= periodEndBlock
                     THEN reward
                     ELSE reward + (periodEndBlock - block) * currentRewardPerBlock
<1>1. reward \in Nat /\ duration \in Nat \ {0}
  BY DEF UpdateRewards
<1>2. spread \in Nat /\ spread = reward + left
  <2>1. CASE block >= periodEndBlock
    BY <2>1, <1>1
  <2>2. CASE ~(block >= periodEndBlock)
    <3>1. periodEndBlock - block \in Nat /\ currentRewardPerBlock \in Nat
      BY <2>2 DEF TypeOK
    <3>2. (periodEndBlock - block) * currentRewardPerBlock \in Nat
      BY <3>1, MulNat
    <3> QED BY <3>2, <2>2, <1>1
  <2> QED BY <2>1, <2>2
<1>3. currentRewardPerBlock' = spread \div duration
  BY DEF UpdateRewards
<1>4. spread = reward + left
  BY <1>2
<1> HIDE DEF spread
<1>5. currentRewardPerBlock' \in Nat /\ duration * currentRewardPerBlock' <= spread
  BY <1>1, <1>2, <1>3, DivNat, DivBounds
<1>6. duration * currentRewardPerBlock' <= reward + left
  BY <1>4, <1>5, Zenon
<1> HIDE DEF left
<1>7. /\ lastUpdateBlock' = block
      /\ periodEndBlock' = block + duration
      /\ weth' = weth + reward
      /\ UNCHANGED <<block, rewardPerTokenStored, totalShares, accounts, staked, wallet>>
  BY DEF UpdateRewards
<1>8. TypeOK'
  BY <1>1, <1>5, <1>7 DEF TypeOK, accounts
<1>9. UNCHANGED <<totalShares, shares, staked, userRewardPerTokenPaid, rewards,
                  rewardPerTokenStored>>
  BY <1>7 DEF accounts
<1> QED BY <1>6, <1>8, <1>9 DEF left

\* A renewal keeps the shares.
LEMMA RenewalKeepsShares ==
  ASSUME SharesInv, NEW reward \in Nat, NEW duration \in Nat,
         UpdateRewards(reward, duration), weth' = weth + reward
  PROVE  SharesInv'
<1>1. TypeOK' /\ UNCHANGED <<totalShares, shares, staked>>
  BY PeriodTypes DEF SharesInv
<1> QED BY <1>1 DEF SharesInv, SharesAccounted, SharesRedeemable

\* Every step of the system keeps it.
LEMMA SharesInductive ==
  ASSUME SharesInv, [Next]_systemVars
  PROVE  SharesInv'
<1>0. TypeOK /\ SharesAccounted /\ SharesRedeemable
  BY DEF SharesInv
<1>1. ASSUME NEW u \in User, NEW c \in Compounds, NEW claimRewardToken \in BOOLEAN,
             NEW n \in 1..wallet[u], Deposit(u, n, claimRewardToken, c)
      PROVE  SharesInv'
  BY <1>1, DepositShares
<1>2. ASSUME NEW u \in User, NEW c \in Compounds, Harvest(u, c)
      PROVE  SharesInv'
  BY <1>2, HarvestKeepsShares
<1>3. ASSUME NEW u \in User, NEW c \in Compounds, NEW claimRewardToken \in BOOLEAN,
             NEW s \in 1..totalShares, Withdraw(u, s, claimRewardToken, c)
      PROVE  SharesInv'
  <2>1. s \in 0..shares[u] /\ WithdrawShares(u, s, claimRewardToken, c)
    BY <1>0, <1>3 DEF Withdraw, TypeOK
  <2> QED BY <2>1, WithdrawKeepsShares
<1>4. ASSUME NEW u \in User, NEW c \in Compounds, NEW claimRewardToken \in BOOLEAN,
             WithdrawAll(u, claimRewardToken, c)
      PROVE  SharesInv'
  <2>1. shares[u] \in 0..shares[u] /\ WithdrawShares(u, shares[u], claimRewardToken, c)
    BY <1>0, <1>4 DEF WithdrawAll, TypeOK
  <2> QED BY <2>1, WithdrawKeepsShares
<1>5. ASSUME NEW reward \in OwnerRewards, NEW duration \in OwnerDurations,
             FundedUpdateRewards(reward, duration)
      PROVE  SharesInv'
  BY <1>5, RenewalKeepsShares, FeeSharingAssumption DEF FundedUpdateRewards
<1>6. CASE NextBlock
  BY <1>0, <1>6 DEF NextBlock, period, accounts, SharesInv, TypeOK, SharesAccounted,
                    SharesRedeemable
<1>7. CASE UNCHANGED systemVars
  BY <1>0, <1>7 DEF systemVars, period, accounts, SharesInv, TypeOK, SharesAccounted,
                    SharesRedeemable
<1> QED BY <1>1, <1>2, <1>3, <1>4, <1>5, <1>6, <1>7 DEF Next, UserNext, UserStep

\* FeeSharingSystem keeps its totals: totalShares is the sum of the shares,
\* and no sequence of deposits, compounding and withdrawals makes a share
\* worth less than one LOOKS or leaves LOOKS behind without a share.
THEOREM SharesSafe == Spec => [](TypeOK /\ SharesSound)
<1>1. Init => SharesInv
  <2> SUFFICES ASSUME Init PROVE SharesInv
    OBVIOUS
  <2>1. TypeOK
    BY FeeSharingAssumption DEF Init, TypeOK
  <2>2. SumOver(shares, User) = 0
    BY <2>1, SumZero DEF Init, TypeOK
  <2> QED BY <2>1, <2>2 DEF Init, SharesInv, SharesAccounted, SharesRedeemable
<1>2. SharesInv /\ [Next]_systemVars => SharesInv'
  BY SharesInductive
<1>3. SharesInv => TypeOK /\ SharesSound
  BY DEF SharesInv, SharesSound
<1> QED BY <1>1, <1>2, <1>3, PTL DEF Spec
-----------------------------------------------------------------------------
\* A checkpoint of one user leaves nothing to subtract from below zero for
\* any user: the accumulator has only grown, and the clock is where the
\* rewards end.
LEMMA CheckpointNeverReverts ==
  ASSUME TypeOK, NoCheckpointReverts, NEW u \in User, UpdateReward(u),
         UNCHANGED <<block, period>>
  PROVE  NoCheckpointReverts'
<1>1. /\ rewardPerTokenStored' \in Nat
      /\ rewardPerTokenStored' >= rewardPerTokenStored
      /\ lastUpdateBlock' = LastRewardBlock \/ UNCHANGED lastUpdateBlock
      /\ userRewardPerTokenPaid' =
           [userRewardPerTokenPaid EXCEPT ![u] = rewardPerTokenStored']
  BY CheckpointTypes
<1>2. lastUpdateBlock <= LastRewardBlock /\ LastRewardBlock \in Nat
  BY DEF NoCheckpointReverts, LastRewardBlock, TypeOK
<1>3. LastRewardBlock' = LastRewardBlock
  BY DEF LastRewardBlock, period
<1>4. lastUpdateBlock' <= LastRewardBlock'
  BY <1>1, <1>2, <1>3
<1>5. ASSUME NEW v \in User PROVE userRewardPerTokenPaid'[v] <= rewardPerTokenStored'
  BY <1>1 DEF NoCheckpointReverts, TypeOK
<1> QED BY <1>4, <1>5 DEF NoCheckpointReverts

\* Nor does the start of a period, which leaves the accumulator alone.
LEMMA RenewalNeverReverts ==
  ASSUME TypeOK, NoCheckpointReverts, NEW reward \in Nat, NEW duration \in Nat,
         UpdateRewards(reward, duration)
  PROVE  NoCheckpointReverts'
<1>1. duration \in Nat \ {0} /\ block' = block
      /\ lastUpdateBlock' = block /\ periodEndBlock' = block + duration
  BY DEF UpdateRewards
<1>2. UNCHANGED <<userRewardPerTokenPaid, rewardPerTokenStored>>
  BY DEF UpdateRewards, accounts
<1> QED BY <1>1, <1>2 DEF NoCheckpointReverts, LastRewardBlock, TypeOK

\* Every step of the system keeps its checkpoints from reverting.
LEMMA CheckpointsInductive ==
  ASSUME TypeOK, NoCheckpointReverts, [Next]_systemVars
  PROVE  NoCheckpointReverts'
<1>1. ASSUME NEW u \in User, NEW c \in Compounds, NEW claimRewardToken \in BOOLEAN,
             NEW n \in 1..wallet[u], Deposit(u, n, claimRewardToken, c)
      PROVE  NoCheckpointReverts'
  BY <1>1, CheckpointNeverReverts DEF Deposit
<1>2. ASSUME NEW u \in User, NEW c \in Compounds, Harvest(u, c)
      PROVE  NoCheckpointReverts'
  BY <1>2, CheckpointNeverReverts DEF Harvest
<1>3. ASSUME NEW u \in User, NEW c \in Compounds, NEW claimRewardToken \in BOOLEAN,
             NEW s, WithdrawShares(u, s, claimRewardToken, c)
      PROVE  NoCheckpointReverts'
  BY <1>3, CheckpointNeverReverts DEF WithdrawShares
<1>4. ASSUME NEW reward \in OwnerRewards, NEW duration \in OwnerDurations,
             FundedUpdateRewards(reward, duration)
      PROVE  NoCheckpointReverts'
  BY <1>4, RenewalNeverReverts, FeeSharingAssumption DEF FundedUpdateRewards
<1>5. CASE NextBlock
  BY <1>5 DEF NextBlock, period, accounts, NoCheckpointReverts, LastRewardBlock, TypeOK
<1>6. CASE UNCHANGED systemVars
  BY <1>6 DEF systemVars, period, accounts, NoCheckpointReverts, LastRewardBlock
<1> QED BY <1>1, <1>2, <1>3, <1>4, <1>5, <1>6
        DEF Next, UserNext, UserStep, Withdraw, WithdrawAll

\* No sequence of periods, of any length and started at any block, makes the
\* checked subtractions of a checkpoint fail: deposit, harvest and withdraw
\* are never locked by the reward clock.
THEOREM CheckpointsSafe == Spec => []NoCheckpointReverts
<1>1. Init => NoCheckpointReverts
  BY DEF Init, NoCheckpointReverts, LastRewardBlock
<1>2. TypeOK /\ NoCheckpointReverts /\ [Next]_systemVars => NoCheckpointReverts'
  BY CheckpointsInductive
<1>3. Spec => []TypeOK
  BY SharesSafe, PTL
<1> QED BY <1>1, <1>2, <1>3, PTL DEF Spec
-----------------------------------------------------------------------------
\* Issuing q shares for n, rounded down, leaves each of the T shares at least
\* as much of A.
LEMMA IssueKeepsPrice ==
  ASSUME NEW n \in Nat, NEW T \in Nat, NEW A \in Nat \ {0}
  PROVE  (A + n) * T >= A * (T + (n * T) \div A)
<1> DEFINE q == (n * T) \div A
<1>1. n * T \in Nat
  BY MulNat
<1>2. q \in Nat /\ A * q <= n * T
  BY <1>1, DivNat, DivBounds
<1> HIDE DEF q
<1>3. /\ (A + n) * T = A * T + n * T
      /\ A * (T + q) = A * T + A * q
      /\ A * T \in Nat /\ A * q \in Nat
  BY <1>2
<1> QED BY <1>1, <1>2, <1>3 DEF q

\* Burning s shares for q, rounded down, leaves each of the others at least
\* as much of A.
LEMMA PayoutKeepsPrice ==
  ASSUME NEW T \in Nat \ {0}, NEW A \in Nat, NEW s \in Nat
  PROVE  (A - (A * s) \div T) * T >= A * (T - s)
<1> DEFINE q == (A * s) \div T
<1>1. A * s \in Nat
  BY MulNat
<1>2. q \in Nat /\ T * q <= A * s
  BY <1>1, DivNat, DivBounds
<1> HIDE DEF q
<1>3. /\ (A - q) * T = A * T - T * q
      /\ A * (T - s) = A * T - A * s
      /\ A * T \in Nat /\ T * q \in Nat
  BY <1>2
<1> QED BY <1>1, <1>2, <1>3 DEF q

\* The price of a step, named so that the cases below can state it.
PriceKept ==
  totalShares # 0 /\ totalShares' # 0
    => staked' * totalShares >= (staked + Yield) * totalShares'

\* LOOKS that only change hands between a wallet and the stake are no yield.
LEMMA YieldIsCompound ==
  ASSUME TypeOK, NEW u \in User, NEW c \in Nat, NEW d \in Int,
         wallet' = [wallet EXCEPT ![u] = @ - d], wallet[u] - d \in Nat,
         staked' = staked + c + d
  PROVE  Yield = c
<1>1. /\ wallet \in [User -> Nat] /\ wallet' \in [User -> Nat] /\ IsFiniteSet(User)
      /\ wallet'[u] = wallet[u] - d
      /\ \A v \in User \ {u} : wallet'[v] = wallet[v]
  <2>1. wallet \in [User -> Nat] /\ IsFiniteSet(User)
    BY FeeSharingAssumption DEF TypeOK
  <2>2. wallet' \in [User -> Nat]
    BY <2>1
  <2>3. wallet'[u] = wallet[u] - d /\ \A v \in User \ {u} : wallet'[v] = wallet[v]
    BY <2>1
  <2> QED BY <2>1, <2>2, <2>3
<1>2. SumOver(wallet', User) = SumOver(wallet, User) - wallet[u] + wallet'[u]
  <2> DEFINE w == wallet'
  <2>1. /\ w \in [User -> Nat] /\ \A v \in User \ {u} : w[v] = wallet[v]
    BY <1>1
  <2> HIDE DEF w
  <2>2. SumOver(w, User) = SumOver(wallet, User) - wallet[u] + w[u]
    BY <1>1, <2>1, SumUpdate
  <2> QED BY <2>2 DEF w
<1>3. SumOver(wallet, User) \in Nat /\ wallet[u] \in Nat /\ staked \in Nat
  BY <1>1, UnitsFinite DEF TypeOK
<1> QED BY <1>1, <1>2, <1>3 DEF Yield

\* A deposit keeps the price.
LEMMA DepositKeepsPrice ==
  ASSUME SharesInv, NEW u \in User, NEW c \in Compounds, NEW n \in 1..wallet[u],
         NEW claimRewardToken \in BOOLEAN, Deposit(u, n, claimRewardToken, c)
  PROVE  PriceKept
<1>1. /\ TypeOK /\ SharesRedeemable
      /\ c \in Nat /\ n \in Nat \ {0} /\ wallet[u] \in Nat /\ wallet[u] - n \in Nat
      /\ staked \in Nat /\ totalShares \in Nat
  BY FeeSharingAssumption DEF SharesInv, TypeOK
<1>2. /\ staked' = staked + c + n
      /\ wallet' = [wallet EXCEPT ![u] = @ - n]
      /\ totalShares' = totalShares + SharesFor(n, c)
  BY DEF Deposit, Issue
<1>3. Yield = c
  <2>1. n \in Int
    BY <1>1
  <2> QED BY <1>1, <1>2, <2>1, YieldIsCompound
<1>4. ASSUME totalShares # 0 PROVE staked' * totalShares >= (staked + c) * totalShares'
  <2> DEFINE total == staked + c
  <2>1. total \in Nat \ {0}
    BY <1>1, <1>4 DEF SharesRedeemable
  <2>2. /\ staked' = total + n
        /\ totalShares' = totalShares + (n * totalShares) \div total
    BY <1>2, <1>4 DEF SharesFor
  <2> HIDE DEF total
  <2>3. (total + n) * totalShares >= total * (totalShares + (n * totalShares) \div total)
    BY <1>1, <2>1, IssueKeepsPrice
  <2>4. staked' * totalShares >= total * totalShares'
    BY <2>2, <2>3, Zenon
  <2> QED BY <2>4 DEF total
<1> QED BY <1>3, <1>4, Zenon DEF PriceKept

\* A withdrawal keeps the price.
LEMMA WithdrawKeepsPrice ==
  ASSUME SharesInv, NEW u \in User, NEW c \in Compounds, NEW s \in 0..shares[u],
         NEW claimRewardToken \in BOOLEAN, WithdrawShares(u, s, claimRewardToken, c)
  PROVE  PriceKept
<1> DEFINE paid == CurrentAmount(s, c)
<1>1. /\ TypeOK /\ c \in Nat /\ s \in Nat /\ staked \in Nat /\ wallet \in [User -> Nat]
      /\ wallet[u] \in Nat
  BY FeeSharingAssumption DEF SharesInv, TypeOK
<1>2. /\ totalShares \in Nat \ {0}
      /\ paid \in 1..(staked + c)
      /\ staked' = staked + c - paid
      /\ wallet' = [wallet EXCEPT ![u] = @ + paid]
      /\ totalShares' = totalShares - s
  BY <1>1 DEF WithdrawShares, Burn, TypeOK
<1>3. Yield = c
  <2> HIDE DEF paid
  <2> DEFINE d == -paid
  <2>1. d \in Int /\ wallet[u] - d \in Nat /\ staked' = staked + c + d
        /\ wallet' = [wallet EXCEPT ![u] = @ - d]
    <3>1. paid \in Nat /\ paid >= 0
      BY <1>1, <1>2
    <3>2. d \in Int /\ wallet[u] - d = wallet[u] + paid /\ staked + c + d = staked + c - paid
      BY <1>1, <3>1
    <3> HIDE DEF d
    <3>3. wallet' = [wallet EXCEPT ![u] = @ - d]
      BY <1>2, <3>2, Zenon
    <3>4. wallet[u] - d \in Nat /\ staked' = staked + c + d
      BY <1>1, <1>2, <3>1, <3>2
    <3> QED BY <3>2, <3>3, <3>4, Zenon
  <2> HIDE DEF d
  <2> QED BY <1>1, <2>1, YieldIsCompound
<1>4. staked' * totalShares >= (staked + c) * totalShares'
  <2> DEFINE total == staked + c
  <2>1. total \in Nat
    BY <1>1
  <2>2. /\ staked' = total - (total * s) \div totalShares
        /\ totalShares' = totalShares - s
    <3>1. paid = (total * s) \div totalShares
      BY DEF CurrentAmount
    <3> HIDE DEF paid
    <3>2. staked' = total - paid
      BY <1>1, <1>2
    <3> QED BY <1>2, <3>1, <3>2, Zenon
  <2> HIDE DEF total, paid
  <2>3. (total - (total * s) \div totalShares) * totalShares >= total * (totalShares - s)
    BY <1>1, <1>2, <2>1, PayoutKeepsPrice
  <2>4. staked' * totalShares >= total * totalShares'
    BY <2>2, <2>3, Zenon
  <2> QED BY <2>4 DEF total
<1> QED BY <1>3, <1>4, Zenon DEF PriceKept

\* Neither the rounding of a deposit nor that of a withdrawal ever takes
\* LOOKS from the holders of the other shares, whatever the amounts and
\* whatever was compounded in the same transaction.
THEOREM PriceSafe == Spec => SharePriceNeverFalls
<1>1. SharesInv /\ [Next]_systemVars => [PriceKept]_systemVars
  <2> SUFFICES ASSUME SharesInv, [Next]_systemVars PROVE PriceKept \/ UNCHANGED systemVars
    OBVIOUS
  <2>0. TypeOK /\ staked \in Nat /\ totalShares \in Nat /\ SumOver(wallet, User) \in Nat
    <3>1. wallet \in [User -> Nat] /\ IsFiniteSet(User)
      BY FeeSharingAssumption DEF SharesInv, TypeOK
    <3> QED BY <3>1, UnitsFinite DEF SharesInv, TypeOK
  <2>1. ASSUME NEW u \in User, NEW c \in Compounds, NEW claimRewardToken \in BOOLEAN,
               NEW n \in 1..wallet[u], Deposit(u, n, claimRewardToken, c)
        PROVE  PriceKept
    BY <2>1, DepositKeepsPrice
  <2>2. ASSUME NEW s, staked' = s, s \in Nat, UNCHANGED <<totalShares, wallet>>
        PROVE  PriceKept
    <3>1. staked + Yield = s
      BY <2>0, <2>2 DEF Yield
    <3>2. s * totalShares >= s * totalShares
      BY <2>0, <2>2, MulNat
    <3> QED BY <2>2, <3>1, <3>2 DEF PriceKept
  <2>3. ASSUME NEW u \in User, NEW c \in Compounds, Harvest(u, c)
        PROVE  PriceKept
    <3>1. c \in Nat /\ staked' = staked + c /\ UNCHANGED <<totalShares, wallet>>
      BY <2>3, FeeSharingAssumption DEF Harvest
    <3> QED BY <2>0, <2>2, <3>1
  <2>4. ASSUME NEW u \in User, NEW c \in Compounds, NEW claimRewardToken \in BOOLEAN,
               NEW s \in 1..totalShares, Withdraw(u, s, claimRewardToken, c)
        PROVE  PriceKept
    <3>1. s \in 0..shares[u] /\ WithdrawShares(u, s, claimRewardToken, c)
      BY <2>0, <2>4 DEF Withdraw, TypeOK
    <3> QED BY <3>1, WithdrawKeepsPrice
  <2>5. ASSUME NEW u \in User, NEW c \in Compounds, NEW claimRewardToken \in BOOLEAN,
               WithdrawAll(u, claimRewardToken, c)
        PROVE  PriceKept
    <3>1. shares[u] \in 0..shares[u] /\ WithdrawShares(u, shares[u], claimRewardToken, c)
      BY <2>0, <2>5 DEF WithdrawAll, TypeOK
    <3> QED BY <3>1, WithdrawKeepsPrice
  <2>6. ASSUME NEW reward \in OwnerRewards, NEW duration \in OwnerDurations,
               FundedUpdateRewards(reward, duration)
        PROVE  PriceKept
    BY <2>0, <2>2, <2>6 DEF FundedUpdateRewards, UpdateRewards
  <2>7. CASE NextBlock
    BY <2>0, <2>2, <2>7 DEF NextBlock
  <2> QED BY <2>1, <2>3, <2>4, <2>5, <2>6, <2>7 DEF Next, UserNext, UserStep
<1>2. Spec => []SharesInv
  BY SharesSafe, PTL DEF SharesInv, SharesSound
<1>3. [][PriceKept]_systemVars => SharePriceNeverFalls
  BY PTL DEF SharePriceNeverFalls, PriceKept
<1> QED BY <1>1, <1>2, <1>3, PTL DEF Spec
-----------------------------------------------------------------------------
\* The preview of a step, named so that the cases below can state it.
ValueShown ==
  \A u \in User : shares[u] # 0 /\ shares'[u] = 0
    => wallet'[u] - wallet[u] = CalculateSharesValueInLOOKS(u, Yield)

\* A withdrawal that leaves its user no share redeems all it had.
LEMMA WithdrawShown ==
  ASSUME SharesInv, NEW u \in User, NEW c \in Compounds, NEW s \in 0..shares[u],
         NEW claimRewardToken \in BOOLEAN, WithdrawShares(u, s, claimRewardToken, c)
  PROVE  ValueShown
<1> DEFINE paid == CurrentAmount(s, c)
<1>1. /\ TypeOK /\ c \in Nat /\ s \in Nat /\ shares \in [User -> Nat] /\ wallet \in [User -> Nat]
      /\ staked \in Nat
  BY FeeSharingAssumption DEF SharesInv, TypeOK
<1>2. /\ paid \in 1..(staked + c)
      /\ staked' = staked + c - paid
      /\ wallet' = [wallet EXCEPT ![u] = @ + paid]
      /\ shares' = [shares EXCEPT ![u] = @ - s]
  BY DEF WithdrawShares, Burn
<1>3. Yield = c
  <2> HIDE DEF paid
  <2> DEFINE d == -paid
  <2>1. d \in Int /\ wallet[u] - d \in Nat /\ wallet[u] - d = wallet[u] + paid
        /\ staked' = staked + c + d
    BY <1>1, <1>2
  <2> HIDE DEF d
  <2>2. wallet' = [wallet EXCEPT ![u] = @ - d]
    BY <1>2, <2>1, Zenon
  <2> QED BY <1>1, <2>1, <2>2, YieldIsCompound
<1>4. SUFFICES ASSUME NEW v \in User, shares[v] # 0, shares'[v] = 0
               PROVE  wallet'[v] - wallet[v] = CalculateSharesValueInLOOKS(v, c)
  BY <1>3 DEF ValueShown
<1>5. v = u /\ s = shares[u]
  BY <1>1, <1>2, <1>4
<1>6. wallet'[v] - wallet[v] = paid
  <2> HIDE DEF paid
  <2> QED BY <1>1, <1>2, <1>5
<1> QED BY <1>4, <1>5, <1>6 DEF CalculateSharesValueInLOOKS, CurrentAmount

\* Whoever redeems all its shares is paid exactly what the view promised for
\* the reward compounded in that transaction.
THEOREM PreviewKept == Spec => ValuePreviewed
<1>1. SharesInv /\ [Next]_systemVars => [ValueShown]_systemVars
  <2> SUFFICES ASSUME SharesInv, Next PROVE ValueShown
    OBVIOUS
  <2>0. TypeOK /\ shares \in [User -> Nat]
    BY DEF SharesInv, TypeOK
  <2>1. ASSUME \A v \in User : shares'[v] >= shares[v] PROVE ValueShown
    <3>1. ASSUME NEW v \in User, shares[v] # 0 PROVE shares'[v] # 0
      BY <2>0, <2>1, <3>1
    <3> QED BY <3>1 DEF ValueShown
  <2>2. ASSUME NEW u \in User, NEW c \in Compounds, NEW claimRewardToken \in BOOLEAN,
               NEW n \in 1..wallet[u], Deposit(u, n, claimRewardToken, c)
        PROVE  ValueShown
    <3>1. SharesInv'
      BY <2>2, DepositShares
    <3>2. shares' = [shares EXCEPT ![u] = @ + SharesFor(n, c)]
          /\ totalShares' = totalShares + SharesFor(n, c)
      BY <2>2 DEF Deposit, Issue
    <3>3. SharesFor(n, c) \in Nat
      <4>1. totalShares \in Nat /\ n \in Nat /\ c \in Nat /\ staked \in Nat
        BY <2>0, <2>2, FeeSharingAssumption DEF TypeOK
      <4>2. CASE totalShares = 0
        BY <4>1, <4>2 DEF SharesFor
      <4>3. CASE totalShares # 0
        <5>1. staked + c \in Nat \ {0} /\ n * totalShares \in Nat
          BY <4>1, <4>3, MulNat DEF SharesInv, SharesRedeemable
        <5> QED BY <5>1, <4>3, DivNat DEF SharesFor
      <4> QED BY <4>2, <4>3
    <3>4. \A v \in User : shares'[v] >= shares[v]
      BY <2>0, <3>2, <3>3
    <3> QED BY <3>4, <2>1
  <2>3. ASSUME NEW u \in User, NEW c \in Compounds, NEW claimRewardToken \in BOOLEAN,
               NEW s \in 1..totalShares, Withdraw(u, s, claimRewardToken, c)
        PROVE  ValueShown
    <3>1. s \in 0..shares[u] /\ WithdrawShares(u, s, claimRewardToken, c)
      BY <2>0, <2>3 DEF Withdraw, TypeOK
    <3> QED BY <3>1, WithdrawShown
  <2>4. ASSUME NEW u \in User, NEW c \in Compounds, NEW claimRewardToken \in BOOLEAN,
               WithdrawAll(u, claimRewardToken, c)
        PROVE  ValueShown
    <3>1. shares[u] \in 0..shares[u] /\ WithdrawShares(u, shares[u], claimRewardToken, c)
      BY <2>0, <2>4 DEF WithdrawAll
    <3> QED BY <3>1, WithdrawShown
  <2>5. ASSUME UNCHANGED shares PROVE ValueShown
    BY <2>0, <2>1, <2>5
  <2>6. ASSUME NEW u \in User, NEW c \in Compounds, Harvest(u, c) PROVE ValueShown
    BY <2>5, <2>6 DEF Harvest
  <2>7. ASSUME NEW reward \in OwnerRewards, NEW duration \in OwnerDurations,
               FundedUpdateRewards(reward, duration)
        PROVE  ValueShown
    BY <2>5, <2>7 DEF FundedUpdateRewards, UpdateRewards, accounts
  <2>8. CASE NextBlock
    BY <2>5, <2>8 DEF NextBlock, accounts
  <2> QED BY <2>2, <2>3, <2>4, <2>6, <2>7, <2>8 DEF Next, UserNext, UserStep
<1>2. Spec => []SharesInv
  BY SharesSafe, PTL DEF SharesInv, SharesSound
<1>3. [][ValueShown]_systemVars => ValuePreviewed
  BY PTL DEF ValuePreviewed, ValueShown, CalculateSharesValueInLOOKS, Yield
<1> QED BY <1>1, <1>2, <1>3, PTL DEF Spec
-----------------------------------------------------------------------------
(* The claims of the users *)

\* What the account of u is due when the accumulator stands at x, and what all
\* accounts are due with the rewards of the blocks from b on, both times
\* PRECISION_FACTOR.
Owed(x) ==
  [u \in User |-> shares[u] * (x - userRewardPerTokenPaid[u]) + PRECISION_FACTOR * rewards[u]]
Promised(x, b) ==
  SumOver(Owed(x), User) + PRECISION_FACTOR * currentRewardPerBlock * (periodEndBlock - b)

\* The inductive form of ClaimsFunded: at the last checkpoint, before the
\* division that turns blocks into rewards per share.  Rounding makes the
\* claims of today rise by more than the reward of a block now and then, so
\* that ClaimsFunded does not follow from itself one block earlier.
StoredFunded == Promised(rewardPerTokenStored, lastUpdateBlock) <= PRECISION_FACTOR * weth

FundedInv == SharesInv /\ NoCheckpointReverts /\ StoredFunded

\* The clocks and the accumulator, when no checkpoint reverts.
LEMMA ClockTypes ==
  ASSUME TypeOK, NoCheckpointReverts
  PROVE  /\ LastRewardBlock \in Nat
         /\ LastRewardBlock - lastUpdateBlock \in Nat
         /\ periodEndBlock - LastRewardBlock \in Nat
         /\ RewardPerToken \in Nat
         /\ RewardPerToken - rewardPerTokenStored \in Nat
         /\ totalShares * (RewardPerToken - rewardPerTokenStored)
              <= (LastRewardBlock - lastUpdateBlock) * (currentRewardPerBlock * PRECISION_FACTOR)
         /\ LastRewardBlock = lastUpdateBlock => RewardPerToken = rewardPerTokenStored
<1> DEFINE grown == (LastRewardBlock - lastUpdateBlock)
                      * (currentRewardPerBlock * PRECISION_FACTOR)
<1>1. /\ LastRewardBlock \in Nat
      /\ LastRewardBlock - lastUpdateBlock \in Nat
      /\ periodEndBlock - LastRewardBlock \in Nat
      /\ totalShares \in Nat /\ rewardPerTokenStored \in Nat
      /\ currentRewardPerBlock * PRECISION_FACTOR \in Nat
  <2>1. /\ LastRewardBlock \in Nat
        /\ LastRewardBlock - lastUpdateBlock \in Nat
        /\ periodEndBlock - LastRewardBlock \in Nat
    BY DEF TypeOK, NoCheckpointReverts, LastRewardBlock
  <2>2. currentRewardPerBlock * PRECISION_FACTOR \in Nat
    BY FeeSharingAssumption, MulNat DEF TypeOK
  <2> QED BY <2>1, <2>2 DEF TypeOK
<1>2. grown \in Nat
  BY <1>1, MulNat
<1>3. RewardPerToken = IF totalShares = 0 THEN rewardPerTokenStored
                       ELSE rewardPerTokenStored + grown \div totalShares
  BY DEF RewardPerToken
<1>4. LastRewardBlock = lastUpdateBlock => grown = 0
  BY <1>1
<1> HIDE DEF grown
<1>5. CASE totalShares = 0
  BY <1>1, <1>2, <1>3, <1>5 DEF grown
<1>6. CASE totalShares # 0
  <2> DEFINE q == grown \div totalShares
  <2>1. q \in Nat /\ totalShares * q <= grown /\ (grown = 0 => q = 0)
    <3>1. totalShares \in Nat \ {0}
      BY <1>1, <1>6
    <3>2. q \in Nat /\ totalShares * q <= grown
      BY <1>2, <3>1, DivNat, DivBounds
    <3>3. grown = 0 => q = 0
      BY <3>1
    <3> QED BY <3>2, <3>3
  <2>2. RewardPerToken = rewardPerTokenStored + q
    BY <1>3, <1>6
  <2> HIDE DEF q
  <2>3. RewardPerToken \in Nat /\ RewardPerToken - rewardPerTokenStored = q
    BY <1>1, <2>1, <2>2
  <2> QED BY <1>1, <1>4, <2>1, <2>2, <2>3 DEF grown
<1> QED BY <1>5, <1>6

\* What an account is due is a natural.
LEMMA OwedTypes ==
  ASSUME TypeOK, NoCheckpointReverts, NEW x \in Nat, rewardPerTokenStored <= x
  PROVE  /\ Owed(x) \in [User -> Nat]
         /\ IsFiniteSet(User)
         /\ SumOver(Owed(x), User) \in Nat
<1>1. ASSUME NEW u \in User
      PROVE  shares[u] * (x - userRewardPerTokenPaid[u]) + PRECISION_FACTOR * rewards[u] \in Nat
  <2>1. shares[u] \in Nat /\ x - userRewardPerTokenPaid[u] \in Nat /\ rewards[u] \in Nat
    BY DEF TypeOK, NoCheckpointReverts
  <2>2. /\ shares[u] * (x - userRewardPerTokenPaid[u]) \in Nat
        /\ PRECISION_FACTOR * rewards[u] \in Nat
    BY <2>1, MulNat, FeeSharingAssumption
  <2> QED BY <2>2
<1>2. Owed(x) \in [User -> Nat]
  BY <1>1, Zenon DEF Owed
<1>3. IsFiniteSet(User)
  BY FeeSharingAssumption
<1> HIDE DEF Owed
<1> QED BY <1>2, <1>3, UnitsFinite

\* Whatever the accumulator rises by is due to every share.
LEMMA OwedLater ==
  ASSUME SharesInv, NoCheckpointReverts, NEW x \in Nat, rewardPerTokenStored <= x
  PROVE  SumOver(Owed(x), User)
           <= SumOver(Owed(rewardPerTokenStored), User) + totalShares * (x - rewardPerTokenStored)
<1> DEFINE d == x - rewardPerTokenStored
           f == Owed(rewardPerTokenStored)
           g == [u \in User |-> d * shares[u]]
           h == Owed(x)
<1>1. /\ TypeOK /\ SharesAccounted /\ IsFiniteSet(User) /\ shares \in [User -> Nat]
      /\ rewardPerTokenStored \in Nat /\ d \in Nat /\ totalShares \in Nat
  BY FeeSharingAssumption DEF SharesInv, TypeOK
<1>2. f \in [User -> Nat] /\ h \in [User -> Nat]
  BY <1>1, OwedTypes
<1>3. ASSUME NEW u \in User PROVE g[u] \in Nat /\ h[u] = f[u] + g[u]
  <2>1. /\ shares[u] \in Nat /\ userRewardPerTokenPaid[u] \in Nat /\ rewards[u] \in Nat
        /\ rewardPerTokenStored - userRewardPerTokenPaid[u] \in Nat
    BY <1>1 DEF TypeOK, NoCheckpointReverts
  <2> DEFINE a == rewardPerTokenStored - userRewardPerTokenPaid[u]
             s == shares[u]
             r == PRECISION_FACTOR * rewards[u]
  <2>2. x - userRewardPerTokenPaid[u] = a + d
    BY <1>1, <2>1
  <2>3. h[u] = s * (x - userRewardPerTokenPaid[u]) + r /\ f[u] = s * a + r /\ g[u] = d * s
    BY DEF Owed
  <2>4. h[u] = s * (a + d) + r
    BY <2>2, <2>3, Zenon
  <2>5. a \in Nat /\ s \in Nat /\ d \in Nat /\ r \in Nat
    BY <1>1, <2>1, MulNat, FeeSharingAssumption
  <2> HIDE DEF a, s, r, d, f, g, h
  <2>6. s * (a + d) = s * a + d * s /\ s * a \in Nat /\ d * s \in Nat
    BY <2>5
  <2> QED BY <2>3, <2>4, <2>5, <2>6
<1>4. g \in [User -> Nat]
  BY <1>3
<1> HIDE DEF f, g, h, d
<1>5. SumOver(h, User) = SumOver(f, User) + SumOver(g, User)
  BY <1>1, <1>2, <1>3, <1>4, SumAdd
<1>6. SumOver(g, User) <= d * totalShares
  <2>1. \A u \in User : 1 * g[u] <= d * shares[u]
    <3>1. ASSUME NEW u \in User PROVE 1 * g[u] <= d * shares[u]
      <4>1. g[u] = d * shares[u] /\ g[u] \in Nat
        BY <1>3 DEF g
      <4> QED BY <4>1
    <3> QED BY <3>1
  <2>2. 1 * SumOver(g, User) <= d * SumOver(shares, User)
    BY <1>1, <1>4, <2>1, SumBound
  <2>3. SumOver(g, User) \in Nat
    BY <1>1, <1>4, UnitsFinite
  <2>4. SumOver(shares, User) = totalShares
    BY <1>1 DEF SharesAccounted
  <2> QED BY <2>2, <2>3, <2>4
<1>7. SumOver(f, User) \in Nat /\ SumOver(g, User) \in Nat
  BY <1>1, <1>2, <1>4, UnitsFinite
<1>8. d * totalShares = totalShares * d /\ d * totalShares \in Nat
  BY <1>1
<1> QED BY <1>5, <1>6, <1>7, <1>8 DEF f, h, d

\* The claims of today are covered by what was covered at the last checkpoint.
LEMMA FundedToday ==
  ASSUME FundedInv
  PROVE  ClaimsFunded
<1>1. TypeOK /\ SharesInv /\ NoCheckpointReverts /\ StoredFunded
  BY DEF FundedInv, SharesInv
<1> DEFINE x == RewardPerToken
           y == rewardPerTokenStored
           past == LastRewardBlock - lastUpdateBlock
           rest == periodEndBlock - LastRewardBlock
           k == PRECISION_FACTOR * currentRewardPerBlock
           t == totalShares * (x - y)
<1>2. /\ x \in Nat /\ y \in Nat /\ y <= x /\ past \in Nat /\ rest \in Nat /\ k \in Nat /\ t \in Nat
      /\ periodEndBlock - lastUpdateBlock = past + rest
  <2>1. x \in Nat /\ x - y \in Nat /\ past \in Nat /\ rest \in Nat /\ LastRewardBlock \in Nat
    BY <1>1, ClockTypes
  <2>2. y \in Nat /\ totalShares \in Nat /\ periodEndBlock \in Nat /\ lastUpdateBlock \in Nat
        /\ k \in Nat
    BY <1>1, MulNat, FeeSharingAssumption DEF TypeOK
  <2>3. t \in Nat
    BY <2>1, <2>2, MulNat
  <2> QED BY <2>1, <2>2, <2>3
<1>3. t <= past * k
  <2>1. t <= past * (currentRewardPerBlock * PRECISION_FACTOR)
    BY <1>1, ClockTypes
  <2>2. currentRewardPerBlock * PRECISION_FACTOR = k
    BY <1>1, FeeSharingAssumption DEF TypeOK
  <2> QED BY <2>1, <2>2, Zenon
<1>4. SumOver(Owed(x), User) <= SumOver(Owed(y), User) + t
  BY <1>1, <1>2, OwedLater
<1>5. SumOver(Owed(x), User) \in Nat /\ SumOver(Owed(y), User) \in Nat
  <2>1. y <= y
    BY <1>2
  <2> QED BY <1>1, <1>2, <2>1, OwedTypes
<1>6. SumOver(Owed(y), User) + k * (past + rest) <= PRECISION_FACTOR * weth
  BY <1>1, <1>2 DEF StoredFunded, Promised
<1>7. PRECISION_FACTOR * weth \in Nat
  BY <1>1, MulNat, FeeSharingAssumption DEF TypeOK
<1>8. ClaimsFunded <=> SumOver(Owed(x), User) + k * rest <= PRECISION_FACTOR * weth
  BY DEF ClaimsFunded, Owed
<1> DEFINE o == SumOver(Owed(x), User)
           p == SumOver(Owed(y), User)
           w == PRECISION_FACTOR * weth
<1> HIDE DEF x, y, past, rest, k, t, o, p, w
<1>9. k * (past + rest) = past * k + k * rest /\ past * k \in Nat /\ k * rest \in Nat
  BY <1>2
<1>10. o + k * rest <= w
  <2>1. o \in Nat /\ p \in Nat /\ w \in Nat /\ o <= p + t /\ p + k * (past + rest) <= w
    BY <1>4, <1>5, <1>6, <1>7 DEF o, p, w
  <2> QED BY <1>2, <1>3, <1>9, <2>1
<1> QED BY <1>8, <1>10 DEF o, w

\* A checkpoint brings the accumulator and its clock up to date, in either branch.
LEMMA CheckpointMarks ==
  ASSUME TypeOK, NoCheckpointReverts, NEW u \in User, UpdateReward(u)
  PROVE  /\ rewardPerTokenStored' = RewardPerToken
         /\ lastUpdateBlock' = LastRewardBlock
         /\ userRewardPerTokenPaid' = [userRewardPerTokenPaid EXCEPT ![u] = RewardPerToken]
<1>1. CASE block # lastUpdateBlock
  BY <1>1 DEF UpdateReward
<1>2. CASE block = lastUpdateBlock
  <2>1. LastRewardBlock = lastUpdateBlock
    BY <1>2 DEF UpdateReward, LastRewardBlock, TypeOK
  <2>2. RewardPerToken = rewardPerTokenStored
    BY <2>1, ClockTypes
  <2> QED BY <1>2, <2>1, <2>2 DEF UpdateReward
<1> QED BY <1>1, <1>2

\* What an account is paid, in units, is no more than it is due.
LEMMA PendingOwed ==
  ASSUME TypeOK, NoCheckpointReverts, NEW u \in User
  PROVE  /\ CalculatePendingRewards(u) \in Nat
         /\ PRECISION_FACTOR * CalculatePendingRewards(u) <= Owed(RewardPerToken)[u]
<1> DEFINE a == shares[u] * (RewardPerToken - userRewardPerTokenPaid[u])
           r == rewards[u]
           P == PRECISION_FACTOR
<1>1. /\ shares[u] \in Nat /\ RewardPerToken - userRewardPerTokenPaid[u] \in Nat
      /\ r \in Nat /\ P \in Nat \ {0}
  <2>1. RewardPerToken \in Nat /\ RewardPerToken >= rewardPerTokenStored
        /\ rewardPerTokenStored \in Nat
    BY ClockTypes DEF TypeOK
  <2>2. userRewardPerTokenPaid[u] \in Nat /\ userRewardPerTokenPaid[u] <= rewardPerTokenStored
    BY DEF TypeOK, NoCheckpointReverts
  <2> QED BY <2>1, <2>2, FeeSharingAssumption DEF TypeOK
<1>2. a \in Nat
  BY <1>1, MulNat
<1>3. CalculatePendingRewards(u) = a \div P + r /\ Owed(RewardPerToken)[u] = a + P * r
  BY DEF CalculatePendingRewards, Owed
<1> DEFINE q == a \div P
<1> HIDE DEF a, r
<1>4. q \in Nat /\ P * q <= a
  BY <1>1, <1>2, DivNat, DivBounds
<1> HIDE DEF q, P
<1>5. P * (q + r) = P * q + P * r /\ P * q \in Nat /\ P * r \in Nat /\ q + r \in Nat
  BY <1>1, <1>4
<1>6. CalculatePendingRewards(u) = q + r
  BY <1>3 DEF q
<1>7. P * (q + r) <= a + P * r
  BY <1>2, <1>4, <1>5
<1> QED BY <1>3, <1>5, <1>6, <1>7 DEF P

\* What every transaction of a user u does to the reward side: a checkpoint of
\* u, and a claim or none.
LEMMA UserCheckpoints ==
  ASSUME TypeOK, NEW u \in User, UserStep(u)
  PROVE  \E claimRewardToken \in BOOLEAN :
           /\ UpdateReward(u) /\ Claim(u, claimRewardToken) /\ UNCHANGED <<block, period>>
           /\ \A v \in User \ {u} : shares'[v] = shares[v]
<1>0. shares \in [User -> Nat]
  BY DEF TypeOK
<1>1. ASSUME NEW c \in Compounds, NEW claimRewardToken \in BOOLEAN, NEW n,
             Deposit(u, n, claimRewardToken, c)
      PROVE  /\ UpdateReward(u) /\ Claim(u, claimRewardToken) /\ UNCHANGED <<block, period>>
             /\ \A v \in User \ {u} : shares'[v] = shares[v]
  BY <1>0, <1>1 DEF Deposit, Issue
<1>2. ASSUME NEW c \in Compounds, Harvest(u, c)
      PROVE  /\ UpdateReward(u) /\ Claim(u, TRUE) /\ UNCHANGED <<block, period>>
             /\ \A v \in User \ {u} : shares'[v] = shares[v]
  BY <1>2 DEF Harvest
<1>3. ASSUME NEW c \in Compounds, NEW claimRewardToken \in BOOLEAN, NEW s,
             WithdrawShares(u, s, claimRewardToken, c)
      PROVE  /\ UpdateReward(u) /\ Claim(u, claimRewardToken) /\ UNCHANGED <<block, period>>
             /\ \A v \in User \ {u} : shares'[v] = shares[v]
  BY <1>0, <1>3 DEF WithdrawShares, Burn
<1> QED BY <1>1, <1>2, <1>3 DEF UserStep, Withdraw, WithdrawAll

\* A transaction of u checkpoints u, pays or keeps its claim, and changes no
\* shares but those of u.
LEMMA CheckpointFunded ==
  ASSUME FundedInv, TypeOK', NEW u \in User, NEW claimRewardToken \in BOOLEAN,
         UpdateReward(u), Claim(u, claimRewardToken), UNCHANGED <<block, period>>,
         \A v \in User \ {u} : shares'[v] = shares[v]
  PROVE  StoredFunded'
<1> DEFINE x == RewardPerToken
           f == Owed(x)
           g == Owed(rewardPerTokenStored)'
           rest == periodEndBlock - LastRewardBlock
           k == PRECISION_FACTOR * currentRewardPerBlock
           c == CalculatePendingRewards(u)
           P == PRECISION_FACTOR
<1>1. TypeOK /\ NoCheckpointReverts /\ IsFiniteSet(User) /\ P \in Nat /\ weth \in Nat
  BY FeeSharingAssumption DEF FundedInv, SharesInv, TypeOK
<1>2. /\ rewardPerTokenStored' = x
      /\ lastUpdateBlock' = LastRewardBlock
      /\ userRewardPerTokenPaid' = [userRewardPerTokenPaid EXCEPT ![u] = x]
  BY <1>1, CheckpointMarks
<1>3. x \in Nat /\ rewardPerTokenStored <= x /\ rest \in Nat /\ k \in Nat
  <2>1. x \in Nat /\ x - rewardPerTokenStored \in Nat /\ rest \in Nat
    BY <1>1, ClockTypes
  <2>2. rewardPerTokenStored \in Nat /\ k \in Nat
    BY <1>1, MulNat DEF TypeOK
  <2> QED BY <2>1, <2>2
<1>4. f \in [User -> Nat] /\ SumOver(f, User) \in Nat
  BY <1>1, <1>3, OwedTypes
<1>5. c \in Nat /\ P * c <= f[u] /\ P * c \in Nat
  BY <1>1, PendingOwed, MulNat
<1>6. userRewardPerTokenPaid'[u] = x
      /\ \A v \in User \ {u} : userRewardPerTokenPaid'[v] = userRewardPerTokenPaid[v]
  BY <1>1, <1>2 DEF TypeOK
<1>7. /\ rewards'[u] = IF claimRewardToken THEN 0 ELSE c
      /\ \A v \in User \ {u} : rewards'[v] = rewards[v]
      /\ weth' = IF claimRewardToken THEN weth - c ELSE weth
      /\ claimRewardToken => c <= weth
  <2> HIDE DEF c
  <2>1. CalculatePendingRewards(u) = c /\ rewards \in [User -> Nat]
    BY <1>1 DEF c, TypeOK
  <2>2. CASE claimRewardToken
    BY <2>1, <2>2 DEF Claim
  <2>3. CASE ~claimRewardToken
    BY <2>1, <2>3 DEF Claim
  <2> QED BY <2>2, <2>3
<1>8. \A v \in User : g[v] = shares'[v] * (x - userRewardPerTokenPaid'[v]) + P * rewards'[v]
  BY <1>2 DEF Owed
<1>9. \A v \in User \ {u} : g[v] = f[v]
  BY <1>6, <1>7, <1>8 DEF Owed
<1>10. g[u] = P * (IF claimRewardToken THEN 0 ELSE c)
  <2>1. g[u] = shares'[u] * (x - x) + P * (IF claimRewardToken THEN 0 ELSE c)
    BY <1>6, <1>7, <1>8, Zenon
  <2>2. shares'[u] \in Nat /\ x - x = 0 /\ P * (IF claimRewardToken THEN 0 ELSE c) \in Nat
    <3>1. (IF claimRewardToken THEN 0 ELSE c) \in Nat
      BY <1>5
    <3> QED BY <3>1, <1>1, <1>3, MulNat DEF TypeOK
  <2> HIDE DEF x, P, c, g
  <2>3. shares'[u] * 0 = 0
    BY <2>2
  <2>4. g[u] = shares'[u] * 0 + P * (IF claimRewardToken THEN 0 ELSE c)
    BY <2>1, <2>2, Zenon
  <2> QED BY <2>2, <2>3, <2>4
<1>11. g \in [User -> Nat]
  <2>1. g = [v \in User |-> g[v]]
    BY DEF Owed
  <2>2. g[u] \in Nat
    BY <1>1, <1>5, <1>10
  <2>3. \A v \in User : g[v] \in Nat
    BY <1>4, <1>9, <2>2
  <2> HIDE DEF g
  <2> QED BY <2>1, <2>3
<1>12. SumOver(g, User) = SumOver(f, User) - f[u] + g[u]
  <2> HIDE DEF f, g
  <2> QED BY <1>1, <1>4, <1>9, <1>11, SumUpdate
<1>13. SumOver(f, User) + k * rest <= P * weth
  <2>1. ClaimsFunded
    BY FundedToday
  <2> QED BY <2>1 DEF ClaimsFunded, Owed
<1>14. StoredFunded' <=> SumOver(g, User) + k * rest <= P * weth'
  BY <1>2 DEF StoredFunded, Promised, period
<1>15. k * rest \in Nat /\ f[u] \in Nat
  BY <1>3, <1>4, MulNat
<1> DEFINE F == SumOver(f, User)
           G == SumOver(g, User)
           R == k * rest
<1> HIDE DEF F, G, R, f, g, k, rest, c, P, x
<1>16. F \in Nat /\ G = F - f[u] + g[u] /\ F + R <= P * weth /\ R \in Nat
  BY <1>4, <1>12, <1>13, <1>15 DEF F, G, R
<1>17. G + R <= P * weth'
  <2>1. CASE claimRewardToken
    <3>1. g[u] = 0 /\ weth' = weth - c
      BY <1>1, <1>7, <1>10, <2>1
    <3>2. P * (weth - c) = P * weth - P * c /\ P * weth \in Nat
      BY <1>1, <1>5
    <3> QED BY <3>1, <3>2, <1>5, <1>15, <1>16
  <2>2. CASE ~claimRewardToken
    <3>1. g[u] = P * c /\ weth' = weth /\ P * weth \in Nat
      BY <1>1, <1>7, <1>10, <2>2, MulNat
    <3> QED BY <3>1, <1>5, <1>15, <1>16
  <2> QED BY <2>1, <2>2
<1> QED BY <1>14, <1>17 DEF G, R

\* A new period promises what the last one still did and the reward that came
\* with it, divided by blocks and rounded down.
LEMMA RenewalFunded ==
  ASSUME FundedInv, NEW reward \in Nat, NEW duration \in Nat,
         UpdateRewards(reward, duration), weth' = weth + reward
  PROVE  StoredFunded'
<1> DEFINE o == SumOver(Owed(rewardPerTokenStored), User)
           n == duration
           P == PRECISION_FACTOR
           left == IF block >= periodEndBlock THEN 0
                   ELSE (periodEndBlock - block) * currentRewardPerBlock
           still == currentRewardPerBlock * (periodEndBlock - lastUpdateBlock)
<1>1. TypeOK /\ NoCheckpointReverts /\ P \in Nat /\ weth \in Nat /\ currentRewardPerBlock \in Nat
  BY FeeSharingAssumption DEF FundedInv, SharesInv, TypeOK
<1>2. /\ TypeOK'
      /\ UNCHANGED <<shares, userRewardPerTokenPaid, rewards, rewardPerTokenStored>>
      /\ n * currentRewardPerBlock' <= reward + left
  BY <1>1, PeriodTypes
<1>3. lastUpdateBlock' = block /\ periodEndBlock' = block + n /\ n \in Nat
      /\ block \in Nat /\ currentRewardPerBlock' \in Nat
  BY <1>1, <1>2 DEF UpdateRewards, TypeOK
<1>4. o \in Nat
  <2>1. rewardPerTokenStored \in Nat /\ rewardPerTokenStored <= rewardPerTokenStored
    BY <1>1 DEF TypeOK
  <2> QED BY <1>1, <2>1, OwedTypes
<1>5. left \in Nat /\ still \in Nat /\ left <= still
  <2>1. /\ periodEndBlock - lastUpdateBlock \in Nat
        /\ block < periodEndBlock => /\ periodEndBlock - block \in Nat
                                     /\ periodEndBlock - block <= periodEndBlock - lastUpdateBlock
    BY <1>1 DEF TypeOK, NoCheckpointReverts, LastRewardBlock
  <2>2. still \in Nat
    BY <1>1, <2>1, MulNat
  <2>3. CASE block >= periodEndBlock
    BY <2>2, <2>3
  <2>4. CASE ~(block >= periodEndBlock)
    <3> DEFINE b == periodEndBlock - block
               e == periodEndBlock - lastUpdateBlock
               r == currentRewardPerBlock
    <3>1. b \in Nat /\ e \in Nat /\ b <= e /\ r \in Nat
      BY <1>1, <2>1, <2>4 DEF TypeOK
    <3>2. left = b * r /\ still = r * e
      BY <2>4
    <3> HIDE DEF b, e, r, left, still
    <3>3. r * b <= r * e /\ b * r = r * b /\ r * b \in Nat /\ r * e \in Nat
      BY <3>1, MulMonotone, MulNat
    <3> QED BY <3>2, <3>3
  <2> QED BY <2>3, <2>4
<1>6. o + P * still <= P * weth
  <2>1. o + P * currentRewardPerBlock * (periodEndBlock - lastUpdateBlock) <= P * weth
    BY DEF FundedInv, StoredFunded, Promised
  <2>2. periodEndBlock - lastUpdateBlock \in Int
    BY <1>1 DEF TypeOK
  <2> DEFINE e == periodEndBlock - lastUpdateBlock
             r == currentRewardPerBlock
  <2>3. P * r * e = P * (r * e)
    <3> HIDE DEF e, r
    <3>1. P \in Int /\ r \in Int /\ e \in Int
      BY <1>1, <2>2 DEF e, r
    <3> QED BY <3>1
  <2> QED BY <2>1, <2>3
<1>7. StoredFunded' <=> o + P * currentRewardPerBlock' * (block + n - block) <= P * weth'
  <2>1. Owed(rewardPerTokenStored)' = Owed(rewardPerTokenStored)
    BY <1>2 DEF Owed
  <2> QED BY <1>3, <2>1 DEF StoredFunded, Promised
<1> DEFINE q == currentRewardPerBlock'
<1> HIDE DEF o, P, left, still, q, n
<1>8. P * (n * q) <= P * (reward + still)
  <2>1. n \in Nat /\ q \in Nat /\ n * q <= reward + left
    BY <1>2, <1>3 DEF q
  <2>2. n * q \in Nat
    BY <2>1, MulNat
  <2>3. reward + still \in Nat /\ n * q <= reward + still
    BY <1>5, <2>1, <2>2
  <2> QED BY <1>1, <2>2, <2>3, MulMonotone
<1>9. /\ P * (reward + still) = P * reward + P * still
      /\ P * (weth + reward) = P * weth + P * reward
      /\ P * q * (block + n - block) = P * (n * q)
      /\ P * reward \in Nat /\ P * still \in Nat /\ P * weth \in Nat /\ P * (n * q) \in Nat
  <2>1. q \in Nat
    BY <1>3 DEF q
  <2>2. block + n - block = n
    BY <1>3
  <2>3. P * q * n = P * (n * q)
    BY <1>1, <1>3, <2>1
  <2>4. n * q \in Nat
    BY <1>3, <2>1, MulNat
  <2> QED BY <1>1, <1>5, <2>1, <2>2, <2>3, <2>4, MulNat
<1>10. o + P * q * (block + n - block) <= P * (weth + reward)
  BY <1>4, <1>6, <1>8, <1>9
<1> QED BY <1>7, <1>10 DEF q

\* Transactions of the users keep the claims funded.
LEMMA UsersFunded ==
  ASSUME FundedInv, UserNext
  PROVE  FundedInv'
<1>1. TypeOK /\ SharesInv /\ NoCheckpointReverts /\ SharesInv' /\ TypeOK' /\ NoCheckpointReverts'
  <2>1. TypeOK /\ SharesInv /\ NoCheckpointReverts /\ [Next]_systemVars
    BY DEF FundedInv, SharesInv, Next
  <2>2. SharesInv' /\ NoCheckpointReverts'
    BY <2>1, SharesInductive, CheckpointsInductive
  <2> QED BY <2>1, <2>2 DEF SharesInv
<1>2. ASSUME NEW u \in User, UserStep(u) PROVE StoredFunded'
  <2>1. PICK claimRewardToken \in BOOLEAN :
          /\ UpdateReward(u) /\ Claim(u, claimRewardToken) /\ UNCHANGED <<block, period>>
          /\ \A v \in User \ {u} : shares'[v] = shares[v]
    BY <1>1, <1>2, UserCheckpoints
  <2> QED BY <1>1, <2>1, CheckpointFunded
<1>3. StoredFunded'
  BY <1>2 DEF UserNext
<1> QED BY <1>1, <1>3 DEF FundedInv

\* So does a new period that comes with its reward, and the passing of time.
LEMMA RenewalKeepsFunded ==
  ASSUME FundedInv, NEW reward \in Nat, NEW duration \in Nat,
         UpdateRewards(reward, duration), weth' = weth + reward
  PROVE  FundedInv'
<1>1. TypeOK /\ SharesInv /\ NoCheckpointReverts
  BY DEF FundedInv, SharesInv
<1> QED BY <1>1, RenewalKeepsShares, RenewalNeverReverts, RenewalFunded DEF FundedInv

LEMMA WaitingFunded ==
  ASSUME FundedInv, NextBlock \/ UNCHANGED systemVars
  PROVE  FundedInv'
<1>1. SharesInv' /\ NoCheckpointReverts'
  <2>1. TypeOK /\ SharesInv /\ NoCheckpointReverts /\ [Next]_systemVars
    BY DEF FundedInv, SharesInv, Next
  <2> QED BY <2>1, SharesInductive, CheckpointsInductive
<1>2. UNCHANGED <<currentRewardPerBlock, periodEndBlock, lastUpdateBlock, rewardPerTokenStored,
                  shares, userRewardPerTokenPaid, rewards, weth>>
  BY DEF NextBlock, systemVars, period, accounts
<1>3. StoredFunded'
  BY <1>2 DEF FundedInv, StoredFunded, Promised, Owed
<1> QED BY <1>1, <1>3 DEF FundedInv

\* Before anyone has shares, nothing is due.
LEMMA FundedAtFirst ==
  ASSUME Init
  PROVE  FundedInv
<1>1. SharesInv
  <2>1. TypeOK
    BY FeeSharingAssumption DEF Init, TypeOK
  <2>2. SumOver(shares, User) = 0
    BY <2>1, SumZero DEF Init, TypeOK
  <2> QED BY <2>1, <2>2 DEF Init, SharesInv, SharesAccounted, SharesRedeemable
<1>2. NoCheckpointReverts
  BY DEF Init, NoCheckpointReverts, LastRewardBlock
<1>3. StoredFunded
  <2> DEFINE f == Owed(0)
             z == [u \in User |-> 0]
  <2>1. /\ rewardPerTokenStored = 0 /\ currentRewardPerBlock = 0 /\ weth = 0
        /\ lastUpdateBlock = 0 /\ periodEndBlock = 0
        /\ userRewardPerTokenPaid = z /\ rewards = z /\ shares = z
    BY DEF Init
  <2>2. f \in [User -> Nat] /\ \A u \in User : f[u] = 0
    <3>1. f = [u \in User |-> shares[u] * (0 - userRewardPerTokenPaid[u])
                                + PRECISION_FACTOR * rewards[u]]
      BY DEF Owed
    <3>2. \A u \in User : shares[u] * (0 - userRewardPerTokenPaid[u])
                            + PRECISION_FACTOR * rewards[u] = 0
      BY <2>1, FeeSharingAssumption
    <3> QED BY <3>1, <3>2
  <2> HIDE DEF f
  <2>3. SumOver(f, User) = 0
    BY <2>2, SumZero
  <2>4. PRECISION_FACTOR * 0 = 0 /\ PRECISION_FACTOR * 0 * (0 - 0) = 0
    BY FeeSharingAssumption
  <2> QED BY <2>1, <2>3, <2>4 DEF f, StoredFunded, Promised
<1> QED BY <1>1, <1>2, <1>3 DEF FundedInv

\* The WETH the system holds covers all claims and the rest of the period,
\* for any periods renewed at any time, as long as every reward that is
\* announced arrives.
THEOREM ClaimsSafe == Spec => []ClaimsFunded
<1>1. Init => FundedInv
  BY FundedAtFirst
<1>2. FundedInv /\ [Next]_systemVars => FundedInv'
  <2>1. ASSUME FundedInv, NEW reward \in OwnerRewards, NEW duration \in OwnerDurations,
               FundedUpdateRewards(reward, duration)
        PROVE  FundedInv'
    BY <2>1, RenewalKeepsFunded, FeeSharingAssumption DEF FundedUpdateRewards
  <2> QED BY <2>1, UsersFunded, WaitingFunded DEF Next
<1>3. FundedInv => ClaimsFunded
  BY FundedToday
<1> QED BY <1>1, <1>2, <1>3, PTL DEF Spec
-----------------------------------------------------------------------------
\* After a checkpoint of u the accumulator is what it was worth before: the
\* claims of the others stay, and that of u is what the checkpoint stored.
LEMMA CheckpointClaims ==
  ASSUME TypeOK, NoCheckpointReverts, TypeOK', NEW u \in User,
         NEW claimRewardToken \in BOOLEAN,
         UpdateReward(u), Claim(u, claimRewardToken), UNCHANGED <<block, period>>,
         \A v \in User \ {u} : shares'[v] = shares[v]
  PROVE  /\ \A v \in User : CalculatePendingRewards(v) \in Nat
         /\ \A v \in User \ {u} : CalculatePendingRewards(v)' = CalculatePendingRewards(v)
         /\ CalculatePendingRewards(u)' = rewards'[u]
         /\ rewards'[u] = IF claimRewardToken THEN 0 ELSE CalculatePendingRewards(u)
<1> DEFINE x == RewardPerToken
           P == PRECISION_FACTOR
<1>1. /\ rewardPerTokenStored' = x
      /\ lastUpdateBlock' = LastRewardBlock
      /\ userRewardPerTokenPaid' = [userRewardPerTokenPaid EXCEPT ![u] = x]
      /\ x \in Nat /\ P \in Nat \ {0}
  BY CheckpointMarks, ClockTypes, FeeSharingAssumption
<1>2. RewardPerToken' = x
  <2>1. LastRewardBlock' = LastRewardBlock /\ LastRewardBlock \in Nat
    BY ClockTypes DEF LastRewardBlock, period
  <2>2. totalShares' \in Nat /\ currentRewardPerBlock' \in Nat
    BY DEF TypeOK
  <2> DEFINE k == currentRewardPerBlock' * P
             t == totalShares'
  <2>3. k \in Nat /\ t \in Nat
    BY <1>1, <2>2, MulNat
  <2>4. RewardPerToken' = IF t = 0 THEN x
                          ELSE x + ((LastRewardBlock - LastRewardBlock) * k) \div t
    BY <1>1, <2>1 DEF RewardPerToken
  <2>5. LastRewardBlock - LastRewardBlock = 0
    BY <2>1
  <2> HIDE DEF k, t, x
  <2>6. 0 * k = 0
    BY <2>3
  <2>7. RewardPerToken' = IF t = 0 THEN x ELSE x + 0 \div t
    BY <2>4, <2>5, <2>6, Zenon
  <2>8. t # 0 => 0 \div t = 0
    BY <2>3
  <2> QED BY <1>1, <2>7, <2>8
<1>3. ASSUME NEW v \in User PROVE CalculatePendingRewards(v) \in Nat
  BY PendingOwed
<1>4. ASSUME NEW v \in User \ {u}
      PROVE  CalculatePendingRewards(v)' = CalculatePendingRewards(v)
  <2>1. /\ shares'[v] = shares[v]
        /\ userRewardPerTokenPaid'[v] = userRewardPerTokenPaid[v]
        /\ rewards'[v] = rewards[v]
    BY <1>1 DEF TypeOK, Claim
  <2> QED BY <1>2, <2>1 DEF CalculatePendingRewards
<1>5. CalculatePendingRewards(u)' = rewards'[u]
  <2>1. CalculatePendingRewards(u)' = (shares'[u] * (x - x)) \div P + rewards'[u]
    <3>1. userRewardPerTokenPaid'[u] = x
      BY <1>1 DEF TypeOK
    <3> QED BY <1>2, <3>1 DEF CalculatePendingRewards
  <2>2. (shares'[u] * (x - x)) \div P = 0
    <3>1. shares'[u] \in Nat /\ x - x = 0
      BY <1>1 DEF TypeOK
    <3> HIDE DEF x
    <3>2. shares'[u] * 0 = 0 /\ 0 \div P = 0
      BY <1>1, <3>1
    <3> QED BY <3>1, <3>2
  <2>3. rewards'[u] \in Nat
    BY DEF TypeOK
  <2> HIDE DEF x, P
  <2>4. CalculatePendingRewards(u)' = 0 + rewards'[u]
    BY <2>1, <2>2, Zenon
  <2> QED BY <2>3, <2>4
<1>6. rewards'[u] = IF claimRewardToken THEN 0 ELSE CalculatePendingRewards(u)
  BY DEF Claim, TypeOK
<1> QED BY <1>3, <1>4, <1>5, <1>6

\* What one user may claim is there.
LEMMA ClaimHeld ==
  ASSUME FundedInv, NEW u \in User
  PROVE  CalculatePendingRewards(u) \in 0..weth
<1> DEFINE f == Owed(RewardPerToken)
           c == CalculatePendingRewards(u)
           P == PRECISION_FACTOR
           rest == P * currentRewardPerBlock * (periodEndBlock - LastRewardBlock)
<1>1. TypeOK /\ NoCheckpointReverts /\ weth \in Nat /\ P \in Nat \ {0}
  BY FeeSharingAssumption DEF FundedInv, SharesInv, TypeOK
<1>2. c \in Nat /\ P * c <= f[u]
  BY <1>1, PendingOwed
<1>3. RewardPerToken \in Nat /\ rewardPerTokenStored <= RewardPerToken /\ rest \in Nat
  <2>1. /\ RewardPerToken \in Nat /\ RewardPerToken - rewardPerTokenStored \in Nat
        /\ periodEndBlock - LastRewardBlock \in Nat
    BY <1>1, ClockTypes
  <2>2. rewardPerTokenStored \in Nat /\ P * currentRewardPerBlock \in Nat
    BY <1>1, MulNat DEF TypeOK
  <2> QED BY <2>1, <2>2, MulNat
<1>4. f \in [User -> Nat] /\ IsFiniteSet(User) /\ SumOver(f, User) \in Nat
  BY <1>1, <1>3, OwedTypes
<1>5. SumOver(f, User) + rest <= P * weth
  <2>1. ClaimsFunded
    BY FundedToday
  <2> QED BY <2>1 DEF ClaimsFunded, Owed
<1> HIDE DEF f, c, rest, P
<1>6. f[u] <= SumOver(f, User) /\ f[u] \in Nat
  BY <1>4, PartOfSum
<1>7. P * c <= P * weth
  <2>1. P * c \in Nat /\ P * weth \in Nat
    BY <1>1, <1>2, MulNat
  <2> QED BY <1>2, <1>3, <1>4, <1>5, <1>6, <2>1
<1>8. c <= weth
  BY <1>1, <1>2, <1>7, MulCancel
<1> QED BY <1>1, <1>2, <1>8 DEF c
-----------------------------------------------------------------------------
(* The aggregator *)

\* The types of the aggregator's ledger.
LedgerTypeOK == userInfo \in [Staker -> Nat] /\ totalSecondaryShares \in Nat

\* The outcomes a sale may have.
Outcome == AmountsOut \cup {Unsold}

LEMMA Accounts ==
  /\ IsFiniteSet(User) /\ IsFiniteSet(Staker) /\ Staker \subseteq User
  /\ Aggregator \in User /\ Aggregator \notin Staker /\ Market \notin Staker
  /\ Outcome \subseteq Int /\ PRECISION_FACTOR \in Nat \ {0} /\ Compounds \subseteq Nat
BY FeeSharingAssumption, AggregatorAssumption, FS_Subset DEF Staker, Outcome, Unsold

\* What a sale leaves in the wallets: nothing is sold that the market does
\* not have, and nothing deposited that the aggregator does not hold.
LEMMA SaleWallets ==
  ASSUME TypeOK, NEW due \in BOOLEAN, NEW out \in Outcome, Sale(due, out)
  PROVE  /\ AdjustedAmount(out) \in Nat
         /\ AfterSale(wallet, out) \in [User -> Nat]
         /\ \A u \in Staker : AfterSale(wallet, out)[u] = wallet[u]
<1>1. /\ wallet \in [User -> Nat] /\ Aggregator \in User /\ Market \in User /\ Aggregator # Market
      /\ wallet[Aggregator] \in Nat /\ wallet[Market] \in Nat
  BY AggregatorAssumption DEF TypeOK
<1>2. CASE out = Unsold
  BY <1>1, <1>2 DEF AdjustedAmount, AfterSale, Staker
<1>3. CASE out # Unsold
  <2>1. out \in Nat /\ out <= wallet[Market]
    BY <1>3, AggregatorAssumption DEF Sale, Outcome
  <2>2. AdjustedAmount(out) \in 0..(wallet[Aggregator] + out)
    BY <1>1, <2>1 DEF AdjustedAmount
  <2>3. AfterSale(wallet, out) =
          [wallet EXCEPT ![Market] = @ - out, ![Aggregator] = @ + out - AdjustedAmount(out)]
    BY <1>3 DEF AfterSale
  <2>4. wallet[Market] - out \in Nat /\ wallet[Aggregator] + out - AdjustedAmount(out) \in Nat
    BY <1>1, <2>1, <2>2
  <2> QED BY <1>1, <2>2, <2>3, <2>4 DEF Staker
<1> QED BY <1>2, <1>3

\* What the system holds after the harvest, and what of it is the aggregator's.
LEMMA HarvestTotals ==
  ASSUME SharesInv, NEW due \in BOOLEAN, NEW out \in Outcome, NEW c \in Compounds,
         Sale(due, out), Compounded(c)
  PROVE  /\ PrimeBought(out, c) \in Nat
         /\ StakedAfter(out, c) \in Nat /\ TotalAfter(out, c) \in Nat /\ PrimeAfter(out, c) \in Nat
         /\ TotalAfter(out, c) <= StakedAfter(out, c)
         /\ TotalAfter(out, c) = 0 => StakedAfter(out, c) = 0
         /\ PrimeAfter(out, c) <= TotalAfter(out, c)
         /\ shares[Aggregator] <= PrimeAfter(out, c)
<1> DEFINE a == AdjustedAmount(out)
           b == PrimeBought(out, c)
<1>1. /\ staked \in Nat /\ totalShares \in Nat /\ shares \in [User -> Nat]
      /\ shares[Aggregator] \in Nat /\ c \in Nat /\ a \in Nat
      /\ totalShares <= staked
      /\ totalShares = 0 => staked = 0 /\ c = 0
  BY Accounts, SaleWallets DEF SharesInv, TypeOK, SharesRedeemable, Compounded
<1>2. shares[Aggregator] <= totalShares
  BY <1>1, Accounts, PartOfSum DEF SharesInv, SharesAccounted
<1>3. b \in 0..a /\ (totalShares = 0 => b = a)
  <2>1. CASE a = 0
    BY <2>1 DEF PrimeBought
  <2>2. CASE a # 0 /\ totalShares = 0
    BY <2>2, <1>1 DEF PrimeBought, SharesFor
  <2>3. CASE a # 0 /\ totalShares # 0
    <3>1. b = (a * totalShares) \div (staked + c)
      BY <2>3 DEF PrimeBought, SharesFor
    <3>2. staked + c \in Nat /\ totalShares \in Nat \ {0} /\ totalShares <= staked + c
      BY <1>1, <2>3
    <3> HIDE DEF a, b
    <3>3. (a * totalShares) \div (staked + c) \in 0..a
      BY <1>1, <3>2, IssueBounds
    <3> QED BY <3>1, <3>3, <2>3
  <2> QED BY <2>1, <2>2, <2>3
<1>4. /\ StakedAfter(out, c) = staked + c + a
      /\ TotalAfter(out, c) = totalShares + b
      /\ PrimeAfter(out, c) = shares[Aggregator] + b
  BY DEF StakedAfter, TotalAfter, PrimeAfter
<1> HIDE DEF a, b
<1>5. b \in Nat
  BY <1>1, <1>3
<1>6. /\ StakedAfter(out, c) \in Nat /\ TotalAfter(out, c) \in Nat /\ PrimeAfter(out, c) \in Nat
      /\ TotalAfter(out, c) <= StakedAfter(out, c)
      /\ TotalAfter(out, c) = 0 => StakedAfter(out, c) = 0
      /\ PrimeAfter(out, c) <= TotalAfter(out, c)
      /\ shares[Aggregator] <= PrimeAfter(out, c)
  BY <1>1, <1>2, <1>3, <1>4, <1>5
<1> QED BY <1>5, <1>6 DEF b

\* A step that moves the aggregator's shares from what they are to p, and the
\* total with them, keeps the system's shares.
LEMMA AggregatorShares ==
  ASSUME SharesInv, NEW p \in Nat, NEW claimed \in BOOLEAN,
         UpdateReward(Aggregator), Claim(Aggregator, claimed),
         shares' = [shares EXCEPT ![Aggregator] = p],
         totalShares' = totalShares - shares[Aggregator] + p,
         staked' \in Nat, totalShares' <= staked', totalShares' = 0 => staked' = 0,
         wallet' \in [User -> Nat], UNCHANGED <<block, period>>
  PROVE  SharesInv'
<1>1. /\ TypeOK /\ SharesAccounted /\ totalShares \in Nat /\ shares \in [User -> Nat]
      /\ shares[Aggregator] \in Nat /\ Aggregator \in User /\ IsFiniteSet(User)
  BY Accounts DEF SharesInv, TypeOK
<1>2. shares[Aggregator] <= totalShares
  BY <1>1, PartOfSum DEF SharesAccounted
<1>3. /\ shares' \in [User -> Nat] /\ shares'[Aggregator] = p
      /\ \A v \in User \ {Aggregator} : shares'[v] = shares[v]
      /\ totalShares' \in Nat
  BY <1>1, <1>2
<1>4. SharesAccounted'
  <2>1. SumOver(shares', User) = SumOver(shares, User) - shares[Aggregator] + shares'[Aggregator]
    <3> DEFINE g == shares'
    <3>1. /\ shares \in [User -> Nat] /\ Aggregator \in User /\ IsFiniteSet(User)
          /\ g \in [User -> Nat] /\ \A v \in User \ {Aggregator} : g[v] = shares[v]
      BY <1>1, <1>3
    <3> HIDE DEF g
    <3>2. SumOver(g, User) = SumOver(shares, User) - shares[Aggregator] + g[Aggregator]
      BY <3>1, SumUpdate
    <3> QED BY <3>2 DEF g
  <2> QED BY <2>1, <1>1, <1>3 DEF SharesAccounted
<1>5. CalculatePendingRewards(Aggregator) \in Nat /\ rewardPerTokenStored' \in Nat
      /\ lastUpdateBlock' \in Nat /\ userRewardPerTokenPaid' \in [User -> Nat]
  BY <1>1, CheckpointTypes
<1>6. rewards' \in [User -> Nat] /\ weth' \in Nat
  BY <1>1, <1>5, ClaimTypes
<1>7. TypeOK'
  BY <1>1, <1>3, <1>5, <1>6 DEF TypeOK, period
<1> QED BY <1>4, <1>7 DEF SharesInv, SharesRedeemable
-----------------------------------------------------------------------------
\* The secondary shares issued for a deposit, and the prime shares it buys.
LEMMA DepositIssues ==
  ASSUME SharesInv, LedgerTypeOK, SecondarySharesBacked,
         NEW u \in Staker, NEW n \in DepositAmounts, NEW out \in Outcome, NEW c \in Compounds,
         AggregatorDeposit(u, n, out, c)
  PROVE  /\ n \in Nat \ {0} /\ n <= wallet[u]
         /\ CurrentShares(n, out, c) \in Nat \ {0}
         /\ PrimeFor(n, out, c) \in 1..n
         /\ Sale(HarvestDue /\ totalSecondaryShares # 0, out) /\ Compounded(c)
<1>1. /\ n >= PRECISION_FACTOR /\ n <= wallet[u]
      /\ Sale(HarvestDue /\ totalSecondaryShares # 0, out) /\ Compounded(c)
      /\ totalSecondaryShares # 0 => TotalAmountStaked(out, c) # 0
      /\ CurrentShares(n, out, c) # 0
      /\ PrimeFor(n, out, c) # 0
  BY DEF AggregatorDeposit, HarvestAndSellAndCompound
<1>2. n \in Nat \ {0}
  BY <1>1, Accounts, AggregatorAssumption
<1> DEFINE A == StakedAfter(out, c)
           T == TotalAfter(out, c)
           P == PrimeAfter(out, c)
<1>3. A \in Nat /\ T \in Nat /\ P \in Nat /\ T <= A /\ (T = 0 => A = 0) /\ P <= T
  BY <1>1, HarvestTotals
<1>4. PrimeFor(n, out, c) \in 1..n
  <2>1. CASE T = 0
    BY <2>1, <1>2 DEF PrimeFor
  <2>2. CASE T # 0
    <3>1. PrimeFor(n, out, c) = (n * T) \div A
      BY <2>2 DEF PrimeFor
    <3> HIDE DEF A, T
    <3>2. (n * T) \div A \in 0..n
      BY <2>2, <1>2, <1>3, IssueBounds
    <3> QED BY <3>1, <3>2, <1>1, <1>2
  <2> QED BY <2>1, <2>2
<1>5. CurrentShares(n, out, c) \in Nat
  <2>1. CASE totalSecondaryShares = 0
    BY <2>1, <1>2 DEF CurrentShares
  <2>2. CASE totalSecondaryShares # 0
    <3>1. P # 0 /\ TotalAmountStaked(out, c) = (A * P) \div T
      BY <1>1, <2>2 DEF TotalAmountStaked
    <3> HIDE DEF A, T, P
    <3>2. (A * P) \div T \in Nat
      <4>1. A * P \in Nat /\ T \in Nat \ {0}
        BY <1>3, <3>1, MulNat
      <4> QED BY <4>1, DivNat
    <3>3. TotalAmountStaked(out, c) \in Nat \ {0}
      BY <3>1, <3>2, <1>1, <2>2
    <3>4. n * totalSecondaryShares \in Nat
      BY <1>2, MulNat DEF LedgerTypeOK
    <3> QED BY <3>3, <3>4, <2>2, DivNat DEF CurrentShares
  <2> QED BY <2>1, <2>2
<1> QED BY <1>1, <1>2, <1>4, <1>5

\* Part of a stock of P that s of T shares redeem: all of it for all of them,
\* and not all of it for less.
LEMMA RedeemedPart ==
  ASSUME NEW T \in Nat \ {0}, NEW P \in Nat, NEW s \in 0..T
  PROVE  /\ (P * s) \div T \in 0..P
         /\ s = T => (P * s) \div T = P
         /\ P # 0 /\ s # T => (P * s) \div T # P
<1> DEFINE q == (P * s) \div T
<1>1. P * s \in Nat /\ s \in Nat /\ P * T \in Nat /\ P * T = T * P
  BY MulNat
<1>2. q \in Nat /\ T * q <= P * s /\ P * s < T * (q + 1)
  BY <1>1, DivNat, DivBounds
<1> HIDE DEF q
<1>3. q <= P
  <2>1. P * s <= P * T
    BY MulMonotone
  <2>2. T * q <= T * P /\ T * q \in Nat
    BY <2>1, <1>1, <1>2
  <2> QED BY <2>2, <1>2, MulCancel
<1>4. ASSUME s = T PROVE q = P
  <2>1. SUFFICES ASSUME q + 1 <= P PROVE FALSE
    BY <1>2, <1>3
  <2>2. T * (q + 1) <= T * P
    BY <1>2, <2>1, MulMonotone
  <2>3. P * s = T * P /\ T * P \in Nat /\ T * (q + 1) \in Nat
    BY <1>1, <1>4, <1>2
  <2> QED BY <2>2, <2>3, <1>2
<1>5. ASSUME P # 0, q = P PROVE s = T
  <2>1. P * T <= P * s
    BY <1>1, <1>2, <1>5
  <2>2. T <= s
    BY <2>1, <1>1, <1>5, MulCancel
  <2> QED BY <2>2, <1>1
<1> QED BY <1>2, <1>3, <1>4, <1>5 DEF q

\* What a withdrawal redeems.
LEMMA RedeemBounds ==
  ASSUME SharesInv, LedgerTypeOK, SecondarySharesBacked,
         NEW u \in Staker, NEW s \in 1..userInfo[u], NEW out \in Outcome, NEW c \in Compounds,
         Sale(HarvestDue, out), Compounded(c)
  PROVE  /\ totalSecondaryShares \in Nat \ {0} /\ s \in 1..totalSecondaryShares
         /\ CurrentNumberPrimeShares(s, out, c) \in 0..PrimeAfter(out, c)
         /\ s = totalSecondaryShares
              <=> CurrentNumberPrimeShares(s, out, c) = PrimeAfter(out, c)
         /\ AmountToTransfer(s, out, c) \in 0..StakedAfter(out, c)
         /\ TotalAfter(out, c) - CurrentNumberPrimeShares(s, out, c)
              <= StakedAfter(out, c) - AmountToTransfer(s, out, c)
         /\ CurrentNumberPrimeShares(s, out, c) = TotalAfter(out, c)
              => AmountToTransfer(s, out, c) = StakedAfter(out, c)
<1> DEFINE A == StakedAfter(out, c)
           T == TotalAfter(out, c)
           P == PrimeAfter(out, c)
           q == CurrentNumberPrimeShares(s, out, c)
<1>1. /\ totalSecondaryShares \in Nat /\ userInfo \in [Staker -> Nat]
      /\ totalSecondaryShares = SumOver(userInfo, Staker)
      /\ userInfo[u] \in Nat /\ s \in Nat \ {0}
  BY DEF LedgerTypeOK, SecondarySharesBacked
<1>2. userInfo[u] <= totalSecondaryShares
  BY <1>1, Accounts, PartOfSum
<1>3. totalSecondaryShares \in Nat \ {0} /\ s \in 1..totalSecondaryShares
      /\ s \in 0..totalSecondaryShares
  BY <1>1, <1>2
<1>4. /\ A \in Nat /\ T \in Nat /\ P \in Nat /\ T <= A /\ (T = 0 => A = 0) /\ P <= T
      /\ shares[Aggregator] <= P /\ shares[Aggregator] \in Nat
  BY HarvestTotals, Accounts DEF HarvestDue, SharesInv, TypeOK
<1>5. P \in Nat \ {0} /\ T \in Nat \ {0}
  <2>1. shares[Aggregator] # 0
    BY <1>3 DEF SecondarySharesBacked
  <2> HIDE DEF A, T, P
  <2> QED BY <2>1, <1>4
<1>6. q = (P * s) \div totalSecondaryShares
      /\ AmountToTransfer(s, out, c) = (A * q) \div T
  BY DEF CurrentNumberPrimeShares, AmountToTransfer
<1> HIDE DEF A, T, P, q
<1>7. q \in 0..P /\ (s = totalSecondaryShares <=> q = P)
  BY <1>3, <1>5, <1>6, RedeemedPart
<1>8. q \in 0..T
  BY <1>4, <1>7
<1>9. /\ (A * q) \div T \in 0..A
      /\ T - q <= A - (A * q) \div T
      /\ q = T => (A * q) \div T = A
  BY <1>4, <1>5, <1>8, PayoutBounds
<1> QED BY <1>3, <1>6, <1>7, <1>9 DEF A, T, P, q
-----------------------------------------------------------------------------
\* The inductive invariant: that of the system, and the ledger behind it.
AggregatorInv ==
  SharesInv /\ NoCheckpointReverts /\ LedgerTypeOK /\ SecondarySharesBacked

\* What a change of one staker's account does to the ledger.
LEMMA LedgerUpdate ==
  ASSUME LedgerTypeOK, SecondarySharesBacked, NEW u \in Staker, NEW k \in Nat,
         userInfo' = [userInfo EXCEPT ![u] = k],
         totalSecondaryShares' = totalSecondaryShares - userInfo[u] + k
  PROVE  LedgerTypeOK' /\ totalSecondaryShares' = SumOver(userInfo', Staker)
<1> DEFINE g == userInfo'
<1>1. /\ userInfo \in [Staker -> Nat] /\ IsFiniteSet(Staker) /\ userInfo[u] \in Nat
      /\ totalSecondaryShares = SumOver(userInfo, Staker)
      /\ g \in [Staker -> Nat] /\ g[u] = k /\ \A v \in Staker \ {u} : g[v] = userInfo[v]
  BY Accounts DEF LedgerTypeOK, SecondarySharesBacked
<1>2. SumOver(g, Staker) = SumOver(userInfo, Staker) - userInfo[u] + g[u]
      /\ SumOver(g, Staker) \in Nat
  <2> HIDE DEF g
  <2> QED BY <1>1, SumUpdate, UnitsFinite
<1> QED BY <1>1, <1>2 DEF LedgerTypeOK

\* A deposit keeps the invariant.
LEMMA DepositKeeps ==
  ASSUME AggregatorInv,
         NEW u \in Staker, NEW n \in DepositAmounts, NEW out \in Outcome, NEW c \in Compounds,
         AggregatorDeposit(u, n, out, c)
  PROVE  AggregatorInv'
<1> DEFINE due == HarvestDue /\ totalSecondaryShares # 0
           A == StakedAfter(out, c)
           T == TotalAfter(out, c)
           P == PrimeAfter(out, c)
           bought == PrimeBought(out, c)
           f == PrimeFor(n, out, c)
           issued == CurrentShares(n, out, c)
           w == AfterSale(wallet, out)
<1>1. SharesInv /\ NoCheckpointReverts /\ LedgerTypeOK /\ SecondarySharesBacked /\ TypeOK
  BY DEF AggregatorInv, SharesInv
<1>2. /\ n \in Nat \ {0} /\ n <= wallet[u] /\ issued \in Nat \ {0} /\ f \in 1..n
      /\ due \in BOOLEAN /\ Sale(due, out) /\ Compounded(c)
  BY <1>1, DepositIssues
<1>3. /\ UpdateReward(Aggregator) /\ Claim(Aggregator, Harvested(due))
      /\ Issue(Aggregator, bought + f)
      /\ staked' = A + n
      /\ wallet' = [w EXCEPT ![u] = @ - n]
      /\ userInfo' = [userInfo EXCEPT ![u] = @ + issued]
      /\ totalSecondaryShares' = totalSecondaryShares + issued
      /\ UNCHANGED <<block, period, settings>>
      /\ Harvested(due) \in BOOLEAN
  BY <1>2 DEF AggregatorDeposit, Harvested
<1>4. /\ bought \in Nat /\ A \in Nat /\ T \in Nat /\ P \in Nat
      /\ T <= A /\ (T = 0 => A = 0) /\ P <= T
  BY <1>1, <1>2, HarvestTotals
<1>5. w \in [User -> Nat] /\ w[u] = wallet[u] /\ u \in User
  BY <1>1, <1>2, SaleWallets, Accounts
<1>6. T = totalShares + bought /\ P = shares[Aggregator] + bought
      /\ totalShares \in Nat /\ shares[Aggregator] \in Nat
  BY <1>1, Accounts DEF TotalAfter, PrimeAfter, TypeOK
<1> HIDE DEF due, A, T, P, bought, f, issued, w
<1>7. /\ shares' = [shares EXCEPT ![Aggregator] = P + f]
      /\ totalShares' = totalShares - shares[Aggregator] + (P + f)
      /\ P + f \in Nat \ {0} /\ totalShares' = T + f
  <2>1. shares' = [shares EXCEPT ![Aggregator] = shares[Aggregator] + (bought + f)]
        /\ totalShares' = totalShares + (bought + f)
    BY <1>3 DEF Issue
  <2>2. f \in Nat \ {0} /\ shares[Aggregator] + (bought + f) = P + f
    BY <1>2, <1>4, <1>6
  <2>3. shares' = [shares EXCEPT ![Aggregator] = P + f]
    BY <2>1, <2>2, Zenon
  <2>4. totalShares + (bought + f) = totalShares - shares[Aggregator] + (P + f)
        /\ totalShares + (bought + f) = T + f
        /\ P + f \in Nat \ {0}
    BY <2>2, <1>4, <1>6
  <2> QED BY <2>1, <2>3, <2>4, Zenon
<1>8. staked' \in Nat /\ totalShares' <= staked' /\ totalShares' # 0
  BY <1>2, <1>3, <1>4, <1>7
<1>9. wallet' \in [User -> Nat]
  <2>1. w[u] - n \in Nat
    BY <1>2, <1>5
  <2> QED BY <2>1, <1>3, <1>5
<1>10. SharesInv'
  BY <1>1, <1>3, <1>7, <1>8, <1>9, AggregatorShares
<1>11. NoCheckpointReverts'
  BY <1>1, <1>3, Accounts, CheckpointNeverReverts
<1>12. LedgerTypeOK' /\ totalSecondaryShares' = SumOver(userInfo', Staker)
  <2>1. userInfo[u] \in Nat /\ totalSecondaryShares \in Nat /\ userInfo[u] + issued \in Nat
        /\ totalSecondaryShares' = totalSecondaryShares - userInfo[u] + (userInfo[u] + issued)
    BY <1>1, <1>2, <1>3 DEF LedgerTypeOK
  <2> QED BY <2>1, <1>1, <1>3, LedgerUpdate
<1>13. totalSecondaryShares' # 0 /\ shares'[Aggregator] # 0
  <2>1. totalSecondaryShares' # 0
    BY <1>1, <1>2, <1>3 DEF LedgerTypeOK
  <2>2. shares'[Aggregator] = P + f
    BY <1>1, <1>7, Accounts DEF TypeOK
  <2> QED BY <2>1, <2>2, <1>7
<1> QED BY <1>10, <1>11, <1>12, <1>13 DEF AggregatorInv, SecondarySharesBacked

\* A withdrawal keeps the invariant.
LEMMA RedeemKeeps ==
  ASSUME AggregatorInv,
         NEW u \in Staker, NEW s \in 1..userInfo[u], NEW out \in Outcome, NEW c \in Compounds,
         RedeemShares(u, s, out, c)
  PROVE  AggregatorInv'
<1> DEFINE A == StakedAfter(out, c)
           T == TotalAfter(out, c)
           P == PrimeAfter(out, c)
           bought == PrimeBought(out, c)
           q == CurrentNumberPrimeShares(s, out, c)
           amount == AmountToTransfer(s, out, c)
           w == AfterSale(wallet, out)
<1>1. SharesInv /\ NoCheckpointReverts /\ LedgerTypeOK /\ SecondarySharesBacked /\ TypeOK
  BY DEF AggregatorInv, SharesInv
<1>2. /\ Sale(HarvestDue, out) /\ Compounded(c)
      /\ UpdateReward(Aggregator) /\ Claim(Aggregator, Harvested(HarvestDue))
      /\ shares' = [shares EXCEPT ![Aggregator] = P - q]
      /\ totalShares' = T - q
      /\ staked' = A - amount
      /\ wallet' = [w EXCEPT ![u] = @ + amount]
      /\ userInfo' = [userInfo EXCEPT ![u] = @ - s]
      /\ totalSecondaryShares' = totalSecondaryShares - s
      /\ UNCHANGED <<block, period, settings>>
      /\ HarvestDue \in BOOLEAN /\ Harvested(HarvestDue) \in BOOLEAN
  BY DEF RedeemShares, HarvestAndSellAndCompound, Harvested, HarvestDue
<1>3. /\ totalSecondaryShares \in Nat \ {0} /\ s \in 1..totalSecondaryShares
      /\ q \in 0..P /\ (s = totalSecondaryShares <=> q = P)
      /\ amount \in 0..A /\ T - q <= A - amount /\ (q = T => amount = A)
  BY <1>1, <1>2, RedeemBounds
<1>4. /\ A \in Nat /\ T \in Nat /\ P \in Nat /\ P <= T
  BY <1>1, <1>2, HarvestTotals
<1>5. w \in [User -> Nat] /\ u \in User
  BY <1>1, <1>2, SaleWallets, Accounts
<1>6. T = totalShares + bought /\ P = shares[Aggregator] + bought /\ bought \in Nat
      /\ totalShares \in Nat /\ shares[Aggregator] \in Nat
  BY <1>1, <1>2, HarvestTotals, Accounts DEF TotalAfter, PrimeAfter, TypeOK
<1> HIDE DEF A, T, P, bought, q, amount, w
<1>7. P - q \in Nat /\ totalShares' = totalShares - shares[Aggregator] + (P - q)
  BY <1>2, <1>3, <1>4, <1>6
<1>8. staked' \in Nat /\ totalShares' <= staked' /\ (totalShares' = 0 => staked' = 0)
  BY <1>2, <1>3, <1>4
<1>9. wallet' \in [User -> Nat]
  <2>1. w[u] + amount \in Nat
    BY <1>3, <1>4, <1>5
  <2> QED BY <2>1, <1>2, <1>5
<1>10. SharesInv'
  BY <1>1, <1>2, <1>7, <1>8, <1>9, AggregatorShares
<1>11. NoCheckpointReverts'
  BY <1>1, <1>2, Accounts, CheckpointNeverReverts
<1>12. LedgerTypeOK' /\ totalSecondaryShares' = SumOver(userInfo', Staker)
  <2>1. userInfo[u] \in Nat /\ totalSecondaryShares \in Nat /\ userInfo[u] - s \in Nat
        /\ totalSecondaryShares' = totalSecondaryShares - userInfo[u] + (userInfo[u] - s)
    BY <1>1, <1>2, <1>3 DEF LedgerTypeOK
  <2> QED BY <2>1, <1>1, <1>2, LedgerUpdate
<1>13. totalSecondaryShares' = 0 <=> shares'[Aggregator] = 0
  <2>1. shares'[Aggregator] = P - q
    BY <1>1, <1>2, Accounts DEF TypeOK
  <2> QED BY <2>1, <1>2, <1>3, <1>4
<1> QED BY <1>10, <1>11, <1>12, <1>13 DEF AggregatorInv, SecondarySharesBacked

\* A harvest by the owner keeps the invariant.
LEMMA OwnerHarvestKeeps ==
  ASSUME AggregatorInv, NEW out \in Outcome, NEW c \in Compounds, OwnerHarvest(out, c)
  PROVE  AggregatorInv'
<1>1. SharesInv /\ NoCheckpointReverts /\ LedgerTypeOK /\ SecondarySharesBacked /\ TypeOK
  BY DEF AggregatorInv, SharesInv
<1>2. /\ totalSecondaryShares # 0
      /\ Sale(TRUE, out)
      /\ wallet' = AfterSale(wallet, out)
      /\ UNCHANGED <<block, period, userInfo, totalSecondaryShares>>
  BY DEF OwnerHarvest, HarvestAndSellAndCompound, ledger
<1>3. wallet' \in [User -> Nat]
  BY <1>1, <1>2, SaleWallets
<1>4. LedgerTypeOK' /\ totalSecondaryShares' = SumOver(userInfo', Staker)
  BY <1>1, <1>2 DEF LedgerTypeOK, SecondarySharesBacked
<1>5. CASE Harvested(TRUE) \/ AdjustedAmount(out) # 0
  <2> DEFINE bought == PrimeBought(out, c)
             A == StakedAfter(out, c)
             T == TotalAfter(out, c)
             P == PrimeAfter(out, c)
  <2>1. /\ Compounded(c) /\ UpdateReward(Aggregator) /\ Claim(Aggregator, Harvested(TRUE))
        /\ Issue(Aggregator, bought) /\ staked' = A /\ Harvested(TRUE) \in BOOLEAN
    BY <1>5 DEF OwnerHarvest, Harvested
  <2>2. /\ bought \in Nat /\ A \in Nat /\ T \in Nat /\ P \in Nat
        /\ T <= A /\ (T = 0 => A = 0) /\ P <= T /\ shares[Aggregator] <= P
    BY <1>1, <1>2, <2>1, HarvestTotals
  <2>3. T = totalShares + bought /\ P = shares[Aggregator] + bought
        /\ totalShares \in Nat /\ shares[Aggregator] \in Nat
    BY <1>1, Accounts DEF TotalAfter, PrimeAfter, TypeOK
  <2> HIDE DEF bought, A, T, P
  <2>4. /\ shares' = [shares EXCEPT ![Aggregator] = P]
        /\ totalShares' = T
    BY <2>1, <2>3 DEF Issue
  <2>5. totalShares' = totalShares - shares[Aggregator] + P
    BY <2>2, <2>3, <2>4
  <2>6. SharesInv'
    <3>1. staked' \in Nat /\ totalShares' <= staked' /\ (totalShares' = 0 => staked' = 0)
      BY <2>1, <2>2, <2>4
    <3>2. UNCHANGED <<block, period>>
      BY <1>2
    <3> QED BY <1>1, <1>3, <2>1, <2>2, <2>4, <2>5, <3>1, <3>2, AggregatorShares
  <2>7. NoCheckpointReverts'
    BY <1>1, <1>2, <2>1, Accounts, CheckpointNeverReverts
  <2>8. shares'[Aggregator] # 0 /\ totalSecondaryShares' # 0
    <3>1. shares'[Aggregator] = P
      BY <1>1, <2>4, Accounts DEF TypeOK
    <3> QED BY <3>1, <1>1, <1>2, <2>2, <2>3 DEF SecondarySharesBacked
  <2> QED BY <1>4, <2>6, <2>7, <2>8 DEF AggregatorInv, SecondarySharesBacked
<1>6. CASE ~(Harvested(TRUE) \/ AdjustedAmount(out) # 0)
  <2>1. UNCHANGED <<rewardPerTokenStored, lastUpdateBlock, accounts, totalShares, staked, weth>>
    BY <1>6 DEF OwnerHarvest
  <2>2. SharesInv'
    BY <1>1, <1>2, <1>3, <2>1
       DEF SharesInv, TypeOK, SharesAccounted, SharesRedeemable, accounts, period
  <2>3. NoCheckpointReverts'
    BY <1>1, <1>2, <2>1 DEF NoCheckpointReverts, LastRewardBlock, accounts, period
  <2>4. SecondarySharesBacked'
    BY <1>1, <1>2, <1>4, <2>1 DEF SecondarySharesBacked, accounts
  <2> QED BY <1>4, <2>2, <2>3, <2>4 DEF AggregatorInv
<1> QED BY <1>5, <1>6

\* A user of the system who is not the aggregator leaves its shares alone.
LEMMA OthersKeep ==
  ASSUME TypeOK, NEW u \in Direct, UserStep(u)
  PROVE  [Next]_systemVars /\ shares'[Aggregator] = shares[Aggregator]
<1>1. u \in User /\ u # Aggregator /\ shares \in [User -> Nat] /\ Aggregator \in User
  BY AggregatorAssumption DEF TypeOK
<1>2. Next
  BY <1>1 DEF Next, UserNext
<1>3. shares'[Aggregator] = shares[Aggregator]
  BY <1>1 DEF UserStep, Harvest, Deposit, Withdraw, WithdrawAll, WithdrawShares, Issue, Burn
<1> QED BY <1>2, <1>3

\* Every step keeps the invariant.
LEMMA AggregatorInductive ==
  ASSUME AggregatorInv, [AggregatorNext]_aggregatorVars
  PROVE  AggregatorInv'
<1>1. SharesInv /\ NoCheckpointReverts /\ LedgerTypeOK /\ SecondarySharesBacked /\ TypeOK
  BY DEF AggregatorInv, SharesInv
<1>2. ASSUME NEW u \in Staker, NEW n \in DepositAmounts, NEW out \in Outcome, NEW c \in Compounds,
             AggregatorDeposit(u, n, out, c)
      PROVE  AggregatorInv'
  BY <1>2, DepositKeeps
<1>3. ASSUME NEW u \in Staker, NEW s \in RedeemAmounts, NEW out \in Outcome, NEW c \in Compounds,
             AggregatorWithdraw(u, s, out, c)
      PROVE  AggregatorInv'
  <2>1. s \in 1..userInfo[u] /\ RedeemShares(u, s, out, c)
    BY <1>1, <1>3, AggregatorAssumption DEF AggregatorWithdraw, LedgerTypeOK
  <2> QED BY <2>1, RedeemKeeps
<1>4. ASSUME NEW u \in Staker, NEW out \in Outcome, NEW c \in Compounds,
             AggregatorWithdrawAll(u, out, c)
      PROVE  AggregatorInv'
  <2>1. userInfo[u] \in 1..userInfo[u] /\ RedeemShares(u, userInfo[u], out, c)
    BY <1>1, <1>4 DEF AggregatorWithdrawAll, LedgerTypeOK
  <2> QED BY <2>1, RedeemKeeps
<1>5. ASSUME NEW out \in Outcome, NEW c \in Compounds, OwnerHarvest(out, c)
      PROVE  AggregatorInv'
  BY <1>5, OwnerHarvestKeeps
<1>6. ASSUME [Next]_systemVars, UNCHANGED ledger, shares'[Aggregator] = shares[Aggregator]
      PROVE  AggregatorInv'
  <2>1. SharesInv' /\ NoCheckpointReverts'
    BY <1>1, <1>6, SharesInductive, CheckpointsInductive
  <2>2. LedgerTypeOK' /\ SecondarySharesBacked'
    BY <1>1, <1>6 DEF LedgerTypeOK, SecondarySharesBacked, ledger
  <2> QED BY <2>1, <2>2 DEF AggregatorInv
<1>7. CASE SystemStep
  <2>1. ASSUME NEW u \in Direct, UserStep(u) PROVE AggregatorInv'
    BY <2>1, <1>1, <1>6, <1>7, OthersKeep DEF SystemStep
  <2>2. CASE NextBlock
    BY <2>2, <1>6, <1>7 DEF SystemStep, Next, NextBlock, accounts
  <2>3. ASSUME NEW reward \in OwnerRewards, NEW duration \in OwnerDurations,
               FundedUpdateRewards(reward, duration)
        PROVE  AggregatorInv'
    <3>1. Next /\ shares' = shares
      BY <2>3 DEF Next, FundedUpdateRewards, UpdateRewards, accounts
    <3> QED BY <3>1, <1>6, <1>7 DEF SystemStep
  <2> QED BY <1>7, <2>1, <2>2, <2>3 DEF SystemStep
<1>8. CASE SettingsNext
  <2>1. UNCHANGED <<systemVars, ledger>>
    BY <1>8 DEF SettingsNext
  <2> QED BY <2>1, <1>6 DEF systemVars, accounts
<1>9. CASE UNCHANGED aggregatorVars
  BY <1>9, <1>6 DEF aggregatorVars, systemVars, accounts
<1> QED BY <1>2, <1>3, <1>4, <1>5, <1>7, <1>8, <1>9
        DEF AggregatorNext, AggregatorStep, Outcome

\* The invariant holds at first.
LEMMA AggregatorStarts ==
  ASSUME AggregatorInit
  PROVE  AggregatorInv
<1>1. Init /\ userInfo = [u \in Staker |-> 0] /\ totalSecondaryShares = 0
  BY DEF AggregatorInit
<1>2. TypeOK
  BY <1>1, FeeSharingAssumption DEF Init, TypeOK
<1>3. SumOver(shares, User) = 0
  BY <1>1, <1>2, SumZero DEF Init, TypeOK
<1>4. SumOver(userInfo, Staker) = 0 /\ LedgerTypeOK
  <2>1. userInfo \in [Staker -> Nat] /\ \A u \in Staker : userInfo[u] = 0
    BY <1>1
  <2> QED BY <2>1, <1>1, SumZero DEF LedgerTypeOK
<1>5. NoCheckpointReverts
  BY <1>1 DEF Init, NoCheckpointReverts, LastRewardBlock
<1> QED BY <1>1, <1>2, <1>3, <1>4, <1>5, Accounts
        DEF Init, AggregatorInv, SharesInv, SharesAccounted, SharesRedeemable, SecondarySharesBacked

\* Whatever the market answers, however often harvests and sales fail, and
\* whoever else uses the system: the secondary shares are those of the
\* stakers, there are some exactly as long as prime shares stand behind them,
\* and the system's own shares and checkpoints stay sound.
THEOREM SecondarySafe ==
  AggregatorSpec => [](SharesSound /\ NoCheckpointReverts /\ SecondarySharesBacked)
<1>1. AggregatorInit => AggregatorInv
  BY AggregatorStarts
<1>2. AggregatorInv /\ [AggregatorNext]_aggregatorVars => AggregatorInv'
  BY AggregatorInductive
<1>3. AggregatorInv => SharesSound /\ NoCheckpointReverts /\ SecondarySharesBacked
  BY DEF AggregatorInv, SharesInv, SharesSound
<1> QED BY <1>1, <1>2, <1>3, PTL DEF AggregatorSpec
-----------------------------------------------------------------------------
\* A deposit of n for which f of T shares of A are issued, rounded down, to
\* someone who holds P of them: the holding is worth at most n more than it
\* was, as no other share has lost anything.
LEMMA HoldingAfter ==
  ASSUME NEW A \in Nat \ {0}, NEW T \in Nat, NEW P \in 0..T, NEW n \in Nat, NEW f \in Nat,
         f = (n * T) \div A
  PROVE  T * ((A + n) * (P + f)) <= (T + f) * (n * T + A * P)
<1> DEFINE k == T - P
           x == (A + n) * T
           y == A * (T + f)
<1>1. k \in Nat /\ P = T - k
  OBVIOUS
<1>2. x >= y /\ x \in Nat /\ y \in Nat
  <2>1. x >= y
    BY IssueKeepsPrice
  <2> QED BY <2>1, MulNat
<1>3. k * y <= k * x /\ k * x \in Nat /\ k * y \in Nat
  <2> HIDE DEF k, x, y
  <2> QED BY <1>1, <1>2, MulMonotone, MulNat
<1>4. T * ((A + n) * (P + f)) = (A + n) * (T + f) * T - k * x
  OBVIOUS
<1>5. (T + f) * (n * T + A * P) = (A + n) * (T + f) * T - k * y
  OBVIOUS
<1>6. (A + n) * (T + f) * T \in Nat
  OBVIOUS
<1> HIDE DEF k, x, y
<1> QED BY <1>3, <1>4, <1>5, <1>6

\* If i of m shares of that holding, worth V before, are issued for n, they
\* are worth less than n + 1 after.
LEMMA IssuedWorth ==
  ASSUME NEW X \in Nat, NEW Q \in Nat \ {0}, NEW V \in Nat, NEW n \in Nat,
         NEW m \in Nat, NEW i \in Nat \ {0},
         X < Q * (n + V + 1), V * i <= n * m
  PROVE  X * i < (n + 1) * Q * (m + i)
<1> DEFINE B == Q * (n + V + 1)
<1>1. B \in Nat /\ X + 1 <= B /\ X + 1 \in Nat
  OBVIOUS
<1>2. i * (X + 1) <= i * B
  <2> HIDE DEF B
  <2> QED BY <1>1, MulMonotone
<1>3. i * (X + 1) = X * i + i /\ X * i \in Nat
  OBVIOUS
<1> DEFINE C == i * (n + V) + i
           D == n * (m + i) + (m + i)
<1>4. C <= D /\ C \in Nat /\ D \in Nat
  <2>1. i * (n + V) = V * i + n * i /\ n * (m + i) = n * m + n * i
    OBVIOUS
  <2>2. n * i \in Nat /\ n * m \in Nat /\ V * i \in Nat
    BY MulNat
  <2> QED BY <2>1, <2>2
<1>5. Q * C <= Q * D
  <2> HIDE DEF C, D
  <2> QED BY <1>4, MulMonotone
<1>6. i * B = Q * C /\ Q * D = (n + 1) * Q * (m + i) /\ Q * C \in Nat /\ Q * D \in Nat
  OBVIOUS
<1> HIDE DEF B, C, D
<1> QED BY <1>2, <1>3, <1>5, <1>6

\* A holding of P of T shares of A, whose worth rounds down to V, is worth
\* less than V + 1.
LEMMA HoldingBelow ==
  ASSUME NEW T \in Nat \ {0}, NEW Q \in Nat \ {0}, NEW X \in Nat, NEW Y \in Nat, NEW n \in Nat,
         NEW V \in Nat, Y < T * (V + 1), T * X <= Q * (n * T + Y)
  PROVE  X < Q * (n + V + 1)
<1> DEFINE B == n * T + Y
           C == T * (n + V + 1)
           D == Q * (n + V + 1)
<1>1. B + 1 <= C /\ B \in Nat /\ C \in Nat /\ D \in Nat
  <2>1. C = n * T + T * (V + 1) /\ n * T \in Nat /\ T * (V + 1) \in Nat
    OBVIOUS
  <2>2. D \in Nat
    OBVIOUS
  <2> QED BY <2>1, <2>2
<1>2. Q * (B + 1) <= Q * C
  <2> HIDE DEF B, C
  <2> QED BY <1>1, MulMonotone
<1>3. Q * (B + 1) = Q * B + Q /\ Q * B \in Nat
  <2> HIDE DEF B
  <2> QED BY <1>1
<1>4. Q * C = T * D
  OBVIOUS
<1>5. T * X < T * D
  <2>1. T * X \in Nat /\ T * X <= Q * B /\ T * D \in Nat
    OBVIOUS
  <2> HIDE DEF B, C, D
  <2> QED BY <2>1, <1>2, <1>3, <1>4
<1>6. SUFFICES ASSUME D <= X PROVE FALSE
  BY <1>1 DEF D
<1>7. T * D <= T * X
  <2> HIDE DEF D
  <2> QED BY <1>1, <1>6, MulMonotone
<1> QED BY <1>5, <1>7

\* What a deposit does, in the terms of the lemmas above.
LEMMA DepositFair ==
  ASSUME AggregatorInv,
         NEW u \in Staker, NEW n \in DepositAmounts, NEW out \in Outcome, NEW c \in Compounds,
         AggregatorDeposit(u, n, out, c)
  PROVE  /\ userInfo'[u] - userInfo[u] \in Nat \ {0}
         /\ \A v \in Staker \ {u} : userInfo'[v] = userInfo[v]
         /\ staked' * shares'[Aggregator] * (userInfo'[u] - userInfo[u])
              < (wallet[u] - wallet'[u] + 1) * totalShares' * totalSecondaryShares'
<1> DEFINE due == HarvestDue /\ totalSecondaryShares # 0
           A == StakedAfter(out, c)
           T == TotalAfter(out, c)
           P == PrimeAfter(out, c)
           f == PrimeFor(n, out, c)
           i == CurrentShares(n, out, c)
           m == totalSecondaryShares
           V == IF m = 0 THEN 0 ELSE TotalAmountStaked(out, c)
           X == (A + n) * (P + f)
           Q == T + f
<1>1. /\ SharesInv /\ LedgerTypeOK /\ SecondarySharesBacked /\ TypeOK
      /\ userInfo \in [Staker -> Nat] /\ m \in Nat
  BY DEF AggregatorInv, SharesInv, LedgerTypeOK
<1>2. /\ n \in Nat \ {0} /\ n <= wallet[u] /\ i \in Nat \ {0} /\ f \in 1..n
      /\ due \in BOOLEAN /\ Sale(due, out) /\ Compounded(c)
  BY <1>1, DepositIssues
<1>3. /\ A \in Nat /\ T \in Nat /\ P \in Nat /\ T <= A /\ (T = 0 => A = 0) /\ P <= T
  BY <1>1, <1>2, HarvestTotals
<1>4. /\ userInfo'[u] = userInfo[u] + i
      /\ \A v \in Staker \ {u} : userInfo'[v] = userInfo[v]
      /\ totalSecondaryShares' = m + i
      /\ staked' = A + n
  BY <1>1 DEF AggregatorDeposit
<1>5. shares'[Aggregator] = P + f /\ totalShares' = Q
  <2> DEFINE b == PrimeBought(out, c)
  <2>1. /\ shares' = [shares EXCEPT ![Aggregator] = @ + (b + f)]
        /\ totalShares' = totalShares + (b + f)
    BY DEF AggregatorDeposit, Issue
  <2>2. /\ T = totalShares + b /\ P = shares[Aggregator] + b /\ b \in Nat
        /\ totalShares \in Nat /\ shares \in [User -> Nat] /\ Aggregator \in User
    BY <1>1, <1>2, Accounts, HarvestTotals DEF TotalAfter, PrimeAfter, TypeOK
  <2> HIDE DEF b, T, P, f
  <2>3. f \in Nat /\ shares[Aggregator] \in Nat
    BY <1>2, <2>2
  <2>4. shares'[Aggregator] = shares[Aggregator] + (b + f)
    BY <2>1, <2>2
  <2> QED BY <2>1, <2>2, <2>3, <2>4
<1>6. wallet[u] - wallet'[u] = n
  <2> DEFINE w == AfterSale(wallet, out)
  <2>1. wallet' = [w EXCEPT ![u] = @ - n]
    BY DEF AggregatorDeposit
  <2>2. w \in [User -> Nat] /\ w[u] = wallet[u] /\ u \in User
    BY <1>1, <1>2, SaleWallets, Accounts
  <2> HIDE DEF w
  <2> QED BY <1>2, <2>1, <2>2
<1>7. m = 0 => P = 0 /\ i = n
  <2>1. SUFFICES ASSUME m = 0 PROVE P = 0 /\ i = n
    OBVIOUS
  <2>2. out = Unsold
    BY <1>2, <2>1 DEF Sale
  <2>3. shares[Aggregator] = 0 /\ PrimeBought(out, c) = 0
    BY <1>1, <2>1, <2>2 DEF SecondarySharesBacked, PrimeBought, AdjustedAmount
  <2> QED BY <2>1, <2>3 DEF PrimeAfter, CurrentShares
<1>8. m # 0 => /\ P # 0
               /\ V = (A * P) \div T /\ V # 0
               /\ i = (n * m) \div V
  BY DEF AggregatorDeposit, TotalAmountStaked, CurrentShares
<1>9. f = IF T # 0 THEN (n * T) \div A ELSE n
  BY DEF PrimeFor
<1> HIDE DEF due, A, T, P, f, i, m, V
<1>10. /\ V \in Nat /\ X \in Nat /\ Q \in Nat \ {0} /\ A * P \in Nat
       /\ T # 0 => A * P < T * (V + 1)
  <2>1. A * P \in Nat /\ f \in Nat \ {0}
    BY <1>2, <1>3, MulNat
  <2>2. X \in Nat /\ Q \in Nat \ {0}
    <3>1. A + n \in Nat /\ P + f \in Nat
      BY <1>2, <1>3, <2>1
    <3> QED BY <3>1, <2>1, <1>3, MulNat
  <2>3. CASE m = 0
    <3>1. V = 0 /\ P = 0
      BY <2>3, <1>7 DEF V
    <3>2. T # 0 => A * P < T * (V + 1)
      BY <3>1, <1>3
    <3> QED BY <2>1, <2>2, <3>1, <3>2
  <2>4. CASE m # 0
    <3>1. T \in Nat \ {0} /\ V = (A * P) \div T
      BY <2>4, <1>3, <1>8
    <3>2. V \in Nat /\ A * P < T * (V + 1)
      BY <3>1, <2>1, DivNat, DivBounds
    <3> QED BY <2>1, <2>2, <3>2
  <2> QED BY <2>3, <2>4
<1>11. X < Q * (n + V + 1)
  <2>1. CASE T = 0
    <3>1. f = n /\ A = 0 /\ P = 0
      BY <2>1, <1>3, <1>9
    <3>2. X = n * n /\ Q * (n + V + 1) = n * n + n * V + n /\ n * V \in Nat /\ n * n \in Nat
      BY <3>1, <2>1, <1>2, <1>10
    <3> HIDE DEF X, Q
    <3> QED BY <3>2, <1>2
  <2>2. CASE T # 0
    <3>1. A \in Nat \ {0} /\ P \in 0..T /\ f \in Nat /\ f = (n * T) \div A
      BY <2>2, <1>2, <1>3, <1>9
    <3>2. T * X <= Q * (n * T + A * P)
      BY <3>1, <1>2, <1>3, HoldingAfter
    <3> HIDE DEF X, Q
    <3> QED BY <3>2, <2>2, <1>2, <1>3, <1>10, HoldingBelow
  <2> QED BY <2>1, <2>2
<1>12. V * i <= n * m
  <2>1. CASE m = 0
    <3>1. V = 0
      BY <2>1 DEF V
    <3> QED BY <3>1, <2>1, <1>2
  <2>2. CASE m # 0
    <3>1. V \in Nat \ {0} /\ n * m \in Nat /\ i = (n * m) \div V
      BY <2>2, <1>1, <1>2, <1>8, <1>10, MulNat
    <3> QED BY <3>1, DivBounds
  <2> QED BY <2>1, <2>2
<1>13. X * i < (n + 1) * Q * (m + i)
  <2> HIDE DEF X, Q
  <2> QED BY <1>1, <1>2, <1>10, <1>11, <1>12, IssuedWorth
<1>14. userInfo'[u] - userInfo[u] = i
  BY <1>1, <1>2, <1>4
<1> QED BY <1>2, <1>4, <1>5, <1>6, <1>13, <1>14

\* What a withdrawal does.
LEMMA RedeemFair ==
  ASSUME AggregatorInv,
         NEW u \in Staker, NEW s \in 1..userInfo[u], NEW out \in Outcome, NEW c \in Compounds,
         RedeemShares(u, s, out, c)
  PROVE  /\ userInfo'[u] < userInfo[u]
         /\ \A v \in Staker \ {u} : userInfo'[v] = userInfo[v]
         /\ shares'[Aggregator] * totalSecondaryShares
              >= shares[Aggregator] * totalSecondaryShares'
<1> DEFINE P == PrimeAfter(out, c)
           q == CurrentNumberPrimeShares(s, out, c)
           p == shares[Aggregator]
           m == totalSecondaryShares
<1>1. /\ SharesInv /\ LedgerTypeOK /\ SecondarySharesBacked
      /\ userInfo \in [Staker -> Nat] /\ shares \in [User -> Nat]
  BY DEF AggregatorInv, SharesInv, LedgerTypeOK, TypeOK
<1>2. /\ Sale(HarvestDue, out) /\ Compounded(c) /\ HarvestDue \in BOOLEAN
      /\ shares'[Aggregator] = P - q
      /\ totalSecondaryShares' = m - s
      /\ userInfo'[u] = userInfo[u] - s
      /\ \A v \in Staker \ {u} : userInfo'[v] = userInfo[v]
  BY <1>1, Accounts DEF RedeemShares, HarvestAndSellAndCompound, HarvestDue
<1>3. m \in Nat \ {0} /\ s \in 1..m
  BY <1>1, <1>2, RedeemBounds
<1>4. P \in Nat /\ p \in Nat /\ p <= P
  BY <1>1, <1>2, HarvestTotals, Accounts
<1>5. q = (P * s) \div m
  BY DEF CurrentNumberPrimeShares
<1> HIDE DEF P, q, p, m
<1>6. (P - q) * m >= P * (m - s)
  BY <1>3, <1>4, <1>5, PayoutKeepsPrice
<1>7. P * (m - s) >= p * (m - s)
  <2>1. m - s \in Nat
    BY <1>3
  <2>2. (m - s) * p <= (m - s) * P /\ (m - s) * p = p * (m - s) /\ (m - s) * P = P * (m - s)
    BY <2>1, <1>4, MulMonotone
  <2> QED BY <2>2
<1>8. (P - q) * m >= p * (m - s)
  <2>1. q \in Int /\ (P - q) * m \in Int /\ P * (m - s) \in Int /\ p * (m - s) \in Int
    <3>1. q \in Nat
      BY <1>3, <1>4, <1>5, MulNat, DivNat
    <3> QED BY <3>1, <1>3, <1>4
  <2> QED BY <2>1, <1>6, <1>7
<1>9. userInfo'[u] < userInfo[u]
  BY <1>1, <1>2, <1>3
<1> QED BY <1>2, <1>8, <1>9 DEF p, m

\* The two halves of NobodyElsePays, named so that the cases below can state
\* them.
FairStep ==
  \A u \in Staker :
    /\ userInfo'[u] > userInfo[u]
         => staked' * shares'[Aggregator] * (userInfo'[u] - userInfo[u])
              < (wallet[u] - wallet'[u] + 1) * totalShares' * totalSecondaryShares'
    /\ userInfo'[u] < userInfo[u]
         => shares'[Aggregator] * totalSecondaryShares
              >= shares[Aggregator] * totalSecondaryShares'

\* Whatever is harvested and sold in the same transaction, and however three
\* divisions round, who deposits gets shares worth less than one unit more
\* than it paid, and who leaves takes no prime share of the others.
THEOREM DepositsFair == AggregatorSpec => NobodyElsePays
<1>1. AggregatorInv /\ [AggregatorNext]_aggregatorVars => [FairStep]_aggregatorVars
  <2> SUFFICES ASSUME AggregatorInv, AggregatorNext PROVE FairStep
    OBVIOUS
  <2>t. userInfo \in [Staker -> Nat]
    BY DEF AggregatorInv, LedgerTypeOK
  <2>1. ASSUME NEW u \in Staker, NEW n \in DepositAmounts, NEW out \in Outcome,
               NEW c \in Compounds, AggregatorDeposit(u, n, out, c)
        PROVE  FairStep
    <3>1. ASSUME NEW v \in Staker, v # u PROVE ~(userInfo'[v] > userInfo[v]) /\ ~(userInfo'[v] < userInfo[v])
      BY <2>1, <2>t, <3>1, DepositFair
    <3>2. userInfo'[u] - userInfo[u] \in Nat \ {0} /\ userInfo[u] \in Nat /\ userInfo'[u] \in Nat
      BY <2>1, <2>t, DepositFair, DepositKeeps DEF AggregatorInv, LedgerTypeOK
    <3>3. ~(userInfo'[u] < userInfo[u])
      BY <3>2
    <3> QED BY <2>1, <3>1, <3>3, DepositFair DEF FairStep
  <2>2. ASSUME NEW u \in Staker, NEW s \in 1..userInfo[u], NEW out \in Outcome,
               NEW c \in Compounds, RedeemShares(u, s, out, c)
        PROVE  FairStep
    <3>1. ASSUME NEW v \in Staker, v # u PROVE ~(userInfo'[v] > userInfo[v]) /\ ~(userInfo'[v] < userInfo[v])
      BY <2>2, <2>t, <3>1, RedeemFair
    <3>2. userInfo[u] \in Nat /\ userInfo'[u] \in Nat /\ userInfo'[u] < userInfo[u]
      BY <2>2, <2>t, RedeemFair, RedeemKeeps DEF AggregatorInv, LedgerTypeOK
    <3>3. ~(userInfo'[u] > userInfo[u])
      BY <3>2
    <3> QED BY <2>2, <3>1, <3>3, RedeemFair DEF FairStep
  <2>3. ASSUME UNCHANGED userInfo PROVE FairStep
    <3>1. ASSUME NEW v \in Staker PROVE ~(userInfo'[v] > userInfo[v]) /\ ~(userInfo'[v] < userInfo[v])
      BY <2>3, <2>t, <3>1
    <3> QED BY <3>1 DEF FairStep
  <2>4. ASSUME NEW u \in Staker, NEW s \in RedeemAmounts, NEW out \in Outcome, NEW c \in Compounds,
               AggregatorWithdraw(u, s, out, c)
        PROVE  FairStep
    <3>1. s \in 1..userInfo[u] /\ RedeemShares(u, s, out, c)
      BY <2>4, <2>t, AggregatorAssumption DEF AggregatorWithdraw
    <3> QED BY <3>1, <2>2
  <2>5. ASSUME NEW u \in Staker, NEW out \in Outcome, NEW c \in Compounds,
               AggregatorWithdrawAll(u, out, c)
        PROVE  FairStep
    <3>1. userInfo[u] \in 1..userInfo[u] /\ RedeemShares(u, userInfo[u], out, c)
      BY <2>5, <2>t DEF AggregatorWithdrawAll
    <3> QED BY <3>1, <2>2
  <2>6. ASSUME NEW out \in Outcome, NEW c \in Compounds, OwnerHarvest(out, c) PROVE FairStep
    BY <2>6, <2>3 DEF OwnerHarvest, ledger
  <2>7. CASE SettingsNext \/ SystemStep
    BY <2>7, <2>3 DEF SettingsNext, SystemStep, ledger
  <2> QED BY <2>1, <2>4, <2>5, <2>6, <2>7 DEF AggregatorNext, AggregatorStep, Outcome
<1>2. AggregatorInit => AggregatorInv
  BY AggregatorStarts
<1>3. AggregatorInv /\ [AggregatorNext]_aggregatorVars => AggregatorInv'
  BY AggregatorInductive
<1>4. [][FairStep]_aggregatorVars => NobodyElsePays
  BY PTL DEF NobodyElsePays, FairStep
<1> QED BY <1>1, <1>2, <1>3, <1>4, PTL DEF AggregatorSpec
-----------------------------------------------------------------------------
\* A quotient that is at least one.
LEMMA DivPositive ==
  ASSUME NEW a \in Nat, NEW b \in Nat \ {0}, b <= a
  PROVE  a \div b \in Nat \ {0}
<1> DEFINE q == a \div b
<1>1. q \in Nat /\ a < b * (q + 1)
  BY DivNat, DivBounds
<1> HIDE DEF q
<1>2. q # 0
  <2>1. SUFFICES ASSUME q = 0 PROVE FALSE
    OBVIOUS
  <2>2. b * (q + 1) = b
    BY <2>1
  <2> QED BY <2>2, <1>1
<1> QED BY <1>1, <1>2 DEF q

\* The invariant leaves a withdrawal open.
LEMMA OpenInInvariant ==
  ASSUME AggregatorInv
  PROVE  WithdrawalsOpen
<1>1. SUFFICES ASSUME NEW u \in Staker, NEW out \in Outcome, NEW c \in Compounds,
                      userInfo[u] > 0,
                      totalSecondaryShares <= shares[Aggregator] * userInfo[u],
                      Sale(HarvestDue, out), Compounded(c),
                      staked + c <= PRECISION_FACTOR * totalShares
               PROVE  Accepted(out, c) /\ Redeemable(userInfo[u], out, c)
  BY Zenon DEF WithdrawalsOpen, Outcome
<1> DEFINE a == AdjustedAmount(out)
           s == userInfo[u]
           A == StakedAfter(out, c)
           T == TotalAfter(out, c)
           P == PrimeAfter(out, c)
           q == CurrentNumberPrimeShares(s, out, c)
<1>2. /\ SharesInv /\ LedgerTypeOK /\ SecondarySharesBacked /\ TypeOK
      /\ userInfo \in [Staker -> Nat] /\ totalSecondaryShares \in Nat
      /\ s \in Nat \ {0} /\ s \in 1..userInfo[u] /\ HarvestDue \in BOOLEAN
  <2>1. userInfo \in [Staker -> Nat]
    BY DEF AggregatorInv, LedgerTypeOK
  <2> QED BY <1>1, <2>1 DEF AggregatorInv, SharesInv, LedgerTypeOK, HarvestDue
<1>3. /\ staked \in Nat /\ totalShares \in Nat /\ c \in Nat /\ a \in Nat
      /\ shares[Aggregator] \in Nat
      /\ PRECISION_FACTOR \in Nat \ {0}
      /\ totalShares = 0 => staked + c = 0
  BY <1>1, <1>2, Accounts, SaleWallets DEF TypeOK, SharesInv, SharesRedeemable, Compounded
<1>4. Accepted(out, c)
  <2>1. SUFFICES ASSUME a # 0 PROVE a >= PRECISION_FACTOR /\ PrimeBought(out, c) # 0
    BY DEF Accepted
  <2>2. a >= PRECISION_FACTOR
    BY <2>1 DEF AdjustedAmount
  <2>3. CASE totalShares = 0
    BY <2>1, <2>2, <2>3 DEF PrimeBought, SharesFor
  <2>4. CASE totalShares # 0
    <3>1. PrimeBought(out, c) = (a * totalShares) \div (staked + c)
      BY <2>1, <2>4 DEF PrimeBought, SharesFor
    <3> HIDE DEF a
    <3>2. PRECISION_FACTOR * totalShares <= a * totalShares
      <4>1. totalShares * PRECISION_FACTOR <= totalShares * a
        BY <1>3, <2>2, MulMonotone
      <4>2. totalShares * PRECISION_FACTOR = PRECISION_FACTOR * totalShares
            /\ totalShares * a = a * totalShares
        BY <1>3
      <4> QED BY <4>1, <4>2
    <3>3. staked + c <= a * totalShares /\ a * totalShares \in Nat
      <4>1. a * totalShares \in Nat /\ PRECISION_FACTOR * totalShares \in Nat
        BY <1>3, MulNat
      <4> QED BY <1>1, <1>3, <3>2, <4>1
    <3>4. staked + c \in Nat \ {0}
      BY <1>2, <1>3, <2>4 DEF SharesInv, SharesRedeemable
    <3>5. (a * totalShares) \div (staked + c) \in Nat \ {0}
      BY <3>3, <3>4, DivPositive
    <3> QED BY <2>2, <3>1, <3>5
  <2> QED BY <2>2, <2>3, <2>4
<1>5. /\ totalSecondaryShares \in Nat \ {0}
      /\ q \in 0..P
      /\ AmountToTransfer(s, out, c) \in 0..A
  BY <1>1, <1>2, RedeemBounds
<1>6. /\ A \in Nat /\ T \in Nat /\ P \in Nat /\ P <= T /\ T <= A
      /\ shares[Aggregator] <= P
  BY <1>1, <1>2, HarvestTotals
<1>7. q # 0
  <2>1. q = (P * s) \div totalSecondaryShares
    BY DEF CurrentNumberPrimeShares
  <2>2. totalSecondaryShares <= P * s /\ P * s \in Nat
    <3> HIDE DEF P, s
    <3>1. s * shares[Aggregator] <= s * P /\ s * shares[Aggregator] = shares[Aggregator] * s
          /\ s * P = P * s /\ P * s \in Nat /\ shares[Aggregator] * s \in Nat
      BY <1>2, <1>3, <1>6, MulMonotone, MulNat
    <3>2. totalSecondaryShares <= shares[Aggregator] * s
      BY <1>1 DEF s
    <3> QED BY <1>5, <3>1, <3>2
  <2> HIDE DEF q, P, s
  <2> QED BY <2>1, <2>2, <1>5, DivPositive
<1>8. AmountToTransfer(s, out, c) # 0
  <2>1. AmountToTransfer(s, out, c) = (A * q) \div T
    BY DEF AmountToTransfer
  <2> HIDE DEF A, T, P, q
  <2>2. T \in Nat \ {0} /\ q \in Nat \ {0}
    BY <1>5, <1>6, <1>7
  <2>3. T <= A * q /\ A * q \in Nat
    <3>1. A * 1 <= A * q /\ A * q \in Nat
      BY <1>6, <2>2, MulMonotone, MulNat
    <3> QED BY <3>1, <1>6
  <2> QED BY <2>1, <2>2, <2>3, DivPositive
<1>9. Redeemable(s, out, c)
  <2> HIDE DEF A, P, q, s
  <2> QED BY <1>5, <1>6, <1>7, <1>8 DEF Redeemable, A, P, q
<1> QED BY <1>4, <1>9

\* No answer of the market, and no state that deposits, harvests and
\* withdrawals lead to, locks the withdrawal of a prime share.
THEOREM NeverLocked == AggregatorSpec => []WithdrawalsOpen
<1>1. AggregatorInit => AggregatorInv
  BY AggregatorStarts
<1>2. AggregatorInv /\ [AggregatorNext]_aggregatorVars => AggregatorInv'
  BY AggregatorInductive
<1>3. AggregatorInv => WithdrawalsOpen
  BY OpenInInvariant
<1> QED BY <1>1, <1>2, <1>3, PTL DEF AggregatorSpec
-----------------------------------------------------------------------------
(* The WETH the aggregator earned *)

\* The invariant with the system's funding: what the aggregator may claim is
\* there, so that its harvest only fails when there is nothing to claim.
EarnedInv == AggregatorInv /\ FundedInv /\ rewardHeld \in Nat

\* The change of one step, named so that the cases below can state it.
KeptOrSold == Earned' # Earned => Earned' = 0 /\ wallet'[Market] < wallet[Market]

\* A sale takes something from the market, if the market gives something.
LEMMA SaleTakes ==
  ASSUME TypeOK, 0 \notin AmountsOut, NEW due \in BOOLEAN, NEW out \in Outcome, Sale(due, out),
         out # Unsold
  PROVE  AfterSale(wallet, out)[Market] < wallet[Market]
<1>1. /\ wallet \in [User -> Nat] /\ Market \in User /\ Aggregator \in User /\ Aggregator # Market
      /\ out \in Nat \ {0} /\ out <= wallet[Market] /\ wallet[Market] \in Nat
  BY AggregatorAssumption DEF TypeOK, Sale, Outcome
<1>2. AfterSale(wallet, out)[Market] = wallet[Market] - out
  BY <1>1 DEF AfterSale
<1> QED BY <1>1, <1>2

\* A harvest, whether its claim and its sale succeed or not, keeps what was
\* earned or sells all of it.
LEMMA HarvestEarned ==
  ASSUME EarnedInv, TypeOK', 0 \notin AmountsOut,
         NEW due \in BOOLEAN, NEW out \in Outcome, NEW c \in Compounds,
         HarvestAndSellAndCompound(due, out, c),
         UpdateReward(Aggregator), Claim(Aggregator, Harvested(due)), UNCHANGED <<block, period>>,
         \A v \in User \ {Aggregator} : shares'[v] = shares[v],
         wallet'[Market] = AfterSale(wallet, out)[Market]
  PROVE  StoredFunded' /\ rewardHeld' \in Nat /\ KeptOrSold
<1> DEFINE pending == CalculatePendingRewards(Aggregator)
<1>1. /\ FundedInv /\ TypeOK /\ NoCheckpointReverts /\ rewardHeld \in Nat /\ Aggregator \in User
      /\ Harvested(due) \in BOOLEAN
  BY AggregatorAssumption DEF EarnedInv, FundedInv, SharesInv, Harvested
<1>2. StoredFunded'
  BY <1>1, CheckpointFunded
<1>3. /\ CalculatePendingRewards(Aggregator)' = IF Harvested(due) THEN 0 ELSE pending
      /\ pending \in 0..weth /\ weth \in Nat
  <2>1. /\ CalculatePendingRewards(Aggregator)' = rewards'[Aggregator]
        /\ rewards'[Aggregator] = IF Harvested(due) THEN 0 ELSE pending
    BY <1>1, CheckpointClaims
  <2> QED BY <1>1, <2>1, ClaimHeld DEF TypeOK
<1>4. AmountToSell(due) = rewardHeld + (IF Harvested(due) THEN pending ELSE 0)
      /\ (due /\ ~Harvested(due) => pending = 0)
  <2>1. Harvested(due) <=> due /\ pending \in 1..weth
    BY DEF Harvested
  <2>2. pending \in 0..weth /\ pending \notin 1..weth => pending = 0
    BY <1>3
  <2> QED BY <1>3, <2>1, <2>2 DEF AmountToSell
<1>5. /\ rewardHeld' = IF out # Unsold THEN 0 ELSE AmountToSell(due)
      /\ Sale(due, out)
  BY DEF HarvestAndSellAndCompound
<1>6. Earned = rewardHeld + pending /\ Earned' = rewardHeld' + CalculatePendingRewards(Aggregator)'
  BY DEF Earned
<1> HIDE DEF pending
<1>7. CASE out = Unsold
  <2>1. rewardHeld' = rewardHeld + (IF Harvested(due) THEN pending ELSE 0)
    BY <1>4, <1>5, <1>7
  <2>2. rewardHeld' \in Nat /\ Earned' = Earned
    BY <1>1, <1>3, <1>6, <2>1
  <2> QED BY <1>2, <2>2 DEF KeptOrSold
<1>8. CASE out # Unsold
  <2>1. due /\ rewardHeld' = 0
    BY <1>5, <1>8 DEF Sale
  <2>2. CalculatePendingRewards(Aggregator)' = 0
    BY <1>3, <1>4, <2>1
  <2>3. wallet'[Market] < wallet[Market]
    BY <1>1, <1>5, <1>8, SaleTakes
  <2> QED BY <1>2, <1>6, <2>1, <2>2, <2>3 DEF KeptOrSold
<1> QED BY <1>7, <1>8

\* A withdrawal.
LEMMA RedeemEarned ==
  ASSUME EarnedInv, TypeOK', 0 \notin AmountsOut,
         NEW u \in Staker, NEW s, NEW out \in Outcome, NEW c \in Compounds,
         RedeemShares(u, s, out, c)
  PROVE  StoredFunded' /\ rewardHeld' \in Nat /\ KeptOrSold
<1>1. TypeOK /\ HarvestDue \in BOOLEAN /\ u \in User /\ u # Market /\ Market \in User
      /\ Aggregator \in User
  BY AggregatorAssumption DEF EarnedInv, FundedInv, SharesInv, HarvestDue, Staker
<1>2. /\ HarvestAndSellAndCompound(HarvestDue, out, c)
      /\ UpdateReward(Aggregator) /\ Claim(Aggregator, Harvested(HarvestDue))
      /\ UNCHANGED <<block, period>>
      /\ \A v \in User \ {Aggregator} : shares'[v] = shares[v]
  BY <1>1 DEF RedeemShares, TypeOK
<1>3. wallet'[Market] = AfterSale(wallet, out)[Market]
  <2> DEFINE w == AfterSale(wallet, out)
  <2>1. w \in [User -> Nat]
    BY <1>1, <1>2, SaleWallets DEF HarvestAndSellAndCompound
  <2>2. wallet' = [w EXCEPT ![u] = @ + AmountToTransfer(s, out, c)]
    BY DEF RedeemShares
  <2> HIDE DEF w
  <2>3. wallet'[Market] = w[Market]
    BY <1>1, <2>1, <2>2
  <2> QED BY <2>3 DEF w
<1> QED BY <1>1, <1>2, <1>3, HarvestEarned

\* A deposit.
LEMMA DepositEarned ==
  ASSUME EarnedInv, TypeOK', 0 \notin AmountsOut,
         NEW u \in Staker, NEW n, NEW out \in Outcome, NEW c \in Compounds,
         AggregatorDeposit(u, n, out, c)
  PROVE  StoredFunded' /\ rewardHeld' \in Nat /\ KeptOrSold
<1> DEFINE due == HarvestDue /\ totalSecondaryShares # 0
<1>1. TypeOK /\ due \in BOOLEAN /\ u \in User /\ u # Market /\ Market \in User
      /\ Aggregator \in User
  BY AggregatorAssumption DEF EarnedInv, FundedInv, SharesInv, HarvestDue, Staker
<1>2. /\ HarvestAndSellAndCompound(due, out, c)
      /\ UpdateReward(Aggregator) /\ Claim(Aggregator, Harvested(due))
      /\ UNCHANGED <<block, period>>
      /\ \A v \in User \ {Aggregator} : shares'[v] = shares[v]
  BY <1>1 DEF AggregatorDeposit, Issue, TypeOK
<1>3. wallet'[Market] = AfterSale(wallet, out)[Market]
  <2> DEFINE w == AfterSale(wallet, out)
  <2>1. w \in [User -> Nat]
    BY <1>1, <1>2, SaleWallets DEF HarvestAndSellAndCompound
  <2>2. wallet' = [w EXCEPT ![u] = @ - n]
    BY DEF AggregatorDeposit
  <2> HIDE DEF w
  <2>3. wallet'[Market] = w[Market]
    BY <1>1, <2>1, <2>2
  <2> QED BY <2>3 DEF w
<1> HIDE DEF due
<1> QED BY <1>1, <1>2, <1>3, HarvestEarned

\* A harvest by the owner, which may leave the system as it is.
LEMMA OwnerHarvestEarned ==
  ASSUME EarnedInv, TypeOK', 0 \notin AmountsOut, NEW out \in Outcome, NEW c \in Compounds,
         OwnerHarvest(out, c)
  PROVE  StoredFunded' /\ rewardHeld' \in Nat /\ KeptOrSold
<1>1. TypeOK /\ FundedInv /\ Aggregator \in User /\ rewardHeld \in Nat
      /\ HarvestAndSellAndCompound(TRUE, out, c) /\ UNCHANGED <<block, period>>
      /\ wallet' = AfterSale(wallet, out)
  BY AggregatorAssumption DEF EarnedInv, FundedInv, SharesInv, OwnerHarvest
<1>2. CASE Harvested(TRUE) \/ AdjustedAmount(out) # 0
  <2>1. /\ UpdateReward(Aggregator) /\ Claim(Aggregator, Harvested(TRUE))
        /\ \A v \in User \ {Aggregator} : shares'[v] = shares[v]
    BY <1>1, <1>2 DEF OwnerHarvest, Issue, TypeOK
  <2> QED BY <1>1, <2>1, HarvestEarned
<1>3. CASE ~(Harvested(TRUE) \/ AdjustedAmount(out) # 0)
  <2> DEFINE pending == CalculatePendingRewards(Aggregator)
  <2>1. UNCHANGED <<rewardPerTokenStored, lastUpdateBlock, accounts, totalShares, staked, weth>>
    BY <1>3 DEF OwnerHarvest
  <2>2. StoredFunded'
    BY <1>1, <2>1 DEF FundedInv, StoredFunded, Promised, Owed, accounts, period
  <2>3. CalculatePendingRewards(Aggregator)' = pending
    BY <1>1, <2>1 DEF CalculatePendingRewards, RewardPerToken, LastRewardBlock, accounts, period
  <2>4. pending = 0
    <3>1. pending \in 0..weth /\ weth \in Nat
      BY <1>1, ClaimHeld DEF TypeOK
    <3>2. pending \notin 1..weth
      BY <1>3 DEF Harvested
    <3> HIDE DEF pending
    <3> QED BY <3>1, <3>2
  <2>5. AmountToSell(TRUE) = rewardHeld
    <3>1. AmountToSell(TRUE) = rewardHeld + 0
      BY <1>3, Zenon DEF AmountToSell
    <3>2. rewardHeld \in Nat
      BY DEF EarnedInv
    <3>3. rewardHeld + 0 = rewardHeld
      BY <3>2
    <3> QED BY <3>1, <3>3, Zenon
  <2>6. rewardHeld' = IF out # Unsold THEN 0 ELSE rewardHeld
    BY <1>1, <2>5 DEF HarvestAndSellAndCompound
  <2>7. Earned = rewardHeld + pending /\ Earned' = rewardHeld' + pending
    BY <2>3 DEF Earned
  <2>8. out # Unsold => wallet'[Market] < wallet[Market]
    BY <1>1, SaleTakes DEF HarvestAndSellAndCompound
  <2> HIDE DEF pending
  <2> QED BY <1>1, <2>2, <2>4, <2>6, <2>7, <2>8 DEF KeptOrSold
<1> QED BY <1>2, <1>3

\* A transaction of a user who stakes in the system itself.
LEMMA DirectEarned ==
  ASSUME EarnedInv, TypeOK', NEW u \in Direct, UserStep(u), UNCHANGED rewardHeld
  PROVE  StoredFunded' /\ rewardHeld' \in Nat /\ KeptOrSold
<1>1. /\ FundedInv /\ TypeOK /\ NoCheckpointReverts /\ rewardHeld \in Nat
      /\ Aggregator \in User \ {u} /\ u \in User
  BY AggregatorAssumption DEF EarnedInv, FundedInv, SharesInv
<1>2. PICK claimRewardToken \in BOOLEAN :
        /\ UpdateReward(u) /\ Claim(u, claimRewardToken) /\ UNCHANGED <<block, period>>
        /\ \A v \in User \ {u} : shares'[v] = shares[v]
  BY <1>1, UserCheckpoints
<1>3. StoredFunded'
  BY <1>1, <1>2, CheckpointFunded
<1>4. CalculatePendingRewards(Aggregator)' = CalculatePendingRewards(Aggregator)
  BY <1>1, <1>2, CheckpointClaims
<1> QED BY <1>1, <1>3, <1>4 DEF KeptOrSold, Earned

\* For any market that pays something for what it takes, and rewards of at
\* least a unit a block: through harvests and sales that fail, deposits and
\* withdrawals that claim or do not, the aggregator's WETH stays what it is
\* until all of it is sold.  (A renewal with so little reward that neither the
\* rate nor the end of the period moved would look like no renewal.)
THEOREM NothingForgotten ==
  ASSUME 0 \notin AmountsOut, \A reward \in OwnerRewards, n \in OwnerDurations : n <= reward
  PROVE  AggregatorSpec => EarnedOrSold
<1>1. AggregatorInit => EarnedInv
  <2> SUFFICES ASSUME AggregatorInit PROVE EarnedInv
    OBVIOUS
  <2>1. Init /\ rewardHeld = 0
    BY DEF AggregatorInit
  <2> QED BY <2>1, AggregatorStarts, FundedAtFirst DEF EarnedInv
<1>2. ASSUME EarnedInv, AggregatorNext
      PROVE  EarnedInv' /\ (UNCHANGED <<block, period>> => KeptOrSold)
  <2>1. /\ AggregatorInv /\ FundedInv /\ TypeOK /\ rewardHeld \in Nat
        /\ SharesInv /\ NoCheckpointReverts
    BY <1>2 DEF EarnedInv, FundedInv, SharesInv
  <2>2. AggregatorInv' /\ SharesInv' /\ NoCheckpointReverts' /\ TypeOK'
    <3>1. AggregatorInv'
      BY <1>2, <2>1, AggregatorInductive
    <3> QED BY <3>1 DEF AggregatorInv, SharesInv
  <2>3. ASSUME StoredFunded', rewardHeld' \in Nat PROVE EarnedInv'
    BY <2>2, <2>3 DEF EarnedInv, FundedInv
  <2>4. ASSUME NEW out \in Outcome, NEW c \in Compounds, OwnerHarvest(out, c)
        PROVE  EarnedInv' /\ KeptOrSold
    BY <1>2, <2>2, <2>3, <2>4, OwnerHarvestEarned
  <2>5. ASSUME NEW u \in Staker, NEW s, NEW out \in Outcome, NEW c \in Compounds,
               RedeemShares(u, s, out, c)
        PROVE  EarnedInv' /\ KeptOrSold
    BY <1>2, <2>2, <2>3, <2>5, RedeemEarned
  <2>6. ASSUME NEW u \in Staker, NEW n, NEW out \in Outcome, NEW c \in Compounds,
               AggregatorDeposit(u, n, out, c)
        PROVE  EarnedInv' /\ KeptOrSold
    BY <1>2, <2>2, <2>3, <2>6, DepositEarned
  <2>7. ASSUME NEW u \in Direct, UserStep(u), UNCHANGED rewardHeld
        PROVE  EarnedInv' /\ KeptOrSold
    BY <1>2, <2>2, <2>3, <2>7, DirectEarned
  <2>8. ASSUME NextBlock, UNCHANGED rewardHeld
        PROVE  EarnedInv' /\ ~UNCHANGED block
    <3>1. FundedInv'
      BY <2>1, <2>8, WaitingFunded
    <3>2. block' # block
      <4>1. block \in Nat /\ block' = block + 1
        BY <2>1, <2>8 DEF NextBlock, TypeOK
      <4> QED BY <4>1
    <3>3. EarnedInv'
      BY <2>1, <2>2, <2>8, <3>1 DEF EarnedInv
    <3> QED BY <3>2, <3>3
  <2>9. ASSUME NEW reward \in OwnerRewards, NEW n \in OwnerDurations,
               FundedUpdateRewards(reward, n), UNCHANGED rewardHeld
        PROVE  EarnedInv' /\ ~UNCHANGED period
    <3>1. reward \in Nat /\ n \in Nat /\ UpdateRewards(reward, n) /\ weth' = weth + reward
          /\ n <= reward
      BY <2>9, FeeSharingAssumption DEF FundedUpdateRewards
    <3>2. FundedInv'
      BY <2>1, <3>1, RenewalKeepsFunded
    <3>3. ASSUME UNCHANGED period PROVE FALSE
      <4> DEFINE r == currentRewardPerBlock
      <4>1. /\ n \in Nat \ {0} /\ r \in Nat /\ block \in Nat
            /\ periodEndBlock = block + n
            /\ r = (IF block >= periodEndBlock THEN reward
                    ELSE reward + (periodEndBlock - block) * r) \div n
        BY <2>1, <3>1, <3>3 DEF UpdateRewards, period, TypeOK
      <4>2. ~(block >= periodEndBlock) /\ periodEndBlock - block = n
        BY <4>1
      <4>3. r = (reward + n * r) \div n
        BY <4>1, <4>2
      <4> HIDE DEF r
      <4>4. n * r \in Nat /\ reward + n * r \in Nat
        BY <3>1, <4>1, MulNat
      <4> DEFINE a == reward + n * r
      <4> HIDE DEF a
      <4>5. a < n * (r + 1)
        <5>1. a \in Nat /\ r = a \div n
          BY <4>3, <4>4 DEF a
        <5>2. a < n * (a \div n + 1)
          BY <4>1, <5>1, DivBounds
        <5> QED BY <5>1, <5>2
      <4>6. n * (r + 1) = n * r + n
        BY <4>1
      <4> QED BY <3>1, <4>1, <4>4, <4>5, <4>6 DEF a
    <3> QED BY <2>1, <2>2, <2>9, <3>2, <3>3 DEF EarnedInv
  <2>10. ASSUME SettingsNext
         PROVE  EarnedInv' /\ KeptOrSold
    <3>1. UNCHANGED <<systemVars, rewardHeld>>
      BY <2>10 DEF SettingsNext
    <3>2. FundedInv'
      BY <2>1, <3>1, WaitingFunded
    <3>3. Earned' = Earned
      BY <3>1 DEF Earned, CalculatePendingRewards, RewardPerToken, LastRewardBlock, systemVars,
                  accounts, period
    <3> QED BY <2>1, <2>2, <3>1, <3>2, <3>3 DEF EarnedInv, KeptOrSold
  <2>11. CASE AggregatorStep
    BY <2>4, <2>5, <2>6, <2>11
       DEF AggregatorStep, AggregatorWithdraw, AggregatorWithdrawAll, Outcome
  <2>12. CASE SystemStep
    BY <2>7, <2>8, <2>9, <2>12 DEF SystemStep
  <2> QED BY <1>2, <2>10, <2>11, <2>12 DEF AggregatorNext
<1>3. EarnedInv /\ UNCHANGED aggregatorVars => EarnedInv'
  <2> SUFFICES ASSUME EarnedInv, UNCHANGED aggregatorVars PROVE EarnedInv'
    OBVIOUS
  <2>1. AggregatorInv'
    BY AggregatorInductive DEF EarnedInv
  <2>2. FundedInv'
    BY WaitingFunded DEF EarnedInv, aggregatorVars
  <2> QED BY <2>1, <2>2 DEF EarnedInv, aggregatorVars
<1>4. EarnedInv /\ [AggregatorNext]_aggregatorVars => EarnedInv'
  BY <1>2, <1>3
<1>5. EarnedInv /\ [AggregatorNext]_aggregatorVars
        => [UNCHANGED <<block, period>> => KeptOrSold]_aggregatorVars
  BY <1>2
<1>6. [][UNCHANGED <<block, period>> => KeptOrSold]_aggregatorVars => EarnedOrSold
  BY PTL DEF EarnedOrSold, KeptOrSold
<1> QED BY <1>1, <1>4, <1>5, <1>6, PTL DEF AggregatorSpec
-----------------------------------------------------------------------------
(* The splitter, the controller and the setter *)

Constructed == 0..(NUMBER_ACCOUNTS - 1)

\* The part of n received tokens that sh shares give a right to.
Due(n, sh) == (n * sh) \div TOTAL_SHARES

\* CalculatePendingLooks of account a in state s of the splitter, with the
\* shares sh.
PendingIn(s, sh, a) ==
  IF sh[a] = 0 THEN 0 ELSE Due(TotalTokensReceived(s), sh[a]) - s.distributed[a]

SharesFit(sh) ==
  /\ sh \in [Account -> Nat]
  /\ SumOver(sh, Account) <= TOTAL_SHARES

\* The total released is the sum of the releases, and no account was sent
\* more than its part.
BooksFit(s, sh) ==
  /\ s \in [distributed : [Account -> Nat], total : Nat, balance : Nat]
  /\ s.total = SumOver(s.distributed, Account)
  /\ \A a \in Account : s.distributed[a] <= Due(TotalTokensReceived(s), sh[a])

\* The inductive invariant; that the shares never exceed the constructor's
\* total is what makes the parts fit into what was received.
SplitterIInv == SharesFit(accountShares) /\ BooksFit(splitter, accountShares)
-----------------------------------------------------------------------------
(* The constructor *)

LEMMA TotalShares ==
  /\ PartialSum(ctorShares, NUMBER_ACCOUNTS) \in [0..NUMBER_ACCOUNTS -> Nat]
  /\ PartialSum(ctorShares, NUMBER_ACCOUNTS)[0] = 0
  /\ \A k \in Constructed :
       PartialSum(ctorShares, NUMBER_ACCOUNTS)[k + 1]
         = PartialSum(ctorShares, NUMBER_ACCOUNTS)[k] + ctorShares[k]
  /\ TOTAL_SHARES \in Nat \ {0}
<1> DEFINE P == PartialSum(ctorShares, NUMBER_ACCOUNTS)
<1>1. NUMBER_ACCOUNTS \in Nat \ {0} /\ ctorShares \in [Constructed -> Nat \ {0}]
  BY SplitterAssumption DEF Constructed
<1>2. ctorShares \in [0..(NUMBER_ACCOUNTS - 1) -> Nat]
  BY <1>1 DEF Constructed
<1>3. /\ P \in [0..NUMBER_ACCOUNTS -> Nat]
      /\ P[0] = 0
      /\ \A k \in 0..(NUMBER_ACCOUNTS - 1) : P[k + 1] = P[k] + ctorShares[k]
  BY <1>1, <1>2, PartialSumRec
<1> HIDE DEF P
<1>4. P[NUMBER_ACCOUNTS] = P[NUMBER_ACCOUNTS - 1] + ctorShares[NUMBER_ACCOUNTS - 1]
  <2>1. NUMBER_ACCOUNTS - 1 \in 0..(NUMBER_ACCOUNTS - 1) /\ NUMBER_ACCOUNTS - 1 + 1 = NUMBER_ACCOUNTS
    BY <1>1
  <2> QED BY <1>3, <2>1
<1>5. ctorShares[NUMBER_ACCOUNTS - 1] \in Nat \ {0} /\ P[NUMBER_ACCOUNTS - 1] \in Nat
  BY <1>1, <1>3 DEF Constructed
<1>6. P[NUMBER_ACCOUNTS] \in Nat \ {0}
  BY <1>4, <1>5
<1> QED BY <1>3, <1>6 DEF P, TOTAL_SHARES, Constructed

\* An account that is listed has a last place in the list.
LEMMA LastPlace ==
  ASSUME NEW a \in Account, Listed(a) # {}
  PROVE  LastListed(a) \in Listed(a) /\ \A j \in Listed(a) : j <= LastListed(a)
<1> DEFINE T == {n \in Nat : NUMBER_ACCOUNTS - 1 - n \in Listed(a)}
<1>1. NUMBER_ACCOUNTS \in Nat \ {0}
  BY SplitterAssumption
<1>2. Listed(a) \subseteq 0..(NUMBER_ACCOUNTS - 1)
  BY DEF Listed
<1>3. T \subseteq Nat /\ T # {}
  <2>1. PICK i \in Listed(a) : i \in 0..(NUMBER_ACCOUNTS - 1)
    BY <1>2
  <2>2. NUMBER_ACCOUNTS - 1 - i \in Nat
        /\ NUMBER_ACCOUNTS - 1 - (NUMBER_ACCOUNTS - 1 - i) = i
    BY <1>1, <2>1
  <2> QED BY <2>1, <2>2
<1>4. PICK m \in T : \A k \in T : m <= k
  <2> HIDE DEF T
  <2> QED BY <1>3, LeastNat
<1>5. NUMBER_ACCOUNTS - 1 - m \in Listed(a)
  OBVIOUS
<1>6. \A j \in Listed(a) : j <= NUMBER_ACCOUNTS - 1 - m
  <2> TAKE j \in Listed(a)
  <2>1. j \in Nat /\ m \in Nat /\ NUMBER_ACCOUNTS - 1 - j \in Nat
        /\ NUMBER_ACCOUNTS - 1 - (NUMBER_ACCOUNTS - 1 - j) = j
    BY <1>1, <1>2
  <2>2. NUMBER_ACCOUNTS - 1 - j \in T
    BY <2>1
  <2>3. m <= NUMBER_ACCOUNTS - 1 - j
    BY <1>4, <2>2
  <2> QED BY <1>1, <2>1, <2>3
<1> QED BY <1>5, <1>6 DEF LastListed

\* After k rounds of the constructor's loop the shares s given out are at
\* most the shares counted; at the end they are accountShares.
LEMMA ConstructedShares ==
  ASSUME SplitterInit
  PROVE  SharesFit(accountShares)
<1> DEFINE P == PartialSum(ctorShares, NUMBER_ACCOUNTS)
           Given(s, k) ==
             \A a \in Account :
               /\ (\A i \in Listed(a) : i >= k) => s[a] = 0
               /\ \A i \in Listed(a) :
                    i < k /\ (\A j \in Listed(a) : j < k => j <= i) => s[a] = ctorShares[i]
           Fits(k) == \E s \in [Account -> Nat] : Given(s, k) /\ SumOver(s, Account) <= P[k]
           Good == {k \in Nat : k <= NUMBER_ACCOUNTS => Fits(k)}
<1>1. /\ IsFiniteSet(Account)
      /\ NUMBER_ACCOUNTS \in Nat \ {0}
      /\ ctorAccounts \in [Constructed -> Account]
      /\ ctorShares \in [Constructed -> Nat]
  BY SplitterAssumption DEF Constructed
<1>2. P \in [0..NUMBER_ACCOUNTS -> Nat] /\ P[0] = 0
      /\ \A k \in Constructed : P[k + 1] = P[k] + ctorShares[k]
  BY TotalShares
<1>3. \A a \in Account : Listed(a) \subseteq Constructed /\ \A i \in Listed(a) : i \in Nat
  BY <1>1 DEF Listed, Constructed
<1> HIDE DEF P
<1>4. Fits(0)
  <2> DEFINE z == [a \in Account |-> 0]
  <2>1. z \in [Account -> Nat] /\ \A a \in Account : z[a] = 0
    OBVIOUS
  <2>2. SumOver(z, Account) = 0
    <3> HIDE DEF z
    <3> QED BY <2>1, SumZero
  <2>3. Given(z, 0)
    BY <1>3, <2>1
  <2> HIDE DEF z, Given
  <2> QED BY <1>2, <2>1, <2>2, <2>3
<1>5. ASSUME NEW k \in Nat, k + 1 <= NUMBER_ACCOUNTS, Fits(k) PROVE Fits(k + 1)
  <2>1. PICK s \in [Account -> Nat] : Given(s, k) /\ SumOver(s, Account) <= P[k]
    BY <1>5
  <2>2. k \in Constructed
    BY <1>1, <1>5 DEF Constructed
  <2> DEFINE b == ctorAccounts[k]
             t == [s EXCEPT ![b] = ctorShares[k]]
  <2>3. b \in Account /\ ctorShares[k] \in Nat /\ t \in [Account -> Nat]
        /\ t[b] = ctorShares[k] /\ \A a \in Account \ {b} : t[a] = s[a]
    BY <1>1, <2>2
  <2>4. k \in Listed(b) /\ \A a \in Account \ {b} : k \notin Listed(a)
    BY <2>2, <2>3 DEF Listed, Constructed
  <2> HIDE DEF b, t
  <2>5. SumOver(t, Account) <= P[k + 1]
    <3>1. SumOver(t, Account) = SumOver(s, Account) - s[b] + t[b]
      BY <1>1, <2>3, SumUpdate
    <3>2. SumOver(s, Account) \in Nat
      BY <1>1, UnitsFinite
    <3>3. P[k] \in Nat /\ P[k + 1] = P[k] + ctorShares[k] /\ s[b] \in Nat
      <4>1. P[k] \in Nat
        <5>1. k \in 0..NUMBER_ACCOUNTS
          BY <1>1, <1>5
        <5> QED BY <1>2, <5>1
      <4>2. P[k + 1] = P[k] + ctorShares[k]
        BY <1>2, <2>2, Zenon
      <4> QED BY <4>1, <4>2, <2>3
    <3> QED BY <2>1, <2>3, <3>1, <3>2, <3>3
  <2>6. Given(t, k + 1)
    <3>1. SUFFICES ASSUME NEW a \in Account
                   PROVE  /\ (\A i \in Listed(a) : i >= k + 1) => t[a] = 0
                          /\ \A i \in Listed(a) :
                               i < k + 1 /\ (\A j \in Listed(a) : j < k + 1 => j <= i)
                                 => t[a] = ctorShares[i]
      OBVIOUS
    <3>2. \A i \in Listed(a) : i \in Nat
      BY <1>3
    <3>3. CASE a = b
      <4>1. ASSUME NEW i \in Listed(a), i < k + 1, \A j \in Listed(a) : j < k + 1 => j <= i
            PROVE  i = k
        <5>1. k <= i
          BY <2>4, <3>3, <4>1
        <5> QED BY <3>2, <4>1, <5>1
      <4>2. ~(\A i \in Listed(a) : i >= k + 1)
        BY <2>4, <3>3
      <4> QED BY <2>3, <3>3, <4>1, <4>2
    <3>4. CASE a # b
      <4>1. t[a] = s[a] /\ \A i \in Listed(a) : i # k
        BY <2>3, <2>4, <3>4
      <4>2. \A i \in Listed(a) : (i < k + 1 <=> i < k) /\ (i >= k => i >= k + 1)
        BY <3>2, <4>1
      <4>3. /\ (\A i \in Listed(a) : i >= k) => s[a] = 0
            /\ \A i \in Listed(a) :
                 i < k /\ (\A j \in Listed(a) : j < k => j <= i) => s[a] = ctorShares[i]
        BY <2>1
      <4>4. (\A i \in Listed(a) : i >= k + 1) => \A i \in Listed(a) : i >= k
        BY <3>2
      <4> QED BY <4>1, <4>2, <4>3, <4>4
    <3> QED BY <3>3, <3>4
  <2> HIDE DEF Given
  <2> QED BY <2>3, <2>5, <2>6
<1>6. Fits(NUMBER_ACCOUNTS)
  <2> HIDE DEF Fits
  <2>1. 0 \in Good
    BY <1>4
  <2>2. \A k \in Nat : k \in Good => k + 1 \in Good
    BY <1>1, <1>5
  <2>3. Nat \subseteq Good
    <3> HIDE DEF Good
    <3> QED BY <2>1, <2>2, SetInduction
  <2> QED BY <1>1, <2>3
<1>7. PICK s \in [Account -> Nat] :
        Given(s, NUMBER_ACCOUNTS) /\ SumOver(s, Account) <= P[NUMBER_ACCOUNTS]
  BY <1>6
<1>8. ASSUME NEW a \in Account PROVE s[a] = accountShares[a]
  <2>1. accountShares[a] = IF Listed(a) = {} THEN 0 ELSE ctorShares[LastListed(a)]
    BY DEF SplitterInit
  <2>2. CASE Listed(a) = {}
    BY <1>7, <2>1, <2>2
  <2>3. CASE Listed(a) # {}
    <3>1. LastListed(a) \in Listed(a) /\ \A j \in Listed(a) : j <= LastListed(a)
      BY <2>3, LastPlace
    <3>2. LastListed(a) < NUMBER_ACCOUNTS
      BY <1>1, <1>3, <3>1 DEF Constructed
    <3>3. s[a] = ctorShares[LastListed(a)]
      BY <1>7, <3>1, <3>2
    <3> QED BY <2>1, <2>3, <3>3
  <2> QED BY <2>2, <2>3
<1>9. accountShares = s
  BY <1>8 DEF SplitterInit
<1> QED BY <1>7, <1>9 DEF P, TOTAL_SHARES, SharesFit
-----------------------------------------------------------------------------
(* What an account is due *)

\* A part of what was received is a natural, and grows with it.
LEMMA DueGrows ==
  ASSUME NEW n \in Nat, NEW m \in Nat, n <= m, NEW sh \in Nat
  PROVE  Due(n, sh) \in Nat /\ Due(n, sh) <= Due(m, sh)
<1>1. TOTAL_SHARES \in Nat \ {0}
  BY TotalShares
<1>2. n * sh \in Nat /\ m * sh \in Nat
  BY MulNat
<1>3. n * sh <= m * sh
  <2>1. sh * n <= sh * m
    BY MulMonotone
  <2>2. sh * n = n * sh /\ sh * m = m * sh
    OBVIOUS
  <2> QED BY <2>1, <2>2
<1>4. (n * sh) \div TOTAL_SHARES \in Nat
  BY <1>1, <1>2, DivNat
<1>5. (n * sh) \div TOTAL_SHARES <= (m * sh) \div TOTAL_SHARES
  <2> DEFINE x == n * sh
             y == m * sh
  <2>1. x \in Nat /\ y \in Nat /\ x <= y
    BY <1>2, <1>3
  <2> HIDE DEF x, y
  <2>2. x \div TOTAL_SHARES <= y \div TOTAL_SHARES
    BY <1>1, <2>1, DivMonotone
  <2> QED BY <2>2 DEF x, y
<1> QED BY <1>4, <1>5 DEF Due

\* No share, no part.
LEMMA NothingDue ==
  ASSUME NEW n \in Nat
  PROVE  Due(n, 0) = 0
<1>1. TOTAL_SHARES \in Nat \ {0}
  BY TotalShares
<1>2. n * 0 = 0 /\ 0 \div TOTAL_SHARES = 0
  BY <1>1
<1> QED BY <1>2 DEF Due

\* What an account may release is what it is due less what it was sent.
LEMMA PendingNat ==
  ASSUME NEW sh, SharesFit(sh), NEW s, BooksFit(s, sh), NEW a \in Account
  PROVE  /\ PendingIn(s, sh, a) \in Nat /\ s.distributed[a] \in Nat
         /\ PendingIn(s, sh, a) + s.distributed[a] = Due(TotalTokensReceived(s), sh[a])
<1> DEFINE n == TotalTokensReceived(s)
           c == sh[a]
           d == s.distributed[a]
<1>1. n \in Nat /\ c \in Nat /\ d \in Nat /\ d <= Due(n, c)
  BY DEF SharesFit, BooksFit, TotalTokensReceived
<1>2. PendingIn(s, sh, a) = IF c = 0 THEN 0 ELSE Due(n, c) - d
  BY DEF PendingIn
<1> HIDE DEF n, c, d
<1>3. Due(n, c) \in Nat
  <2>1. n <= n
    BY <1>1
  <2> QED BY <1>1, <2>1, DueGrows
<1>4. c = 0 => Due(n, c) = 0
  BY <1>1, NothingDue
<1>5. PendingIn(s, sh, a) \in Nat /\ PendingIn(s, sh, a) + d = Due(n, c)
  BY <1>1, <1>2, <1>3, <1>4
<1> QED BY <1>1, <1>5 DEF n, c, d

LEMMA PendingLooks ==
  /\ \A a \in Account : CalculatePendingLooks(a) = PendingIn(splitter, accountShares, a)
  /\ \A a \in Account : CalculatePendingLooks(a)' = PendingIn(splitter', accountShares', a)
BY DEF CalculatePendingLooks, PendingIn, PendingRewards, Due, TotalTokensReceived

\* All that the accounts are due and were not sent is in the contract.
LEMMA DueIsHeld ==
  ASSUME NEW sh, SharesFit(sh), NEW s, BooksFit(s, sh)
  PROVE  SumOver([a \in Account |-> PendingIn(s, sh, a)], Account) <= s.balance
<1> DEFINE n == TotalTokensReceived(s)
           q == [a \in Account |-> Due(n, sh[a])]
           c == [a \in Account |-> PendingIn(s, sh, a)]
           d == s.distributed
<1>1. /\ IsFiniteSet(Account)
      /\ TOTAL_SHARES \in Nat \ {0}
      /\ sh \in [Account -> Nat]
      /\ SumOver(sh, Account) <= TOTAL_SHARES
      /\ d \in [Account -> Nat]
      /\ s.total = SumOver(d, Account)
      /\ s.balance \in Nat
      /\ n \in Nat /\ n = s.balance + s.total
  BY SplitterAssumption, TotalShares DEF SharesFit, BooksFit, TotalTokensReceived
<1>2. q \in [Account -> Nat] /\ c \in [Account -> Nat]
  <2>1. \A a \in Account : Due(n, sh[a]) \in Nat
    <3> HIDE DEF n
    <3>1. n <= n
      BY <1>1
    <3> QED BY <1>1, <3>1, DueGrows
  <2>2. \A a \in Account : PendingIn(s, sh, a) \in Nat
    BY PendingNat
  <2> QED BY <2>1, <2>2
<1>3. \A a \in Account : q[a] = c[a] + d[a]
  BY PendingNat
<1> HIDE DEF n
<1>4. \A a \in Account : TOTAL_SHARES * q[a] <= n * sh[a]
  <2> TAKE a \in Account
  <2>1. n * sh[a] \in Nat
    BY <1>1, MulNat
  <2>2. TOTAL_SHARES * ((n * sh[a]) \div TOTAL_SHARES) <= n * sh[a]
    BY <1>1, <2>1, DivBounds
  <2> QED BY <2>2 DEF Due
<1> HIDE DEF q, c, d
<1>5. TOTAL_SHARES * SumOver(q, Account) <= n * SumOver(sh, Account)
  BY <1>1, <1>2, <1>4, SumBound
<1>6. SumOver(q, Account) \in Nat /\ SumOver(sh, Account) \in Nat
      /\ SumOver(c, Account) \in Nat /\ SumOver(d, Account) \in Nat
  BY <1>1, <1>2, UnitsFinite
<1>7. n * SumOver(sh, Account) <= n * TOTAL_SHARES
  BY <1>1, <1>6, MulMonotone
<1>8. SumOver(q, Account) <= n
  <2>1. TOTAL_SHARES * SumOver(q, Account) <= TOTAL_SHARES * n
    <3>1. n * TOTAL_SHARES = TOTAL_SHARES * n /\ n * TOTAL_SHARES \in Nat
          /\ n * SumOver(sh, Account) \in Nat
          /\ TOTAL_SHARES * SumOver(q, Account) \in Nat
      BY <1>1, <1>6
    <3> QED BY <1>5, <1>7, <3>1
  <2> QED BY <1>1, <1>6, <2>1, MulCancel
<1>9. SumOver(q, Account) = SumOver(c, Account) + SumOver(d, Account)
  BY <1>1, <1>2, <1>3, SumAdd
<1>10. SumOver(c, Account) <= s.balance
  BY <1>1, <1>6, <1>8, <1>9
<1> QED BY <1>10 DEF c

\* Of one account it follows that its release never lacks the tokens.
LEMMA OneIsHeld ==
  ASSUME NEW sh, SharesFit(sh), NEW s, BooksFit(s, sh), NEW a \in Account
  PROVE  PendingIn(s, sh, a) <= s.balance
<1> DEFINE c == [b \in Account |-> PendingIn(s, sh, b)]
<1>1. c \in [Account -> Nat] /\ c[a] = PendingIn(s, sh, a)
  BY PendingNat
<1>2. SumOver(c, Account) <= s.balance
  BY DueIsHeld
<1> HIDE DEF c
<1>3. SumOver(c, Account) = c[a] + SumOver(c, Account \ {a}) /\ SumOver(c, Account \ {a}) \in Nat
  BY <1>1, SplitterAssumption, SumSplit
<1>4. s.balance \in Nat /\ c[a] \in Nat
  BY <1>1 DEF BooksFit
<1> QED BY <1>1, <1>2, <1>3, <1>4
-----------------------------------------------------------------------------
(* The steps *)

LEMMA ReleaseKeeps ==
  ASSUME SharesFit(accountShares), NEW s, BooksFit(s, accountShares),
         NEW a \in Account, Releasable(s, a)
  PROVE  /\ BooksFit(Released(s, a), accountShares)
         /\ TotalTokensReceived(Released(s, a)) = TotalTokensReceived(s)
         /\ Released(s, a).distributed[a] = Due(TotalTokensReceived(s), accountShares[a])
         /\ \A b \in Account \ {a} : Released(s, a).distributed[b] = s.distributed[b]
<1> DEFINE p == PendingRewards(s, a)
           d == s.distributed
           e == [d EXCEPT ![a] = @ + p]
           n == TotalTokensReceived(s)
           r == Released(s, a)
<1>1. /\ IsFiniteSet(Account)
      /\ d \in [Account -> Nat]
      /\ s.balance \in Nat /\ s.total \in Nat
      /\ s.total = SumOver(d, Account)
      /\ n = s.balance + s.total /\ n \in Nat
      /\ accountShares \in [Account -> Nat]
  BY SplitterAssumption DEF BooksFit, SharesFit, TotalTokensReceived
<1>2. p \in 1..s.balance /\ p \in Nat
  BY <1>1 DEF Releasable
<1>3. r = [distributed |-> e, total |-> s.total + p, balance |-> s.balance - p]
  BY DEF Released
<1>4. p = Due(n, accountShares[a]) - d[a]
  BY DEF PendingRewards, Due
<1>5. \A b \in Account : d[b] <= Due(n, accountShares[b])
  BY DEF BooksFit
<1> HIDE DEF p, d, n, r
<1>6. e \in [Account -> Nat] /\ e[a] = d[a] + p /\ \A b \in Account \ {a} : e[b] = d[b]
  BY <1>1, <1>2
<1> HIDE DEF e
<1>7. Due(n, accountShares[a]) \in Nat
  <2>1. n <= n /\ accountShares[a] \in Nat
    BY <1>1
  <2> QED BY <1>1, <2>1, DueGrows
<1>8. e[a] = Due(n, accountShares[a])
  BY <1>1, <1>2, <1>4, <1>6, <1>7
<1>9. r.distributed = e /\ r.total = s.total + p /\ r.balance = s.balance - p
      /\ r \in [distributed : [Account -> Nat], total : Nat, balance : Nat]
  <2>1. s.balance - p \in Nat /\ s.total + p \in Nat
    BY <1>1, <1>2
  <2> QED BY <1>3, <1>6, <2>1
<1>10. TotalTokensReceived(r) = n
  BY <1>1, <1>2, <1>9 DEF TotalTokensReceived
<1>11. r.total = SumOver(e, Account)
  <2>1. SumOver(e, Account) = SumOver(d, Account) - d[a] + e[a]
    BY <1>1, <1>6, SumUpdate
  <2>2. SumOver(d, Account) \in Nat /\ d[a] \in Nat
    BY <1>1
  <2> QED BY <1>1, <1>2, <1>6, <1>9, <2>1, <2>2
<1>12. \A b \in Account : e[b] <= Due(n, accountShares[b])
  <2> TAKE b \in Account
  <2>1. CASE b = a
    BY <1>7, <1>8, <2>1
  <2>2. CASE b # a
    BY <1>5, <1>6, <2>2
  <2> QED BY <2>1, <2>2
<1>13. BooksFit(r, accountShares)
  BY <1>9, <1>10, <1>11, <1>12 DEF BooksFit
<1> QED BY <1>6, <1>8, <1>9, <1>10, <1>13 DEF r, n, d

\* One release of the controller, successful or not: nobody is sent less, and
\* the account has nothing left to release.
LEMMA TryKeeps ==
  ASSUME SharesFit(accountShares), NEW s, BooksFit(s, accountShares), NEW a \in Account
  PROVE  /\ BooksFit(TryRelease(s, a), accountShares)
         /\ TotalTokensReceived(TryRelease(s, a)) = TotalTokensReceived(s)
         /\ \A b \in Account : TryRelease(s, a).distributed[b] >= s.distributed[b]
         /\ PendingIn(TryRelease(s, a), accountShares, a) = 0
         /\ \A b \in Account :
              PendingIn(s, accountShares, b) = 0 =>
                PendingIn(TryRelease(s, a), accountShares, b) = 0
<1> DEFINE n == TotalTokensReceived(s)
           d == s.distributed
<1>1. \A b \in Account : d[b] \in Nat /\ d[b] <= Due(n, accountShares[b])
  BY DEF BooksFit
<1>2. CASE Releasable(s, a)
  <2> DEFINE r == Released(s, a)
  <2>1. TryRelease(s, a) = r
    BY <1>2 DEF TryRelease
  <2>2. /\ BooksFit(r, accountShares)
        /\ TotalTokensReceived(r) = n
        /\ r.distributed[a] = Due(n, accountShares[a])
        /\ \A b \in Account \ {a} : r.distributed[b] = d[b]
    BY <1>2, ReleaseKeeps
  <2> HIDE DEF r, n, d
  <2>3. Due(n, accountShares[a]) \in Nat
    BY <2>2 DEF BooksFit
  <2>4. PendingIn(r, accountShares, a) = 0
    BY <2>2, <2>3 DEF PendingIn
  <2>5. \A b \in Account \ {a} : PendingIn(r, accountShares, b) = PendingIn(s, accountShares, b)
    BY <2>2 DEF PendingIn, n, d
  <2>6. \A b \in Account : r.distributed[b] >= d[b]
    BY <1>1, <2>2
  <2> QED BY <2>1, <2>2, <2>4, <2>5, <2>6 DEF n, d
<1>3. CASE ~Releasable(s, a)
  <2>1. TryRelease(s, a) = s
    BY <1>3 DEF TryRelease
  <2>2. PendingIn(s, accountShares, a) = 0
    <3>1. CASE accountShares[a] = 0
      BY <3>1 DEF PendingIn
    <3>2. CASE accountShares[a] # 0
      <4>1. accountShares[a] > 0
        BY <3>2 DEF SharesFit
      <4>2. PendingIn(s, accountShares, a) = PendingRewards(s, a)
        BY <3>2 DEF PendingIn, PendingRewards, Due
      <4>3. PendingIn(s, accountShares, a) \in Nat /\ PendingIn(s, accountShares, a) <= s.balance
            /\ s.balance \in Nat
        BY PendingNat, OneIsHeld DEF BooksFit
      <4>4. PendingRewards(s, a) \notin 1..s.balance
        BY <1>3, <4>1 DEF Releasable
      <4> QED BY <4>2, <4>3, <4>4
    <3> QED BY <3>1, <3>2
  <2>3. \A b \in Account : d[b] >= d[b]
    BY <1>1
  <2> QED BY <2>1, <2>2, <2>3
<1> QED BY <1>2, <1>3

\* The controller's three releases, in their order.
LEMMA ReleaseAllKeeps ==
  ASSUME SplitterIInv
  PROVE  /\ BooksFit(ReleaseAll(splitter), accountShares)
         /\ TotalTokensReceived(ReleaseAll(splitter)) = TotalTokensReceived(splitter)
         /\ \A a \in Account :
              ReleaseAll(splitter).distributed[a] >= splitter.distributed[a]
         /\ \A a \in {teamVesting, treasuryVesting, tradingRewardsDistributor} :
              PendingIn(ReleaseAll(splitter), accountShares, a) = 0
<1> DEFINE r == TryRelease(splitter, teamVesting)
           s == TryRelease(r, treasuryVesting)
           t == TryRelease(s, tradingRewardsDistributor)
<1>1. teamVesting \in Account /\ treasuryVesting \in Account /\ tradingRewardsDistributor \in Account
  BY OperatorAssumption
<1>2. SharesFit(accountShares) /\ BooksFit(splitter, accountShares)
  BY DEF SplitterIInv
<1>3. ReleaseAll(splitter) = t
  BY DEF ReleaseAll
<1>4. /\ BooksFit(r, accountShares)
      /\ TotalTokensReceived(r) = TotalTokensReceived(splitter)
      /\ \A b \in Account : r.distributed[b] >= splitter.distributed[b]
      /\ PendingIn(r, accountShares, teamVesting) = 0
  BY <1>1, <1>2, TryKeeps
<1> HIDE DEF r
<1>5. /\ BooksFit(s, accountShares)
      /\ TotalTokensReceived(s) = TotalTokensReceived(r)
      /\ \A b \in Account : s.distributed[b] >= r.distributed[b]
      /\ PendingIn(s, accountShares, teamVesting) = 0
      /\ PendingIn(s, accountShares, treasuryVesting) = 0
  BY <1>1, <1>2, <1>4, TryKeeps
<1> HIDE DEF s
<1>6. /\ BooksFit(t, accountShares)
      /\ TotalTokensReceived(t) = TotalTokensReceived(s)
      /\ \A b \in Account : t.distributed[b] >= s.distributed[b]
      /\ PendingIn(t, accountShares, teamVesting) = 0
      /\ PendingIn(t, accountShares, treasuryVesting) = 0
      /\ PendingIn(t, accountShares, tradingRewardsDistributor) = 0
  BY <1>1, <1>2, <1>5, TryKeeps
<1> HIDE DEF t
<1>7. \A b \in Account : t.distributed[b] >= splitter.distributed[b]
  <2> TAKE b \in Account
  <2>1. splitter.distributed[b] \in Nat /\ r.distributed[b] \in Nat
        /\ s.distributed[b] \in Nat /\ t.distributed[b] \in Nat
    BY <1>2, <1>4, <1>5, <1>6 DEF BooksFit
  <2> QED BY <1>4, <1>5, <1>6, <2>1
<1> QED BY <1>3, <1>4, <1>5, <1>6, <1>7

LEMMA OwnerKeeps ==
  ASSUME SplitterIInv, NEW new \in Account, NEW current \in Account,
         UpdateSharesOwner(new, current)
  PROVE  /\ SplitterIInv'
         /\ new # current /\ accountShares[new] = 0
         /\ accountShares'[current] = 0 /\ accountShares'[new] = accountShares[current]
         /\ splitter'.distributed[new] = splitter.distributed[current]
         /\ splitter'.distributed[current] = 0
         /\ \A b \in Account \ {new, current} :
              /\ accountShares'[b] = accountShares[b]
              /\ splitter'.distributed[b] = splitter.distributed[b]
         /\ TotalTokensReceived(splitter') = TotalTokensReceived(splitter)
<1> DEFINE d == splitter.distributed
           e == [d EXCEPT ![new] = d[current], ![current] = 0]
           s == accountShares
           t == [s EXCEPT ![new] = s[current], ![current] = 0]
           n == TotalTokensReceived(splitter)
<1>1. /\ IsFiniteSet(Account)
      /\ d \in [Account -> Nat] /\ s \in [Account -> Nat]
      /\ splitter.balance \in Nat /\ splitter.total \in Nat /\ n \in Nat
      /\ splitter.total = SumOver(d, Account)
      /\ SumOver(s, Account) <= TOTAL_SHARES
      /\ \A b \in Account : d[b] <= Due(n, s[b])
  BY SplitterAssumption DEF SplitterIInv, SharesFit, BooksFit, TotalTokensReceived
<1>2. s[current] > 0 /\ s[new] = 0 /\ new # current /\ accountShares' = t
  <2>1. s[current] > 0 /\ s[new] = 0 /\ accountShares' = t
    BY DEF UpdateSharesOwner
  <2> QED BY <2>1
<1>3. splitter' = [splitter EXCEPT !.distributed = e]
  BY DEF UpdateSharesOwner, SplitterIInv, SharesFit, BooksFit
<1>4. splitter'.distributed = e /\ splitter'.total = splitter.total
      /\ splitter'.balance = splitter.balance
  BY <1>3 DEF SplitterIInv, SharesFit, BooksFit
<1>5. d[new] = 0
  <2>1. Due(n, s[new]) = 0
    BY <1>1, <1>2, NothingDue
  <2>2. d[new] \in Nat /\ d[new] <= 0
    BY <1>1, <2>1
  <2> QED BY <2>2
<1> HIDE DEF d, s, n
<1>6. /\ e \in [Account -> Nat] /\ t \in [Account -> Nat]
      /\ e[new] = d[current] /\ e[current] = 0 /\ t[new] = s[current] /\ t[current] = 0
      /\ \A b \in Account \ {new, current} : e[b] = d[b] /\ t[b] = s[b]
  BY <1>1, <1>2
<1> HIDE DEF e, t
<1>7. SumOver(e, Account) = SumOver(d, Account)
  BY <1>1, <1>2, <1>5, <1>6, SumMoved
<1>8. SumOver(t, Account) = SumOver(s, Account)
  BY <1>1, <1>2, <1>6, SumMoved
<1>9. accountShares' \in [Account -> Nat]
      /\ splitter' \in [distributed : [Account -> Nat], total : Nat, balance : Nat]
  BY <1>2, <1>3, <1>6 DEF SplitterIInv, SharesFit, BooksFit
<1>10. TotalTokensReceived(splitter') = n
  BY <1>4 DEF TotalTokensReceived, n
<1>11. \A b \in Account : e[b] <= Due(n, t[b])
  <2> TAKE b \in Account
  <2>1. CASE b = new
    BY <1>1, <1>6, <2>1
  <2>2. CASE b = current
    BY <1>1, <1>6, <2>2, NothingDue
  <2>3. CASE b \notin {new, current}
    BY <1>1, <1>6, <2>3
  <2> QED BY <2>1, <2>2, <2>3
<1>12. SplitterIInv'
  BY <1>1, <1>2, <1>4, <1>7, <1>8, <1>9, <1>10, <1>11 DEF SplitterIInv, SharesFit, BooksFit
<1> QED BY <1>2, <1>4, <1>6, <1>10, <1>12 DEF s, d, n

LEMMA ReceiveKeeps ==
  ASSUME SplitterIInv, NEW m \in Receipts, Receive(m)
  PROVE  /\ SplitterIInv'
         /\ accountShares' = accountShares /\ splitter'.distributed = splitter.distributed
         /\ \A a \in Account :
              Due(TotalTokensReceived(splitter), accountShares[a])
                <= Due(TotalTokensReceived(splitter'), accountShares[a])
<1> DEFINE n == TotalTokensReceived(splitter)
<1>1. m \in Nat /\ splitter.balance \in Nat /\ splitter.total \in Nat
      /\ n = splitter.balance + splitter.total
      /\ accountShares \in [Account -> Nat] /\ splitter.distributed \in [Account -> Nat]
  BY SplitterAssumption DEF SplitterIInv, SharesFit, BooksFit, TotalTokensReceived
<1>2. accountShares' = accountShares /\ splitter' = [splitter EXCEPT !.balance = @ + m]
  BY DEF Receive
<1>3. /\ splitter'.distributed = splitter.distributed
      /\ splitter'.total = splitter.total
      /\ splitter'.balance = splitter.balance + m
      /\ splitter' \in [distributed : [Account -> Nat], total : Nat, balance : Nat]
  BY <1>1, <1>2 DEF SplitterIInv, SharesFit, BooksFit
<1>4. TotalTokensReceived(splitter') = n + m /\ n \in Nat
  BY <1>1, <1>3 DEF TotalTokensReceived
<1> HIDE DEF n
<1>5. \A a \in Account : Due(n, accountShares[a]) \in Nat
        /\ Due(n + m, accountShares[a]) \in Nat
        /\ Due(n, accountShares[a]) <= Due(n + m, accountShares[a])
  <2> TAKE a \in Account
  <2>1. n + m \in Nat /\ n <= n + m /\ n + m <= n + m /\ accountShares[a] \in Nat
    BY <1>1, <1>4
  <2> QED BY <1>4, <2>1, DueGrows
<1>6. \A a \in Account : splitter.distributed[a] \in Nat
        /\ splitter.distributed[a] <= Due(n, accountShares[a])
  BY <1>1 DEF SplitterIInv, BooksFit, n
<1>7. \A a \in Account : splitter.distributed[a] <= Due(n + m, accountShares[a])
  BY <1>5, <1>6
<1>8. SplitterIInv'
  BY <1>2, <1>3, <1>4, <1>7 DEF SplitterIInv, SharesFit, BooksFit
<1> QED BY <1>2, <1>3, <1>4, <1>5, <1>8 DEF n
-----------------------------------------------------------------------------
\* The steps that send tokens to accounts which keep their shares.
Sends ==
  /\ accountShares' = accountShares
  /\ \/ \E a \in Account : Releasable(splitter, a) /\ splitter' = TryRelease(splitter, a)
     \/ splitter' = ReleaseAll(splitter)

LEMMA SendsKeeps ==
  ASSUME SplitterIInv, Sends
  PROVE  /\ SplitterIInv'
         /\ TotalTokensReceived(splitter') = TotalTokensReceived(splitter)
         /\ \A a \in Account : splitter'.distributed[a] >= splitter.distributed[a]
<1>1. SharesFit(accountShares) /\ BooksFit(splitter, accountShares) /\ accountShares' = accountShares
  BY DEF SplitterIInv, Sends
<1>2. /\ BooksFit(splitter', accountShares)
      /\ TotalTokensReceived(splitter') = TotalTokensReceived(splitter)
      /\ \A a \in Account : splitter'.distributed[a] >= splitter.distributed[a]
  BY <1>1, TryKeeps, ReleaseAllKeeps DEF Sends
<1> QED BY <1>1, <1>2 DEF SplitterIInv

\* What a step of the controller's system is to the splitter.
LEMMA OperatorSteps ==
  ASSUME OperatorNext
  PROVE  \/ Sends
         \/ \E new, current \in Account : UpdateSharesOwner(new, current)
         \/ \E m \in Receipts : Receive(m)
         \/ UNCHANGED splitterVars
<1>1. CASE ReleaseTokensAndUpdateRewards
  BY <1>1 DEF ReleaseTokensAndUpdateRewards, Sends
<1>2. CASE OthersNext /\ UNCHANGED splitterVars
  BY <1>2
<1>3. CASE SplitterNext
  BY <1>3 DEF SplitterNext, ReleaseTokens, TryRelease, Sends
<1> QED BY <1>1, <1>2, <1>3 DEF OperatorNext

LEMMA SplitterStarts == OperatorInit => SplitterIInv
<1>1. SUFFICES ASSUME SplitterInit PROVE SplitterIInv
  BY DEF OperatorInit
<1> DEFINE z == [a \in Account |-> 0]
<1>2. SharesFit(accountShares)
  BY <1>1, ConstructedShares
<1>3. splitter = [distributed |-> z, total |-> 0, balance |-> 0]
  BY <1>1 DEF SplitterInit
<1>4. z \in [Account -> Nat] /\ \A a \in Account : z[a] = 0
  OBVIOUS
<1> HIDE DEF z
<1>5. SumOver(z, Account) = 0
  BY <1>4, SumZero
<1>6. TotalTokensReceived(splitter) = 0
  BY <1>3 DEF TotalTokensReceived
<1>7. \A a \in Account : Due(0, accountShares[a]) \in Nat
  BY <1>2, DueGrows DEF SharesFit
<1>8. \A a \in Account : z[a] <= Due(0, accountShares[a])
  BY <1>4, <1>7
<1> QED BY <1>2, <1>3, <1>4, <1>5, <1>6, <1>8 DEF SplitterIInv, BooksFit

LEMMA SplitterInductive == SplitterIInv /\ [OperatorNext]_operatorVars => SplitterIInv'
<1>1. SUFFICES ASSUME SplitterIInv, [OperatorNext]_operatorVars PROVE SplitterIInv'
  OBVIOUS
<1>2. CASE UNCHANGED splitterVars
  BY <1>1, <1>2 DEF splitterVars, SplitterIInv
<1>3. CASE Sends
  BY <1>1, <1>3, SendsKeeps
<1>4. ASSUME NEW new \in Account, NEW current \in Account, UpdateSharesOwner(new, current)
      PROVE  SplitterIInv'
  BY <1>1, <1>4, OwnerKeeps
<1>5. ASSUME NEW m \in Receipts, Receive(m) PROVE SplitterIInv'
  BY <1>1, <1>5, ReceiveKeeps
<1>6. CASE UNCHANGED operatorVars
  BY <1>2, <1>6 DEF operatorVars
<1> QED BY <1>1, <1>2, <1>3, <1>4, <1>5, <1>6, OperatorSteps

\* Whatever arrived, was released by whom in whatever order, and whoever took
\* over whose shares: the splitter holds all that its accounts may release.
THEOREM SplitterCovered == OperatorSpec => []ReleasesCovered
<1>1. OperatorInit => SplitterIInv
  BY SplitterStarts
<1>2. SplitterIInv /\ [OperatorNext]_operatorVars => SplitterIInv'
  BY SplitterInductive
<1>3. SplitterIInv => ReleasesCovered
  <2>1. SUFFICES ASSUME SplitterIInv PROVE ReleasesCovered
    OBVIOUS
  <2>2. [a \in Account |-> CalculatePendingLooks(a)]
          = [a \in Account |-> PendingIn(splitter, accountShares, a)]
    BY PendingLooks
  <2>3. SumOver([a \in Account |-> PendingIn(splitter, accountShares, a)], Account)
          <= splitter.balance
    BY <2>1, DueIsHeld DEF SplitterIInv
  <2> QED BY <2>2, <2>3 DEF ReleasesCovered
<1> QED BY <1>1, <1>2, <1>3, PTL DEF OperatorSpec

\* No step of anyone lowers what an account may release but its own release,
\* or its handover, which gives the new owner exactly as much.
THEOREM SplitterFair == OperatorSpec => DueKept
<1> DEFINE Kept(a) ==
      \/ CalculatePendingLooks(a)' >= CalculatePendingLooks(a)
      \/ accountShares'[a] > 0 /\ splitter'.distributed[a] > splitter.distributed[a]
      \/ /\ accountShares'[a] = 0
         /\ \E new \in Account \ {a} :
              /\ accountShares[new] = 0
              /\ accountShares'[new] = accountShares[a]
              /\ CalculatePendingLooks(new)' = CalculatePendingLooks(a)
<1>1. SplitterIInv /\ SplitterIInv' /\ [OperatorNext]_operatorVars
        => [\A a \in Account : Kept(a)]_splitterVars
  <2>1. SUFFICES ASSUME SplitterIInv, SplitterIInv', OperatorNext,
                        ~UNCHANGED splitterVars, NEW a \in Account
                 PROVE  Kept(a)
    BY DEF operatorVars
  <2>2. \A b \in Account :
          /\ CalculatePendingLooks(b) \in Nat /\ splitter.distributed[b] \in Nat
          /\ CalculatePendingLooks(b) + splitter.distributed[b]
               = Due(TotalTokensReceived(splitter), accountShares[b])
    BY <2>1, PendingNat, PendingLooks DEF SplitterIInv
  <2>3. \A b \in Account :
          /\ CalculatePendingLooks(b)' \in Nat /\ splitter'.distributed[b] \in Nat
          /\ CalculatePendingLooks(b)' + splitter'.distributed[b]
               = Due(TotalTokensReceived(splitter'), accountShares'[b])
    <3>1. SharesFit(accountShares') /\ BooksFit(splitter', accountShares')
      BY <2>1 DEF SplitterIInv
    <3>2. \A b \in Account :
            /\ PendingIn(splitter', accountShares', b) \in Nat /\ splitter'.distributed[b] \in Nat
            /\ PendingIn(splitter', accountShares', b) + splitter'.distributed[b]
                 = Due(TotalTokensReceived(splitter'), accountShares'[b])
      BY <3>1, PendingNat
    <3> QED BY <3>2, PendingLooks
  <2>4. CASE Sends
    <3>1. /\ accountShares' = accountShares
          /\ TotalTokensReceived(splitter') = TotalTokensReceived(splitter)
          /\ splitter'.distributed[a] >= splitter.distributed[a]
      BY <2>1, <2>4, SendsKeeps DEF Sends
    <3>2. CASE splitter'.distributed[a] = splitter.distributed[a]
      <4>1. CalculatePendingLooks(a)' + splitter.distributed[a]
              = CalculatePendingLooks(a) + splitter.distributed[a]
        BY <2>2, <2>3, <3>1, <3>2
      <4> QED BY <2>2, <2>3, <4>1
    <3>3. CASE splitter'.distributed[a] > splitter.distributed[a]
      <4>1. accountShares[a] \in Nat /\ TotalTokensReceived(splitter) \in Nat
        BY <2>1 DEF SplitterIInv, SharesFit, BooksFit, TotalTokensReceived
      <4>2. accountShares[a] # 0
        <5>1. SUFFICES ASSUME accountShares[a] = 0 PROVE FALSE
          OBVIOUS
        <5>2. Due(TotalTokensReceived(splitter), accountShares[a]) = 0
          BY <4>1, <5>1, NothingDue
        <5>3. CalculatePendingLooks(a)' + splitter'.distributed[a] = 0
          BY <2>3, <3>1, <5>2
        <5> QED BY <2>2, <2>3, <3>3, <5>3
      <4> QED BY <3>1, <3>3, <4>1, <4>2
    <3> QED BY <2>2, <2>3, <3>1, <3>2, <3>3
  <2>5. ASSUME NEW new \in Account, NEW current \in Account, UpdateSharesOwner(new, current)
        PROVE  Kept(a)
    <3>1. /\ new # current /\ accountShares[new] = 0
          /\ accountShares'[current] = 0 /\ accountShares'[new] = accountShares[current]
          /\ splitter'.distributed[new] = splitter.distributed[current]
          /\ TotalTokensReceived(splitter') = TotalTokensReceived(splitter)
          /\ \A b \in Account \ {new, current} :
               /\ accountShares'[b] = accountShares[b]
               /\ splitter'.distributed[b] = splitter.distributed[b]
      BY <2>1, <2>5, OwnerKeeps
    <3>2. CASE a = current
      <4>1. CalculatePendingLooks(new)' + splitter.distributed[a]
              = CalculatePendingLooks(a) + splitter.distributed[a]
        BY <2>2, <2>3, <3>1, <3>2
      <4>2. CalculatePendingLooks(new)' = CalculatePendingLooks(a)
        BY <2>2, <2>3, <4>1
      <4> QED BY <3>1, <3>2, <4>2
    <3>3. CASE a = new
      <4>1. CalculatePendingLooks(a) = 0
        BY <3>1, <3>3 DEF CalculatePendingLooks
      <4> QED BY <2>3, <4>1
    <3>4. CASE a \notin {new, current}
      <4>1. CalculatePendingLooks(a)' + splitter.distributed[a]
              = CalculatePendingLooks(a) + splitter.distributed[a]
        BY <2>2, <2>3, <3>1, <3>4
      <4> QED BY <2>2, <2>3, <4>1
    <3> QED BY <3>2, <3>3, <3>4
  <2>6. ASSUME NEW m \in Receipts, Receive(m) PROVE Kept(a)
    <3>1. /\ accountShares' = accountShares /\ splitter'.distributed = splitter.distributed
          /\ Due(TotalTokensReceived(splitter), accountShares[a])
               <= Due(TotalTokensReceived(splitter'), accountShares[a])
      BY <2>1, <2>6, ReceiveKeeps
    <3>2. CalculatePendingLooks(a) + splitter.distributed[a]
            <= CalculatePendingLooks(a)' + splitter.distributed[a]
      BY <2>2, <2>3, <3>1
    <3> QED BY <2>2, <2>3, <3>2
  <2> QED BY <2>1, <2>4, <2>5, <2>6, OperatorSteps
<1>2. OperatorInit => SplitterIInv
  BY SplitterStarts
<1>3. SplitterIInv /\ [OperatorNext]_operatorVars => SplitterIInv'
  BY SplitterInductive
<1>4. [][\A a \in Account : Kept(a)]_splitterVars => DueKept
  BY PTL DEF DueKept
<1> QED BY <1>1, <1>2, <1>3, <1>4, PTL DEF OperatorSpec

\* After the controller's transaction none of its three accounts has anything
\* to release: a release that reverted did so because nothing was due, never
\* because another account had been sent too much.
THEOREM EveryRelease == OperatorSpec => AllReleased
<1> DEFINE Emptied ==
      ReleaseTokensAndUpdateRewards =>
        \A a \in {teamVesting, treasuryVesting, tradingRewardsDistributor} :
          CalculatePendingLooks(a)' = 0
<1>1. SplitterIInv /\ [OperatorNext]_operatorVars => [Emptied]_operatorVars
  <2>1. SUFFICES ASSUME SplitterIInv, ReleaseTokensAndUpdateRewards,
                        NEW a \in {teamVesting, treasuryVesting, tradingRewardsDistributor}
                 PROVE  CalculatePendingLooks(a)' = 0
    OBVIOUS
  <2>2. splitter' = ReleaseAll(splitter) /\ accountShares' = accountShares
    BY <2>1 DEF ReleaseTokensAndUpdateRewards
  <2>3. PendingIn(splitter', accountShares', a) = 0
    BY <2>1, <2>2, ReleaseAllKeeps
  <2> QED BY <2>3, PendingLooks, OperatorAssumption
<1>2. OperatorInit => SplitterIInv
  BY SplitterStarts
<1>3. SplitterIInv /\ [OperatorNext]_operatorVars => SplitterIInv'
  BY SplitterInductive
<1>4. [][Emptied]_operatorVars => AllReleased
  BY PTL DEF AllReleased
<1> QED BY <1>1, <1>2, <1>3, <1>4, PTL DEF OperatorSpec
-----------------------------------------------------------------------------
(* The setter and the system it owns *)

\* The fee-only addresses are sent parts of the reward that add up to at most
\* the reward: what is left for the system is never negative.
LEMMA AdjustedNat ==
  ASSUME TypeOK, feeStakingAddresses \subseteq User, NEW reward \in Nat
  PROVE  AdjustedReward(reward) \in 0..reward
<1> DEFINE A == feeStakingAddresses
           W == SumOver(wallet, A)
           f == [a \in User |-> FeeOnlyPart(a, reward)]
<1>1. /\ staked \in Nat /\ wallet \in [User -> Nat] /\ IsFiniteSet(User) /\ IsFiniteSet(A)
  BY FeeSharingAssumption, FS_Subset DEF TypeOK
<1>2. W \in Nat /\ FeeStaked = staked + W
  <2> DEFINE w == [a \in A |-> wallet[a]]
  <2>1. w \in [A -> Nat]
    BY <1>1
  <2>2. SumOver(w, A) = SumOver(wallet, A)
    BY DEF SumOver, Units
  <2> HIDE DEF w
  <2>3. SumOver(w, A) \in Nat
    BY <1>1, <2>1, UnitsFinite
  <2> QED BY <2>2, <2>3 DEF FeeStaked
<1>3. CASE FeeStaked = 0
  <2> DEFINE z == [a \in A |-> 0]
  <2>1. f = [a \in User |-> 0]
    BY <1>3 DEF FeeOnlyPart
  <2>2. SumOver(f, A) = SumOver(z, A)
    BY <2>1 DEF SumOver, Units
  <2>3. z \in [A -> Nat] /\ \A a \in A : z[a] = 0
    OBVIOUS
  <2> HIDE DEF z, f
  <2>4. SumOver(f, A) = 0
    BY <2>2, <2>3, SumZero
  <2>5. AdjustedReward(reward) = reward - SumOver(f, A)
    BY DEF AdjustedReward, f
  <2> QED BY <2>4, <2>5
<1>4. CASE FeeStaked # 0
  <2> DEFINE D == FeeStaked
             g == [a \in A |-> f[a]]
             w == [a \in A |-> wallet[a]]
  <2>1. D \in Nat \ {0} /\ W <= D
    BY <1>1, <1>2, <1>4
  <2>2. ASSUME NEW a \in A PROVE g[a] \in Nat /\ w[a] \in Nat /\ D * g[a] <= reward * w[a]
    <3>1. a \in User /\ wallet[a] \in Nat
      BY <1>1
    <3>2. g[a] = (wallet[a] * reward) \div D
      BY <2>1, <3>1 DEF FeeOnlyPart
    <3>3. wallet[a] * reward \in Nat /\ wallet[a] * reward = reward * wallet[a]
      BY <3>1
    <3> DEFINE n == wallet[a] * reward
    <3> HIDE DEF D, g, n
    <3>4. n \div D \in Nat /\ D * (n \div D) <= n
      BY <2>1, <3>3, DivNat, DivBounds DEF n
    <3>5. g[a] = n \div D /\ n = reward * w[a] /\ w[a] = wallet[a]
      BY <3>2, <3>3 DEF n
    <3> QED BY <3>1, <3>4, <3>5
  <2>3. g \in [A -> Nat] /\ w \in [A -> Nat]
    BY <2>2
  <2>4. SumOver(g, A) = SumOver(f, A) /\ SumOver(w, A) = W
    BY DEF SumOver, Units
  <2>5. AdjustedReward(reward) = reward - SumOver(g, A)
    BY <2>4 DEF AdjustedReward
  <2> HIDE DEF D, f, g, w, W
  <2>6. D * SumOver(g, A) <= reward * SumOver(w, A) /\ SumOver(g, A) \in Nat
    <3>1. \A a \in A : D * g[a] <= reward * w[a]
      BY <2>2
    <3>2. D \in Nat
      BY <2>1
    <3> QED BY <1>1, <2>3, <3>1, <3>2, SumBound, UnitsFinite
  <2>7. reward * W <= reward * D /\ reward * D = D * reward
    BY <1>2, <2>1, MulMonotone
  <2> DEFINE G == SumOver(g, A)
  <2> HIDE DEF G
  <2>8. D * G <= D * reward
    <3>1. G \in Nat /\ D * G <= reward * W
      BY <2>4, <2>6, Zenon DEF G
    <3>2. D * G \in Nat /\ reward * W \in Nat /\ D * reward \in Nat
      BY <1>2, <2>1, <3>1, MulNat
    <3> QED BY <2>7, <3>1, <3>2
  <2>9. G <= reward
    BY <2>1, <2>6, <2>8, MulCancel DEF G
  <2> QED BY <2>5, <2>6, <2>9 DEF G
<1>5. FeeStaked = 0 \/ FeeStaked # 0
  OBVIOUS
<1> QED BY <1>3, <1>4, <1>5

\* The transactions that leave the system alone.
SetterAlone ==
  /\ UNCHANGED <<systemVars, owner, lastRewardDistributionBlock, rewardDurationInBlocks>>
  /\ SetterTypeOK'

LEMMA AloneSteps ==
  ASSUME SetterTypeOK, OthersNext
  PROVE  ((NextBlock \/ UserNext) /\ UNCHANGED setterVars) \/ SetterAlone
<1> USE DEF setterVars, durations, fees
<1>0. Fees \subseteq Nat
  BY SetterAssumption
<1>1. ASSUME NEW n \in Fees, FeesArrive(n) \/ ConvertCurrencyToRewardToken(n)
      PROVE  SetterAlone
  <2>1. /\ UNCHANGED <<systemVars, owner, lastRewardDistributionBlock, durations,
                       feeStakingAddresses, rewardConvertor>>
        /\ pendingFees' \in {pendingFees, pendingFees + n}
    BY <1>1 DEF FeesArrive, ConvertCurrencyToRewardToken
  <2>2. pendingFees' \in Nat
    BY <1>0, <2>1 DEF SetterTypeOK
  <2>3. otherFees' \in BOOLEAN
    <3>1. otherFees' = otherFees \/ otherFees' = TRUE \/ otherFees' = FALSE
      BY <1>1, Zenon DEF FeesArrive, ConvertCurrencyToRewardToken
    <3>2. otherFees \in BOOLEAN
      BY DEF SetterTypeOK
    <3> QED BY <3>1, <3>2, Zenon
  <2> QED BY <2>1, <2>2, <2>3 DEF SetterAlone, SetterTypeOK, TypeOK, systemVars, period, accounts
<1>2. ASSUME NEW B \in SUBSET User, AddFeeStakingAddresses(B) \/ RemoveFeeStakingAddresses(B)
      PROVE  SetterAlone
  <2>1. /\ UNCHANGED <<systemVars, owner, lastRewardDistributionBlock, durations, fees,
                       rewardConvertor>>
        /\ feeStakingAddresses' \subseteq User
    BY <1>2 DEF AddFeeStakingAddresses, RemoveFeeStakingAddresses, SetterTypeOK
  <2> QED BY <2>1 DEF SetterAlone, SetterTypeOK, TypeOK, systemVars, period, accounts
<1>3. ASSUME NEW n, SetNewRewardDurationInBlocks(n)
      PROVE  SetterAlone
  BY <1>3 DEF SetNewRewardDurationInBlocks, SetterAlone, SetterTypeOK, TypeOK, systemVars,
              period, accounts
<1>4. ASSUME NEW set \in BOOLEAN, SetRewardConvertor(set)
      PROVE  SetterAlone
  BY <1>4 DEF SetRewardConvertor, SetterAlone, SetterTypeOK, TypeOK, systemVars, period, accounts
<1> QED BY <1>1, <1>2, <1>3, <1>4 DEF OthersNext

\* The two clocks need nothing but themselves; the claims need the shares, the
\* checkpoints and the reward before it is divided.
SetterInv == SetterTypeOK /\ ClocksAgree /\ FundedInv

\* The renewal by the setter is one of the system that comes with its reward.
LEMMA RenewKeeps ==
  ASSUME SetterInv, SetterUpdateRewards
  PROVE  SetterInv'
<1>1. SetterTypeOK /\ TypeOK /\ FundedInv
  BY DEF SetterInv, SetterTypeOK
<1> DEFINE n == AdjustedReward(pendingFees)
<1>2. /\ rewardDurationInBlocks' = nextRewardDurationInBlocks
      /\ lastRewardDistributionBlock' = block
      /\ UpdateRewards(n, rewardDurationInBlocks')
      /\ weth' = weth + n
      /\ pendingFees' = 0
      /\ UNCHANGED <<owner, nextRewardDurationInBlocks, feeStakingAddresses, otherFees,
                     rewardConvertor>>
  BY DEF SetterUpdateRewards, Renew
<1>3. n \in Nat
  <2>1. pendingFees \in Nat /\ feeStakingAddresses \subseteq User
    BY <1>1 DEF SetterTypeOK
  <2>2. n \in 0..pendingFees
    BY <1>1, <2>1, AdjustedNat
  <2> QED BY <2>1, <2>2
<1> HIDE DEF n
<1>4. rewardDurationInBlocks' \in Nat
      /\ rewardDurationInBlocks'
           \in MIN_REWARD_DURATION_IN_BLOCKS..MAX_REWARD_DURATION_IN_BLOCKS
  BY <1>1, <1>2, SetterAssumption DEF SetterTypeOK
<1> DEFINE d == rewardDurationInBlocks'
<1>5. FundedInv'
  <2>1. d \in Nat /\ UpdateRewards(n, d)
    BY <1>2, <1>4
  <2> HIDE DEF d
  <2> QED BY <1>1, <1>2, <1>3, <2>1, RenewalKeepsFunded
<1>6. SetterTypeOK'
  <2>1. TypeOK'
    BY <1>5 DEF FundedInv, SharesInv
  <2>2. block \in Nat
    BY <1>1 DEF TypeOK
  <2> QED BY <1>1, <1>2, <1>4, <2>1, <2>2 DEF SetterTypeOK
<1>7. ClocksAgree'
  BY <1>2 DEF ClocksAgree, UpdateRewards
<1> QED BY <1>5, <1>6, <1>7 DEF SetterInv

\* Transactions of others move neither clock.
LEMMA OtherStepsKeep ==
  ASSUME SetterInv, OthersNext
  PROVE  SetterInv'
<1>1. SetterTypeOK /\ TypeOK /\ FundedInv /\ ClocksAgree
  BY DEF SetterInv, SetterTypeOK
<1>2. ASSUME NextBlock \/ UserNext, UNCHANGED setterVars PROVE SetterInv'
  <2>1. FundedInv'
    BY <1>1, <1>2, UsersFunded, WaitingFunded
  <2>2. SetterTypeOK'
    BY <1>1, <1>2, <2>1 DEF SetterTypeOK, FundedInv, SharesInv, setterVars, durations, fees
  <2>3. UNCHANGED period
    <3>1. CASE NextBlock
      BY <3>1 DEF NextBlock
    <3>2. ASSUME NEW u \in User, UserStep(u) PROVE UNCHANGED period
      BY <1>1, <3>2, UserCheckpoints
    <3> QED BY <1>2, <3>1, <3>2 DEF UserNext
  <2>4. ClocksAgree'
    BY <1>1, <1>2, <2>3 DEF ClocksAgree, setterVars, durations, period
  <2> QED BY <2>1, <2>2, <2>4 DEF SetterInv
<1>3. ASSUME SetterAlone PROVE SetterInv'
  <2>1. FundedInv'
    BY <1>1, <1>3, WaitingFunded DEF SetterAlone
  <2>2. ClocksAgree'
    BY <1>1, <1>3 DEF SetterAlone, ClocksAgree, systemVars, period
  <2> QED BY <1>3, <2>1, <2>2 DEF SetterAlone, SetterInv
<1> QED BY <1>1, <1>2, <1>3, AloneSteps

LEMMA SetterInductive ==
  ASSUME SetterInv, [SetterNext]_<<systemVars, setterVars>>
  PROVE  SetterInv'
<1>1. SetterTypeOK /\ TypeOK /\ FundedInv /\ ClocksAgree
  BY DEF SetterInv, SetterTypeOK
<1>2. CASE TransferOwnershipOfFeeSharingSystem
  <2>1. FundedInv'
    BY <1>1, <1>2, WaitingFunded DEF TransferOwnershipOfFeeSharingSystem
  <2>2. SetterTypeOK' /\ ClocksAgree'
    BY <1>1, <1>2, <2>1 DEF TransferOwnershipOfFeeSharingSystem, SetterTypeOK, ClocksAgree,
                            FundedInv, SharesInv, durations, fees
  <2> QED BY <2>1, <2>2 DEF SetterInv
<1>3. ASSUME NEW reward \in OwnerRewards, NEW n \in OwnerDurations,
             SuccessorUpdateRewards(reward, n)
      PROVE  SetterInv'
  <2>1. /\ owner = "successor" /\ UNCHANGED setterVars
        /\ UpdateRewards(reward, n) /\ weth' = weth + reward /\ reward \in Nat /\ n \in Nat
    BY <1>3, FeeSharingAssumption DEF SuccessorUpdateRewards, FundedUpdateRewards
  <2>2. FundedInv'
    BY <1>1, <2>1, RenewalKeepsFunded
  <2>3. SetterTypeOK' /\ ClocksAgree'
    BY <1>1, <2>1, <2>2 DEF SetterTypeOK, ClocksAgree, FundedInv, SharesInv, setterVars,
                            durations, fees
  <2> QED BY <2>2, <2>3 DEF SetterInv
<1>4. CASE UNCHANGED <<systemVars, setterVars>>
  <2>1. FundedInv'
    BY <1>1, <1>4, WaitingFunded
  <2>2. SetterTypeOK' /\ ClocksAgree'
    BY <1>1, <1>4, <2>1 DEF SetterTypeOK, ClocksAgree, FundedInv, SharesInv, systemVars, period,
                            setterVars, durations, fees
  <2> QED BY <2>1, <2>2 DEF SetterInv
<1> QED BY <1>2, <1>3, <1>4, RenewKeeps, OtherStepsKeep DEF SetterNext

LEMMA SetterStarts == SetterInit => SetterInv
<1> SUFFICES ASSUME SetterInit PROVE SetterInv
  OBVIOUS
<1>1. FundedInv
  BY FundedAtFirst DEF SetterInit
<1>2. SetterTypeOK
  BY <1>1, SetterAssumption DEF SetterInit, SetterTypeOK, FundedInv, SharesInv
<1>3. ClocksAgree
  BY DEF SetterInit, ClocksAgree
<1> QED BY <1>1, <1>2, <1>3 DEF SetterInv

\* For any fees, durations and changes of the duration: the setter's clock and
\* the system's never drift apart, so that the setter renews exactly when the
\* period of the system is over.
THEOREM ClocksTogether == SetterSpec => [](SetterTypeOK /\ ClocksAgree)
<1>1. SetterInit => SetterInv
  BY SetterStarts
<1>2. SetterInv /\ [SetterNext]_<<systemVars, setterVars>> => SetterInv'
  BY SetterInductive
<1>3. SetterInv => SetterTypeOK /\ ClocksAgree
  BY DEF SetterInv
<1> QED BY <1>1, <1>2, <1>3, PTL DEF SetterSpec

\* For any fees and any set of fee-only addresses, each of which is sent a
\* rounded part of them: what the setter announces is what it sends, and the
\* system holds the WETH for all claims and for the rest of the period.
THEOREM ClaimsFundedBySetter == SetterSpec => []ClaimsFunded
<1>1. SetterInit => SetterInv
  BY SetterStarts
<1>2. SetterInv /\ [SetterNext]_<<systemVars, setterVars>> => SetterInv'
  BY SetterInductive
<1>3. SetterInv => ClaimsFunded
  BY FundedToday DEF SetterInv
<1> QED BY <1>1, <1>2, <1>3, PTL DEF SetterSpec
-----------------------------------------------------------------------------
(* What users accrued, under the controller *)

\* The change of one step, named so that the cases below can state it.
Accrued ==
  \A u \in User :
    \/ CalculatePendingRewards(u)' >= CalculatePendingRewards(u)
    \/ rewards'[u] = 0 /\ weth' = weth - CalculatePendingRewards(u)

\* A higher accumulator is no less to claim.
LEMMA ClaimGrows ==
  ASSUME NEW s \in Nat, NEW paid \in Nat, NEW x \in Nat, NEW y \in Nat, NEW r \in Nat,
         paid <= x, x <= y
  PROVE  (s * (x - paid)) \div PRECISION_FACTOR + r <= (s * (y - paid)) \div PRECISION_FACTOR + r
<1>1. x - paid \in Nat /\ y - paid \in Nat /\ x - paid <= y - paid /\ PRECISION_FACTOR \in Nat \ {0}
  BY FeeSharingAssumption
<1> DEFINE a == s * (x - paid)
           b == s * (y - paid)
<1>2. a \in Nat /\ b \in Nat /\ a <= b
  BY <1>1, MulNat, MulMonotone
<1> HIDE DEF a, b
<1>3. a \div PRECISION_FACTOR <= b \div PRECISION_FACTOR
  BY <1>1, <1>2, DivMonotone
<1>4. a \div PRECISION_FACTOR \in Nat /\ b \div PRECISION_FACTOR \in Nat
  BY <1>1, <1>2, DivNat
<1>5. a \div PRECISION_FACTOR + r <= b \div PRECISION_FACTOR + r
  BY <1>3, <1>4
<1> QED BY <1>5 DEF a, b

\* Nothing is lost while the accounts stay and the accumulator does not fall.
LEMMA AccruedIfHigher ==
  ASSUME TypeOK, NoCheckpointReverts, UNCHANGED accounts,
         RewardPerToken' \in Nat, RewardPerToken <= RewardPerToken'
  PROVE  Accrued
<1>1. SUFFICES ASSUME NEW u \in User
               PROVE  CalculatePendingRewards(u) <= CalculatePendingRewards(u)'
                      /\ CalculatePendingRewards(u) \in Int
                      /\ CalculatePendingRewards(u)' \in Int
  BY DEF Accrued
<1> DEFINE s == shares[u]
           p == userRewardPerTokenPaid[u]
           r == rewards[u]
           x == RewardPerToken
           y == RewardPerToken'
<1>2. /\ s \in Nat /\ p \in Nat /\ r \in Nat /\ x \in Nat /\ y \in Nat /\ p <= x /\ x <= y
  <2>1. x \in Nat /\ x - rewardPerTokenStored \in Nat
    BY ClockTypes
  <2> QED BY <2>1 DEF TypeOK, NoCheckpointReverts
<1>3. CalculatePendingRewards(u) = (s * (x - p)) \div PRECISION_FACTOR + r
  BY DEF CalculatePendingRewards
<1>4. CalculatePendingRewards(u)' = (s * (y - p)) \div PRECISION_FACTOR + r
  BY DEF CalculatePendingRewards, accounts
<1> HIDE DEF s, p, r, x, y
<1>5. (s * (x - p)) \div PRECISION_FACTOR + r <= (s * (y - p)) \div PRECISION_FACTOR + r
  BY <1>2, ClaimGrows
<1>6. /\ (s * (x - p)) \div PRECISION_FACTOR + r \in Int
      /\ (s * (y - p)) \div PRECISION_FACTOR + r \in Int
  <2>1. s * (x - p) \in Nat /\ s * (y - p) \in Nat
    <3>1. x - p \in Nat /\ y - p \in Nat
      BY <1>2
    <3> QED BY <1>2, <3>1, MulNat
  <2>2. (s * (x - p)) \div PRECISION_FACTOR \in Nat /\ (s * (y - p)) \div PRECISION_FACTOR \in Nat
    BY <2>1, DivNat, FeeSharingAssumption
  <2> QED BY <1>2, <2>2
<1> QED BY <1>3, <1>4, <1>5, <1>6

\* After a checkpoint nothing is lost: the claims of the others stay and that
\* of u is kept or paid.
LEMMA AccruedIfMarked ==
  ASSUME TypeOK, NoCheckpointReverts, TypeOK', NEW u \in User,
         NEW claimRewardToken \in BOOLEAN,
         UpdateReward(u), Claim(u, claimRewardToken), UNCHANGED <<block, period>>,
         \A v \in User \ {u} : shares'[v] = shares[v]
  PROVE  Accrued
<1>1. /\ \A v \in User : CalculatePendingRewards(v) \in Nat
      /\ \A v \in User \ {u} : CalculatePendingRewards(v)' = CalculatePendingRewards(v)
      /\ CalculatePendingRewards(u)' = rewards'[u]
      /\ rewards'[u] = IF claimRewardToken THEN 0 ELSE CalculatePendingRewards(u)
  BY CheckpointClaims
<1>2. claimRewardToken => weth' = weth - CalculatePendingRewards(u)
  BY DEF Claim
<1> QED BY <1>1, <1>2 DEF Accrued

\* A step of the users or of time.
LEMMA AccruedByUsers ==
  ASSUME FundedInv, FundedInv', NextBlock \/ UserNext
  PROVE  Accrued
<1>1. TypeOK /\ NoCheckpointReverts /\ TypeOK' /\ NoCheckpointReverts'
  BY DEF FundedInv, SharesInv
<1>2. ASSUME NEW u \in User, UserStep(u) PROVE Accrued
  <2>1. PICK claimRewardToken \in BOOLEAN :
          /\ UpdateReward(u) /\ Claim(u, claimRewardToken) /\ UNCHANGED <<block, period>>
          /\ \A v \in User \ {u} : shares'[v] = shares[v]
    BY <1>1, <1>2, UserCheckpoints
  <2> QED BY <1>1, <2>1, AccruedIfMarked
<1>3. ASSUME NextBlock PROVE Accrued
  <2>1. /\ block' = block + 1
        /\ UNCHANGED <<currentRewardPerBlock, periodEndBlock, lastUpdateBlock,
                       rewardPerTokenStored, totalShares, accounts>>
    BY <1>3 DEF NextBlock, period
  <2> DEFINE m == LastRewardBlock - lastUpdateBlock
             n == LastRewardBlock' - lastUpdateBlock
             k == currentRewardPerBlock * PRECISION_FACTOR
             t == totalShares
             y == rewardPerTokenStored
  <2>2. m \in Nat /\ n \in Nat /\ m <= n
    <3>1. lastUpdateBlock \in Nat /\ lastUpdateBlock <= LastRewardBlock
      BY <1>1 DEF TypeOK, NoCheckpointReverts
    <3> QED BY <1>1, <2>1, <3>1 DEF LastRewardBlock, TypeOK
  <2>3. k \in Nat /\ t \in Nat /\ y \in Nat
    BY <1>1, MulNat, FeeSharingAssumption DEF TypeOK
  <2>4. /\ RewardPerToken = IF t = 0 THEN y ELSE y + (m * k) \div t
        /\ RewardPerToken' = IF t = 0 THEN y ELSE y + (n * k) \div t
    BY <2>1 DEF RewardPerToken
  <2> HIDE DEF m, n, k, t, y
  <2>5. m * k \in Nat /\ n * k \in Nat /\ m * k <= n * k
    <3>1. k * m <= k * n /\ k * m = m * k /\ k * n = n * k
      BY <2>2, <2>3, MulMonotone
    <3> QED BY <2>2, <2>3, <3>1, MulNat
  <2> DEFINE a == m * k
             b == n * k
  <2> HIDE DEF a, b
  <2>6. RewardPerToken' \in Nat /\ RewardPerToken <= RewardPerToken'
    <3>1. CASE t = 0
      BY <2>3, <2>4, <3>1
    <3>2. CASE t # 0
      <4>1. t \in Nat \ {0}
        BY <2>3, <3>2
      <4>2. a \div t \in Nat /\ b \div t \in Nat /\ a \div t <= b \div t
        BY <2>5, <4>1, DivNat, DivMonotone DEF a, b
      <4>3. RewardPerToken = y + a \div t /\ RewardPerToken' = y + b \div t
        BY <2>4, <3>2 DEF a, b
      <4> QED BY <2>3, <4>2, <4>3
    <3> QED BY <3>1, <3>2
  <2> QED BY <1>1, <2>1, <2>6, AccruedIfHigher
<1> QED BY <1>2, <1>3 DEF UserNext

\* A renewal that waits for the checkpoint at the end of the period: the
\* accumulator that is not stored is the one that is.
LEMMA AccruedOverRenewal ==
  ASSUME FundedInv, FundedInv', CanRelease, NEW reward, NEW length \in Nat,
         UpdateRewards(reward, length)
  PROVE  Accrued
<1>1. TypeOK /\ NoCheckpointReverts /\ TypeOK' /\ NoCheckpointReverts'
  BY DEF FundedInv, SharesInv
<1>2. RewardPerToken = rewardPerTokenStored /\ RewardPerToken \in Nat
  <2>1. LastRewardBlock = lastUpdateBlock
    BY <1>1 DEF CanRelease, NoCheckpointReverts, LastRewardBlock, TypeOK
  <2> QED BY <1>1, <2>1, ClockTypes
<1>3. /\ block' = block /\ lastUpdateBlock' = block
      /\ periodEndBlock' = block + length
      /\ UNCHANGED <<rewardPerTokenStored, totalShares, accounts>>
  BY DEF UpdateRewards
<1>4. RewardPerToken' = rewardPerTokenStored
  <2>1. LastRewardBlock' = block /\ block \in Nat
    BY <1>1, <1>3 DEF LastRewardBlock, TypeOK
  <2> DEFINE k == currentRewardPerBlock' * PRECISION_FACTOR
             t == totalShares
             y == rewardPerTokenStored
  <2>2. k \in Nat /\ t \in Nat /\ y \in Nat
    BY <1>1, MulNat, FeeSharingAssumption DEF TypeOK
  <2>3. RewardPerToken' = IF t = 0 THEN y ELSE y + ((block - block) * k) \div t
    BY <1>3, <2>1 DEF RewardPerToken
  <2>4. block - block = 0
    BY <2>1
  <2> HIDE DEF k, t, y
  <2>5. 0 * k = 0 /\ (t # 0 => 0 \div t = 0)
    BY <2>2
  <2>6. RewardPerToken' = IF t = 0 THEN y ELSE y + 0 \div t
    BY <2>3, <2>4, <2>5, Zenon
  <2>7. RewardPerToken' = y
    BY <2>2, <2>5, <2>6
  <2> QED BY <2>7 DEF y
<1>5. RewardPerToken' \in Nat /\ RewardPerToken <= RewardPerToken'
  BY <1>2, <1>4
<1> QED BY <1>1, <1>3, <1>5, AccruedIfHigher

\* For any fees, shares and durations, and whenever the controller is called:
\* no user loses a block's reward to a renewal.
THEOREM NothingDropped == OperatorSpec => AccrualKept
<1>1. OperatorInit => SetterInv
  BY SetterStarts DEF OperatorInit
<1>2. SetterInv /\ [OperatorNext]_operatorVars => SetterInv'
  <2>1. SetterInv /\ UNCHANGED <<systemVars, setterVars>> => SetterInv'
    BY SetterInductive
  <2> QED BY <2>1, RenewKeeps, OtherStepsKeep
          DEF OperatorNext, ReleaseTokensAndUpdateRewards, operatorVars
<1>3. SetterInv /\ SetterInv' /\ [OperatorNext]_operatorVars => [Accrued]_operatorVars
  <2> SUFFICES ASSUME SetterInv, SetterInv', OperatorNext PROVE Accrued \/ UNCHANGED operatorVars
    OBVIOUS
  <2>1. SetterTypeOK /\ FundedInv /\ FundedInv' /\ TypeOK /\ NoCheckpointReverts /\ SetterTypeOK'
    BY DEF SetterInv, SetterTypeOK, FundedInv
  <2>2. ASSUME UNCHANGED systemVars PROVE Accrued
    <3>1. UNCHANGED accounts /\ RewardPerToken' = RewardPerToken
      BY <2>2 DEF systemVars, period, RewardPerToken, LastRewardBlock
    <3>2. RewardPerToken \in Nat
      BY <2>1, ClockTypes
    <3>3. RewardPerToken' \in Nat /\ RewardPerToken <= RewardPerToken'
      BY <3>1, <3>2
    <3> QED BY <2>1, <3>1, <3>3, AccruedIfHigher
  <2>3. CASE ReleaseTokensAndUpdateRewards
    <3> DEFINE d == rewardDurationInBlocks'
    <3>1. CanRelease /\ UpdateRewards(AdjustedReward(pendingFees), d)
      BY <2>3 DEF ReleaseTokensAndUpdateRewards, SetterUpdateRewards, Renew
    <3>2. d \in Nat
      BY <2>1, SetterAssumption DEF SetterTypeOK
    <3> HIDE DEF d
    <3> QED BY <2>1, <3>1, <3>2, AccruedOverRenewal
  <2>4. CASE OthersNext
    <3>1. ASSUME SetterAlone PROVE Accrued
      BY <2>2, <3>1 DEF SetterAlone
    <3>2. ASSUME NextBlock \/ UserNext PROVE Accrued
      BY <2>1, <3>2, AccruedByUsers
    <3> QED BY <2>1, <2>4, <3>1, <3>2, AloneSteps
  <2>5. CASE UNCHANGED <<systemVars, setterVars>>
    BY <2>2, <2>5
  <2> QED BY <2>3, <2>4, <2>5 DEF OperatorNext
<1>4. [][Accrued]_operatorVars => AccrualKept
  BY PTL DEF AccrualKept, Accrued
<1> QED BY <1>1, <1>2, <1>3, <1>4, PTL DEF OperatorSpec
=============================================================================

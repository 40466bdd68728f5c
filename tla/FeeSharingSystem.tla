-------------------------- MODULE FeeSharingSystem --------------------------
(***************************************************************************)
(* FeeSharingSystem.sol: users stake LOOKS together in one account of the   *)
(* TokenDistributor, own shares of what it compounds, and earn a stream of  *)
(* WETH that its owner renews period by period.                             *)
(*                                                                          *)
(* Of the TokenDistributor the contract sees one thing: harvestAndCompound  *)
(* adds some reward, here any member of Compounds, to what it has staked.   *)
(***************************************************************************)
EXTENDS Sums

CONSTANTS
  User,
  PRECISION_FACTOR,  \* 10**18: one LOOKS, the least deposit
  InitialWallet,     \* the LOOKS each user holds
  Compounds,         \* what one harvestAndCompound may add
  LOOKS_SUPPLY,      \* bound on the LOOKS staked and held
  OwnerRewards,      \* WETH an owner may announce for a period, and for how
  OwnerDurations,    \*   many blocks
  WETH_SUPPLY,       \* bound on the WETH the contract holds
  MaxBlock           \* bound on the block number

ASSUME FeeSharingAssumption ==
  /\ IsFiniteSet(User)
  /\ PRECISION_FACTOR \in Nat \ {0}
  /\ InitialWallet \in [User -> Nat]
  /\ Compounds \subseteq Nat
  /\ LOOKS_SUPPLY \in Nat
  /\ OwnerRewards \subseteq Nat
  /\ OwnerDurations \subseteq Nat
  /\ WETH_SUPPLY \in Nat
  /\ MaxBlock \in Nat

VARIABLES
  block,                  \* block.number
  currentRewardPerBlock,
  lastUpdateBlock,
  periodEndBlock,
  rewardPerTokenStored,
  totalShares,
  shares,                 \* userInfo[u].shares
  userRewardPerTokenPaid, \* userInfo[u].userRewardPerTokenPaid
  rewards,                \* userInfo[u].rewards
  staked,                 \* tokenDistributor.userInfo(address(this)).amount
  weth,                   \* WETH held by the contract
  wallet                  \* LOOKS held by each user

period     == <<currentRewardPerBlock, periodEndBlock>>
accounts   == <<shares, userRewardPerTokenPaid, rewards>>
systemVars == <<block, period, lastUpdateBlock, rewardPerTokenStored, totalShares,
                accounts, staked, weth, wallet>>

Init ==
  /\ block = 1
  /\ currentRewardPerBlock = 0
  /\ lastUpdateBlock = 0
  /\ periodEndBlock = 0
  /\ rewardPerTokenStored = 0
  /\ totalShares = 0
  /\ shares = [u \in User |-> 0]
  /\ userRewardPerTokenPaid = [u \in User |-> 0]
  /\ rewards = [u \in User |-> 0]
  /\ staked = 0
  /\ weth = 0
  /\ wallet = InitialWallet
-----------------------------------------------------------------------------
LastRewardBlock == IF block < periodEndBlock THEN block ELSE periodEndBlock

RewardPerToken ==
  IF totalShares = 0
  THEN rewardPerTokenStored
  ELSE rewardPerTokenStored
         + ((LastRewardBlock - lastUpdateBlock) * (currentRewardPerBlock * PRECISION_FACTOR))
             \div totalShares

CalculatePendingRewards(u) ==
  (shares[u] * (RewardPerToken - userRewardPerTokenPaid[u])) \div PRECISION_FACTOR + rewards[u]

\* Mutant: the clock runs past the end of the period.
UpdateRewardPastEnd(u) ==
  /\ lastUpdateBlock <= LastRewardBlock
  /\ userRewardPerTokenPaid[u] <= RewardPerToken
  /\ rewardPerTokenStored' = RewardPerToken
  /\ lastUpdateBlock' = block
  /\ userRewardPerTokenPaid' = [userRewardPerTokenPaid EXCEPT ![u] = rewardPerTokenStored']

\* _updateReward, but for the rewards it stores: these are what
\* CalculatePendingRewards is before the step.  The subtractions are checked.
UpdateReward(u) ==
  /\ lastUpdateBlock <= LastRewardBlock
  /\ userRewardPerTokenPaid[u] <= RewardPerToken
  /\ IF block # lastUpdateBlock
     THEN /\ rewardPerTokenStored' = RewardPerToken
          /\ lastUpdateBlock' = LastRewardBlock
     ELSE UNCHANGED <<rewardPerTokenStored, lastUpdateBlock>>
  /\ userRewardPerTokenPaid' = [userRewardPerTokenPaid EXCEPT ![u] = rewardPerTokenStored']

\* The stored rewards of u are paid out, or kept when no claim is requested.
Claim(u, claimRewardToken) ==
  LET pendingRewards == CalculatePendingRewards(u) IN
  IF claimRewardToken
  THEN /\ pendingRewards <= weth
       /\ rewards' = [rewards EXCEPT ![u] = 0]
       /\ weth' = weth - pendingRewards
  ELSE /\ rewards' = [rewards EXCEPT ![u] = pendingRewards]
       /\ UNCHANGED weth

\* tokenDistributor.harvestAndCompound() adds c to the stake: nothing when
\* nothing is staked.
Compounded(c) ==
  c # 0 => /\ staked # 0
           /\ staked + c + SumOver(wallet, User) <= LOOKS_SUPPLY

\* Mutant: shares are issued on the balance before compounding.
SharesForStale(n, c) ==
  IF totalShares # 0 THEN (n * totalShares) \div staked ELSE n

\* The shares a deposit of n is worth.
SharesFor(n, c) ==
  IF totalShares # 0 THEN (n * totalShares) \div (staked + c) ELSE n

Issue(u, s) ==
  /\ shares' = [shares EXCEPT ![u] = @ + s]
  /\ totalShares' = totalShares + s

Burn(u, s) ==
  /\ shares' = [shares EXCEPT ![u] = @ - s]
  /\ totalShares' = totalShares - s

Deposit(u, n, claimRewardToken, c) ==
  /\ n >= PRECISION_FACTOR
  /\ n <= wallet[u]
  /\ Compounded(c)
  /\ UpdateReward(u)
  /\ SharesFor(n, c) # 0
  /\ Issue(u, SharesFor(n, c))
  /\ Claim(u, claimRewardToken)
  /\ staked' = staked + c + n
  /\ wallet' = [wallet EXCEPT ![u] = @ - n]
  /\ UNCHANGED <<block, period>>

Harvest(u, c) ==
  /\ Compounded(c)
  /\ UpdateReward(u)
  /\ CalculatePendingRewards(u) > 0
  /\ Claim(u, TRUE)
  /\ staked' = staked + c
  /\ UNCHANGED <<block, period, totalShares, shares, wallet>>

\* Mutant: a share pays one LOOKS.
CurrentAmountFlat(s, c) == s

\* The LOOKS that s shares are worth.
CurrentAmount(s, c) == ((staked + c) * s) \div totalShares

\* _withdraw.  Dividing by no shares reverts, and the TokenDistributor
\* refuses to withdraw nothing.
WithdrawShares(u, s, claimRewardToken, c) ==
  /\ Compounded(c)
  /\ UpdateReward(u)
  /\ totalShares # 0
  /\ CurrentAmount(s, c) \in 1..(staked + c)
  /\ Burn(u, s)
  /\ staked' = staked + c - CurrentAmount(s, c)
  /\ Claim(u, claimRewardToken)
  /\ wallet' = [wallet EXCEPT ![u] = @ + CurrentAmount(s, c)]
  /\ UNCHANGED <<block, period>>

Withdraw(u, s, claimRewardToken, c) ==
  /\ s > 0
  /\ s <= shares[u]
  /\ WithdrawShares(u, s, claimRewardToken, c)

WithdrawAll(u, claimRewardToken, c) ==
  WithdrawShares(u, shares[u], claimRewardToken, c)

\* updateRewards, called by the owner.  It does not store the accumulator.
UpdateRewards(reward, rewardDurationInBlocks) ==
  /\ rewardDurationInBlocks # 0
  /\ currentRewardPerBlock' =
       (IF block >= periodEndBlock
        THEN reward
        ELSE reward + (periodEndBlock - block) * currentRewardPerBlock)
       \div rewardDurationInBlocks
  /\ lastUpdateBlock' = block
  /\ periodEndBlock' = block + rewardDurationInBlocks
  /\ UNCHANGED <<block, rewardPerTokenStored, totalShares, accounts, staked, wallet>>

\* The owner is meant to be another contract that sends the reward it
\* announces; FeeSharingSetter is one.
FundedUpdateRewards(reward, rewardDurationInBlocks) ==
  /\ UpdateRewards(reward, rewardDurationInBlocks)
  /\ weth' = weth + reward
  /\ weth' <= WETH_SUPPLY

NextBlock ==
  /\ block < MaxBlock
  /\ block' = block + 1
  /\ UNCHANGED <<period, lastUpdateBlock, rewardPerTokenStored, totalShares,
                 accounts, staked, weth, wallet>>

UserStep(u) ==
  \E c \in Compounds :
    \/ Harvest(u, c)
    \/ \E claimRewardToken \in BOOLEAN :
         \/ WithdrawAll(u, claimRewardToken, c)
         \/ \E n \in 1..wallet[u] : Deposit(u, n, claimRewardToken, c)
         \/ \E s \in 1..totalShares : Withdraw(u, s, claimRewardToken, c)

UserNext == \E u \in User : UserStep(u)

Next ==
  \/ NextBlock
  \/ UserNext
  \/ \E reward \in OwnerRewards, rewardDurationInBlocks \in OwnerDurations :
       FundedUpdateRewards(reward, rewardDurationInBlocks)

Spec == Init /\ [][Next]_systemVars
-----------------------------------------------------------------------------
\* What the view says the shares of u are worth, given the reward that the
\* TokenDistributor reports as pending.
CalculateSharesValueInLOOKS(u, pending) ==
  IF shares[u] = 0 THEN 0 ELSE ((staked + pending) * shares[u]) \div totalShares
-----------------------------------------------------------------------------
(* Properties *)

\* The type of every variable.
TypeOK ==
  /\ block \in Nat
  /\ currentRewardPerBlock \in Nat
  /\ lastUpdateBlock \in Nat
  /\ periodEndBlock \in Nat
  /\ rewardPerTokenStored \in Nat
  /\ totalShares \in Nat
  /\ shares \in [User -> Nat]
  /\ userRewardPerTokenPaid \in [User -> Nat]
  /\ rewards \in [User -> Nat]
  /\ staked \in Nat
  /\ weth \in Nat
  /\ wallet \in [User -> Nat]

\* totalShares is the sum of the shares.
SharesAccounted == totalShares = SumOver(shares, User)

\* A share is never worth less than one LOOKS, so that withdrawing any number
\* of shares pays something: the TokenDistributor's refusal to withdraw 0
\* never locks a small holding, and no LOOKS is left behind without a share.
SharesRedeemable ==
  /\ totalShares <= staked
  /\ totalShares = 0 => staked = 0

\* The shares a user holds are all of its part, and are always worth something.
SharesSound == SharesAccounted /\ SharesRedeemable

\* The checked subtractions of _rewardPerToken and _calculatePendingRewards
\* never fail, so that no sequence of periods and checkpoints locks deposit,
\* harvest and withdraw.
NoCheckpointReverts ==
  /\ lastUpdateBlock <= LastRewardBlock
  /\ \A u \in User : userRewardPerTokenPaid[u] <= rewardPerTokenStored

\* The WETH held covers everything users may claim now and the rest of the
\* running period, whoever joined or left in the middle of it.
ClaimsFunded ==
  SumOver([u \in User |-> shares[u] * (RewardPerToken - userRewardPerTokenPaid[u])
                            + PRECISION_FACTOR * rewards[u]], User)
    + PRECISION_FACTOR * currentRewardPerBlock * (periodEndBlock - LastRewardBlock)
  <= PRECISION_FACTOR * weth

\* The LOOKS that came from the TokenDistributor in a step, as opposed to
\* those that users moved.
Yield == staked' + SumOver(wallet', User) - staked - SumOver(wallet, User)

\* The price of a share never falls below what the compounding of the same
\* transaction makes it: neither a deposit nor a withdrawal takes LOOKS, or
\* the reward they earned, from the holders of the other shares.
SharePriceNeverFalls ==
  [][totalShares # 0 /\ totalShares' # 0
       => staked' * totalShares >= (staked + Yield) * totalShares']_systemVars

\* Whoever leaves is paid what the view said the shares were worth.
ValuePreviewed ==
  [][\A u \in User : shares[u] # 0 /\ shares'[u] = 0
       => wallet'[u] - wallet[u] = CalculateSharesValueInLOOKS(u, Yield)]_systemVars
=============================================================================

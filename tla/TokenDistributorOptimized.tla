---------------------- MODULE TokenDistributorOptimized ----------------------
(***************************************************************************)
(* TokenDistributorOptimized.sol, the gas-optimized rewrite of              *)
(* TokenDistributor.sol, in which some sums are unchecked: they wrap at the *)
(* width of a uint instead of reverting.  Checked operations keep a guard   *)
(* Fits.                                                                    *)
(***************************************************************************)
EXTENDS Integers, FiniteSets

CONSTANTS User, PRECISION_FACTOR, START_BLOCK, NUMBER_PERIODS, stakingPeriod,
          SUPPLY_CAP, Premint, InitialWallet, DeployerMints, MaxBlock,
          UINT_MAX    \* 2^256 - 1 in the code

VARIABLES block, s_accTokenPerShare, s_currentPhase, s_endBlock, s_lastRewardBlock,
          s_rewardPerBlockForStaking, s_rewardPerBlockForOthers, s_totalAmountStaked,
          amount, rewardDebt, tokenOwner, totalSupply, held, splitterHeld, wallet

schedule == <<s_currentPhase, s_endBlock, s_rewardPerBlockForStaking, s_rewardPerBlockForOthers>>
pool     == <<schedule, s_accTokenPerShare, s_lastRewardBlock>>
stakes   == <<s_totalAmountStaked, amount, rewardDebt>>
minting  == <<totalSupply, splitterHeld>>
vars     == <<block, pool, stakes, tokenOwner, minting, held, wallet>>

\* A checked operation reverts unless its result is a uint.
Fits(x) == x \in 0..UINT_MAX

\* An unchecked sum.
Unchecked(x) == x % (UINT_MAX + 1)

\* The constructor; what it requires of its arguments is the original's
\* ConstructorRequires.
Init ==
  /\ block = 0
  /\ s_accTokenPerShare = 0
  /\ s_currentPhase = 0
  /\ s_endBlock = START_BLOCK + stakingPeriod[0].periodLengthInBlock
  /\ s_lastRewardBlock = START_BLOCK
  /\ s_rewardPerBlockForStaking = stakingPeriod[0].rewardPerBlockForStaking
  /\ s_rewardPerBlockForOthers = stakingPeriod[0].rewardPerBlockForOthers
  /\ s_totalAmountStaked = 0
  /\ amount = [u \in User |-> 0]
  /\ rewardDebt = [u \in User |-> 0]
  /\ tokenOwner = "deployer"
  /\ totalSupply = Premint
  /\ held = 0
  /\ splitterHeld = 0
  /\ wallet = InitialWallet
-----------------------------------------------------------------------------
\* _getMultiplier for an s_endBlock of end.
GetMultiplier(from, to, end) ==
  IF to <= end THEN to - from ELSE IF from >= end THEN 0 ELSE end - from

\* Mutant: the body of the loop reads the rates before it changes the period.
UpdateRewardsPerBlockLate(r) ==
  [phase |-> Unchecked(r.phase + 1),
   staking |-> stakingPeriod[r.phase].rewardPerBlockForStaking,
   others |-> stakingPeriod[r.phase].rewardPerBlockForOthers]

\* _updateRewardsPerBlock on the phase and rates of a round.
UpdateRewardsPerBlock(r) ==
  LET next == Unchecked(r.phase + 1) IN
  [phase |-> next,
   staking |-> stakingPeriod[next].rewardPerBlockForStaking,
   others |-> stakingPeriod[next].rewardPerBlockForOthers]

\* The storage and the two rewards after k rounds of _updatePool's loop.
Rounds ==
  LET round[k \in 0..NUMBER_PERIODS] ==
        IF k = 0
        THEN LET multiplier == GetMultiplier(s_lastRewardBlock, block, s_endBlock) IN
             [now |-> [phase |-> s_currentPhase,
                       staking |-> s_rewardPerBlockForStaking,
                       others |-> s_rewardPerBlockForOthers],
              endBlock |-> s_endBlock,
              forStaking |-> multiplier * s_rewardPerBlockForStaking,
              forOthers |-> multiplier * s_rewardPerBlockForOthers]
        ELSE LET r == round[k - 1]
                 now == UpdateRewardsPerBlock(r.now)
                 end == r.endBlock + stakingPeriod[now.phase].periodLengthInBlock
                 newMultiplier == GetMultiplier(r.endBlock, block, end)
             IN IF block > r.endBlock /\ r.now.phase < NUMBER_PERIODS - 1
                THEN [now |-> now,
                      endBlock |-> end,
                      forStaking |-> r.forStaking + newMultiplier * now.staking,
                      forOthers |-> r.forOthers + newMultiplier * now.others]
                ELSE r
  IN round

RewardsDue == block > s_lastRewardBlock /\ s_totalAmountStaked # 0

AfterLoop == Rounds[NUMBER_PERIODS]

\* LooksRareToken.mint for the staking reward, then for the others.
Minted(s, n) == IF s + n <= SUPPLY_CAP THEN n ELSE 0
StakingMinted == IF RewardsDue THEN Minted(totalSupply, AfterLoop.forStaking) ELSE 0
OthersMinted ==
  IF RewardsDue /\ AfterLoop.forStaking > 0
  THEN Minted(totalSupply + StakingMinted, AfterLoop.forOthers)
  ELSE 0

UpdatePool ==
  \/ /\ block <= s_lastRewardBlock
     /\ UNCHANGED <<pool, minting>>
  \/ /\ block > s_lastRewardBlock
     /\ s_totalAmountStaked = 0
     /\ s_lastRewardBlock' = block
     /\ UNCHANGED <<schedule, s_accTokenPerShare, minting>>
  \/ /\ RewardsDue
     /\ Fits(AfterLoop.endBlock) /\ Fits(AfterLoop.forStaking) /\ Fits(AfterLoop.forOthers)
     /\ AfterLoop.forStaking > 0 =>
          /\ tokenOwner = "distributor"
          /\ Fits(totalSupply + AfterLoop.forStaking)
          /\ Fits(totalSupply + StakingMinted + AfterLoop.forOthers)
     /\ Fits(StakingMinted * PRECISION_FACTOR)
     /\ s_accTokenPerShare' =
          s_accTokenPerShare + (StakingMinted * PRECISION_FACTOR) \div s_totalAmountStaked
     /\ Fits(s_accTokenPerShare')
     /\ s_currentPhase' = AfterLoop.now.phase
     /\ s_endBlock' = AfterLoop.endBlock
     /\ s_rewardPerBlockForStaking' = AfterLoop.now.staking
     /\ s_rewardPerBlockForOthers' = AfterLoop.now.others
     /\ s_lastRewardBlock' = IF s_lastRewardBlock <= s_endBlock' THEN block ELSE s_lastRewardBlock
     /\ totalSupply' = totalSupply + StakingMinted + OthersMinted
     /\ splitterHeld' = splitterHeld + OthersMinted
-----------------------------------------------------------------------------
\* amount * acc / PRECISION_FACTOR - debt, with a checked product and difference.
Pending(u) == (amount[u] * s_accTokenPerShare') \div PRECISION_FACTOR - rewardDebt[u]
PendingFits(u) == Fits(amount[u] * s_accTokenPerShare') /\ Fits(Pending(u))

\* userInfo[u] becomes n tokens and what they have earned so far.
Settle(u, n) ==
  /\ Fits(n * s_accTokenPerShare')
  /\ amount' = [amount EXCEPT ![u] = n]
  /\ rewardDebt' = [rewardDebt EXCEPT ![u] = (n * s_accTokenPerShare') \div PRECISION_FACTOR]

Deposit(u, n) ==
  /\ n # 0
  /\ n <= wallet[u]
  /\ UpdatePool
  /\ LET pendingRewards == IF amount[u] > 0 THEN Pending(u) ELSE 0 IN
       /\ amount[u] > 0 => PendingFits(u)
       /\ Fits(amount[u] + n + pendingRewards)
       /\ Settle(u, amount[u] + n + pendingRewards)
       /\ s_totalAmountStaked' = s_totalAmountStaked + n + pendingRewards
       /\ Fits(s_totalAmountStaked')
  /\ held' = held + StakingMinted + n
  /\ wallet' = [wallet EXCEPT ![u] = @ - n]
  /\ UNCHANGED <<block, tokenOwner>>

HarvestAndCompound(u) ==
  /\ UpdatePool
  /\ PendingFits(u)
  /\ IF Pending(u) = 0
     THEN UNCHANGED stakes
     ELSE /\ Settle(u, Unchecked(amount[u] + Pending(u)))
          /\ s_totalAmountStaked' = s_totalAmountStaked + Pending(u)
          /\ Fits(s_totalAmountStaked')
  /\ held' = held + StakingMinted
  /\ UNCHANGED <<block, tokenOwner, wallet>>

UpdatePoolOnly ==
  /\ UpdatePool
  /\ held' = held + StakingMinted
  /\ UNCHANGED <<block, stakes, tokenOwner, wallet>>

Withdraw(u, n) ==
  /\ ~(amount[u] < n \/ n = 0)
  /\ UpdatePool
  /\ PendingFits(u)
  /\ Fits(amount[u] + Pending(u))
  /\ Settle(u, amount[u] + Pending(u) - n)
  /\ Fits(s_totalAmountStaked + Pending(u))
  /\ s_totalAmountStaked' = s_totalAmountStaked + Pending(u) - n
  /\ Fits(s_totalAmountStaked')
  /\ held' = held + StakingMinted - n
  /\ Fits(held')
  /\ wallet' = [wallet EXCEPT ![u] = @ + n]
  /\ UNCHANGED <<block, tokenOwner>>

WithdrawAll(u) ==
  /\ amount[u] # 0
  /\ UpdatePool
  /\ PendingFits(u)
  /\ LET amountToTransfer == amount[u] + Pending(u) IN
       /\ Fits(amountToTransfer)
       /\ held' = held + StakingMinted - amountToTransfer
       /\ wallet' = [wallet EXCEPT ![u] = @ + amountToTransfer]
  /\ Fits(held')
  /\ s_totalAmountStaked' = s_totalAmountStaked - amount[u]
  /\ Fits(s_totalAmountStaked')
  /\ amount' = [amount EXCEPT ![u] = 0]
  /\ rewardDebt' = [rewardDebt EXCEPT ![u] = 0]
  /\ UNCHANGED <<block, tokenOwner>>

DeployerMint(n) ==
  /\ tokenOwner = "deployer"
  /\ Fits(totalSupply + n)
  /\ totalSupply' = totalSupply + Minted(totalSupply, n)
  /\ UNCHANGED <<block, pool, stakes, tokenOwner, splitterHeld, held, wallet>>

TransferOwnership ==
  /\ tokenOwner = "deployer"
  /\ tokenOwner' = "distributor"
  /\ UNCHANGED <<block, pool, stakes, minting, held, wallet>>

NextBlock ==
  /\ block < MaxBlock
  /\ block' = block + 1
  /\ UNCHANGED <<pool, stakes, tokenOwner, minting, held, wallet>>

Next ==
  \/ NextBlock
  \/ UpdatePoolOnly
  \/ TransferOwnership
  \/ \E n \in DeployerMints : DeployerMint(n)
  \/ \E u \in User :
       \/ HarvestAndCompound(u)
       \/ WithdrawAll(u)
       \/ \E n \in 1..wallet[u] : Deposit(u, n)
       \/ \E n \in 1..amount[u] : Withdraw(u, n)

Spec == Init /\ [][Next]_vars
-----------------------------------------------------------------------------
\* calculatePendingRewards after k rounds of its loop, which copies the
\* storage and sums the period and the end block unchecked.
ViewRounds ==
  LET round[k \in 0..NUMBER_PERIODS] ==
        IF k = 0
        THEN [phase |-> s_currentPhase,
              endBlock |-> s_endBlock,
              forStaking |-> GetMultiplier(s_lastRewardBlock, block, s_endBlock)
                               * s_rewardPerBlockForStaking]
        ELSE LET r == round[k - 1]
                 phase == Unchecked(r.phase + 1)
                 length == stakingPeriod[phase].periodLengthInBlock
                 end == Unchecked(r.endBlock + length)
                 newMultiplier == IF block <= end THEN block - r.endBlock ELSE length
             IN IF block > r.endBlock /\ r.phase < NUMBER_PERIODS - 1
                THEN [phase |-> phase,
                      endBlock |-> end,
                      forStaking |-> r.forStaking
                                       + newMultiplier * stakingPeriod[phase].rewardPerBlockForStaking]
                ELSE r
  IN round

\* Mutant: the view stops after the first period boundary.
ViewRewardOneRound == ViewRounds[1].forStaking

ViewReward == ViewRounds[NUMBER_PERIODS].forStaking

CalculatePendingRewards(u) ==
  LET adjusted == s_accTokenPerShare
        + IF RewardsDue THEN (ViewReward * PRECISION_FACTOR) \div s_totalAmountStaked ELSE 0
  IN (amount[u] * adjusted) \div PRECISION_FACTOR - rewardDebt[u]
=============================================================================

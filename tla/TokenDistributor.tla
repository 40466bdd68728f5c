-------------------------- MODULE TokenDistributor --------------------------
(***************************************************************************)
(* TokenDistributor.sol with the LOOKS token it mints (LooksRareToken.sol): *)
(* users stake LOOKS, every block of a schedule of periods is due a reward, *)
(* and the reward is minted lazily, by whichever transaction comes next,    *)
(* and shared through an accumulator per staked token.                      *)
(*                                                                          *)
(* One action is one transaction: the EVM runs them one at a time and a     *)
(* revert undoes all of one, so a failing require, checked subtraction,     *)
(* token transfer or onlyOwner is a guard.  The block number only grows,    *)
(* and any number of transactions share a block.                            *)
(***************************************************************************)
EXTENDS Sums

CONSTANTS
  User,              \* the accounts that stake
  PRECISION_FACTOR,  \* 10**12 in the code
  START_BLOCK,
  NUMBER_PERIODS,
  stakingPeriod,     \* 0 .. NUMBER_PERIODS-1 -> the rates and the length
  SUPPLY_CAP,
  Premint,           \* LOOKS in circulation when the distributor is deployed
  InitialWallet,     \* the part of the premint each user holds
  DeployerMints,     \* amounts the deployer may mint before handing over
  MaxBlock           \* bound on the block number

LastPeriod == NUMBER_PERIODS - 1

StakingPeriod == [rewardPerBlockForStaking : Nat,
                  rewardPerBlockForOthers  : Nat,
                  periodLengthInBlock      : Nat]

Length == [i \in 0..LastPeriod |-> stakingPeriod[i].periodLengthInBlock]

PeriodEmission ==
  [i \in 0..LastPeriod |->
     (stakingPeriod[i].rewardPerBlockForStaking
        + stakingPeriod[i].rewardPerBlockForOthers)
     * stakingPeriod[i].periodLengthInBlock]

\* amountTokensToBeMinted as the constructor's loop adds it up.
AmountTokensToBeMinted == PartialSum(PeriodEmission, NUMBER_PERIODS)[NUMBER_PERIODS]

\* What the two constructors require of their arguments.
ASSUME ConstructorRequires ==
  /\ IsFiniteSet(User)
  /\ PRECISION_FACTOR \in Nat \ {0}
  /\ START_BLOCK \in Nat
  /\ NUMBER_PERIODS \in Nat \ {0}
  /\ stakingPeriod \in [0..LastPeriod -> StakingPeriod]
  /\ Premint \in Nat
  /\ Premint < SUPPLY_CAP
  /\ SUPPLY_CAP = Premint + AmountTokensToBeMinted
  /\ InitialWallet \in [User -> Nat]
  /\ DeployerMints \subseteq Nat
  /\ MaxBlock \in Nat

VARIABLES
  block,                    \* block.number
  accTokenPerShare,
  currentPhase,
  endBlock,
  lastRewardBlock,
  rewardPerBlockForStaking,
  rewardPerBlockForOthers,
  totalAmountStaked,
  amount,                   \* userInfo[u].amount
  rewardDebt,               \* userInfo[u].rewardDebt
  tokenOwner,               \* owner() of LooksRareToken
  totalSupply,              \* totalSupply() of LooksRareToken
  held,                     \* LOOKS held by the distributor
  splitterHeld,             \* LOOKS minted to the token splitter
  wallet                    \* LOOKS held by each user

schedule == <<currentPhase, endBlock, rewardPerBlockForStaking, rewardPerBlockForOthers>>
pool     == <<schedule, accTokenPerShare, lastRewardBlock>>
stakes   == <<totalAmountStaked, amount, rewardDebt>>
minting  == <<totalSupply, splitterHeld>>
vars     == <<block, pool, stakes, tokenOwner, minting, held, wallet>>

Init ==
  /\ block = 0
  /\ accTokenPerShare = 0
  /\ currentPhase = 0
  /\ endBlock = START_BLOCK + stakingPeriod[0].periodLengthInBlock
  /\ lastRewardBlock = START_BLOCK
  /\ rewardPerBlockForStaking = stakingPeriod[0].rewardPerBlockForStaking
  /\ rewardPerBlockForOthers = stakingPeriod[0].rewardPerBlockForOthers
  /\ totalAmountStaked = 0
  /\ amount = [u \in User |-> 0]
  /\ rewardDebt = [u \in User |-> 0]
  /\ tokenOwner = "deployer"
  /\ totalSupply = Premint
  /\ held = 0
  /\ splitterHeld = 0
  /\ wallet = InitialWallet
-----------------------------------------------------------------------------
(* _updatePool *)

\* Mutant: without any cap at the end.
MultiplierUncapped(from, to, end) == to - from

\* _getMultiplier, given the end of the period it reads from storage.
Multiplier(from, to, end) ==
  IF to <= end THEN to - from ELSE IF from >= end THEN 0 ELSE end - from

\* Where each period starts, counted from the first.
Offset == PartialSum(Length, NUMBER_PERIODS)

\* endBlock once the loop has added the lengths of the periods up to p.
EndOf(p) == endBlock + Offset[p + 1] - Offset[currentPhase + 1]

\* The period in which the loop's condition first fails.
PhaseReached ==
  CHOOSE p \in currentPhase..LastPeriod :
    /\ block <= EndOf(p) \/ p = LastPeriod
    /\ \A q \in currentPhase..(p - 1) : block > EndOf(q)

\* What each round of the loop adds to a reward paid at rates[q] per block.
RoundReward(rates) ==
  LET crossed == (currentPhase + 1)..PhaseReached IN
  [q \in 0..LastPeriod |->
     IF q \in crossed
     THEN Multiplier(EndOf(q - 1), block, EndOf(q)) * rates[q]
     ELSE 0]

StakingRate == [i \in 0..LastPeriod |-> stakingPeriod[i].rewardPerBlockForStaking]
OthersRate  == [i \in 0..LastPeriod |-> stakingPeriod[i].rewardPerBlockForOthers]

\* _updatePool gets past its two early returns.
RewardsDue == block > lastRewardBlock /\ totalAmountStaked # 0

TokenReward(currentRate, rates) ==
  IF RewardsDue
  THEN Multiplier(lastRewardBlock, block, endBlock) * currentRate
         + PartialSum(RoundReward(rates), NUMBER_PERIODS)[NUMBER_PERIODS]
  ELSE 0

TokenRewardForStaking == TokenReward(rewardPerBlockForStaking, StakingRate)
TokenRewardForOthers  == TokenReward(rewardPerBlockForOthers, OthersRate)

\* What LooksRareToken.mint adds to the supply s: all of n, or nothing.
Minted(s, n) == IF s + n <= SUPPLY_CAP THEN n ELSE 0

\* The two mint calls, made only when the stakers' reward is positive.
StakingMinted == Minted(totalSupply, TokenRewardForStaking)
OthersMinted ==
  IF TokenRewardForStaking > 0
  THEN Minted(totalSupply + StakingMinted, TokenRewardForOthers)
  ELSE 0

\* Mutant: the accumulator is raised whether or not the mint succeeded.
SharePerTokenUnchecked == (TokenRewardForStaking * PRECISION_FACTOR) \div totalAmountStaked

\* What an update adds to accTokenPerShare: the reward, if it was minted.
SharePerToken == (StakingMinted * PRECISION_FACTOR) \div totalAmountStaked

UpdatePool ==
  \/ /\ block <= lastRewardBlock
     /\ UNCHANGED <<pool, minting>>
  \/ /\ block > lastRewardBlock
     /\ totalAmountStaked = 0
     /\ lastRewardBlock' = block
     /\ UNCHANGED <<schedule, accTokenPerShare, minting>>
  \/ /\ RewardsDue
     /\ TokenRewardForStaking > 0 => tokenOwner = "distributor"
     /\ accTokenPerShare' = accTokenPerShare + SharePerToken
     /\ currentPhase' = PhaseReached
     /\ endBlock' = EndOf(PhaseReached)
     /\ rewardPerBlockForStaking' =
          IF PhaseReached = currentPhase THEN rewardPerBlockForStaking ELSE StakingRate[PhaseReached]
     /\ rewardPerBlockForOthers' =
          IF PhaseReached = currentPhase THEN rewardPerBlockForOthers ELSE OthersRate[PhaseReached]
     /\ lastRewardBlock' = IF lastRewardBlock <= endBlock' THEN block ELSE lastRewardBlock
     /\ totalSupply' = totalSupply + StakingMinted + OthersMinted
     /\ splitterHeld' = splitterHeld + OthersMinted
-----------------------------------------------------------------------------
(* The transactions *)

\* amount * acc / PRECISION_FACTOR - debt: the reward not yet compounded.
Pending(u, acc) == (amount[u] * acc) \div PRECISION_FACTOR - rewardDebt[u]

\* Mutant: the debt is computed before the amount is adjusted.
SettleStaleDebt(u, n) ==
  /\ amount' = [amount EXCEPT ![u] = n]
  /\ rewardDebt' = [rewardDebt EXCEPT ![u] = (amount[u] * accTokenPerShare') \div PRECISION_FACTOR]

\* The account of u is set to n tokens, its debt to what they earned so far.
Settle(u, n) ==
  /\ amount' = [amount EXCEPT ![u] = n]
  /\ rewardDebt' = [rewardDebt EXCEPT ![u] = (n * accTokenPerShare') \div PRECISION_FACTOR]

Deposit(u, n) ==
  /\ n > 0
  /\ n <= wallet[u]
  /\ UpdatePool
  /\ LET pending == IF amount[u] > 0 THEN Pending(u, accTokenPerShare') ELSE 0 IN
       /\ pending >= 0
       /\ Settle(u, amount[u] + n + pending)
       /\ totalAmountStaked' = totalAmountStaked + n + pending
  /\ held' = held + StakingMinted + n
  /\ wallet' = [wallet EXCEPT ![u] = @ - n]
  /\ UNCHANGED <<block, tokenOwner>>

HarvestAndCompound(u) ==
  /\ UpdatePool
  /\ LET pending == Pending(u, accTokenPerShare') IN
       \/ /\ pending = 0
          /\ UNCHANGED stakes
       \/ /\ pending > 0
          /\ Settle(u, amount[u] + pending)
          /\ totalAmountStaked' = totalAmountStaked + pending
  /\ held' = held + StakingMinted
  /\ UNCHANGED <<block, tokenOwner, wallet>>

UpdatePoolOnly ==
  /\ UpdatePool
  /\ held' = held + StakingMinted
  /\ UNCHANGED <<block, stakes, tokenOwner, wallet>>

Withdraw(u, n) ==
  /\ n > 0
  /\ n <= amount[u]
  /\ UpdatePool
  /\ LET pending == Pending(u, accTokenPerShare') IN
       /\ pending >= 0
       /\ Settle(u, amount[u] + pending - n)
       /\ totalAmountStaked + pending >= n
       /\ totalAmountStaked' = totalAmountStaked + pending - n
  /\ held + StakingMinted >= n
  /\ held' = held + StakingMinted - n
  /\ wallet' = [wallet EXCEPT ![u] = @ + n]
  /\ UNCHANGED <<block, tokenOwner>>

WithdrawAll(u) ==
  /\ amount[u] > 0
  /\ UpdatePool
  /\ LET pending == Pending(u, accTokenPerShare')
         amountToTransfer == amount[u] + pending IN
       /\ pending >= 0
       /\ totalAmountStaked >= amount[u]
       /\ totalAmountStaked' = totalAmountStaked - amount[u]
       /\ held + StakingMinted >= amountToTransfer
       /\ held' = held + StakingMinted - amountToTransfer
       /\ wallet' = [wallet EXCEPT ![u] = @ + amountToTransfer]
  /\ amount' = [amount EXCEPT ![u] = 0]
  /\ rewardDebt' = [rewardDebt EXCEPT ![u] = 0]
  /\ UNCHANGED <<block, tokenOwner>>

\* LooksRareToken.mint called by the deployer, who owns the token until the
\* ownership is transferred to the distributor.
DeployerMint(n) ==
  /\ tokenOwner = "deployer"
  /\ totalSupply' = totalSupply + Minted(totalSupply, n)
  /\ UNCHANGED <<block, pool, stakes, tokenOwner, splitterHeld, held, wallet>>

TransferOwnership ==
  /\ tokenOwner = "deployer"
  /\ tokenOwner' = "distributor"
  /\ UNCHANGED <<block, pool, stakes, minting, held, wallet>>

NextBlock ==
  /\ block < MaxBlock
  /\ block' = block + 1
  /\ UNCHANGED <<pool, stakes, tokenOwner, minting, held, wallet>>

Next ==
  \/ NextBlock
  \/ UpdatePoolOnly
  \/ TransferOwnership
  \/ \E n \in DeployerMints : DeployerMint(n)
  \/ \E u \in User :
       \/ HarvestAndCompound(u)
       \/ WithdrawAll(u)
       \/ \E n \in 1..wallet[u] : Deposit(u, n)
       \/ \E n \in 1..amount[u] : Withdraw(u, n)

Spec == Init /\ [][Next]_vars
-----------------------------------------------------------------------------
(* calculatePendingRewards: the view has a loop of its own, over copies of  *)
(* the phase and of the end block, and its own formula for the blocks of a  *)
(* period.                                                                  *)

\* Mutant: the periods already over are not cut to their length.
AdjustedRewardUncut ==
  LET crossed == (currentPhase + 1)..PhaseReached IN
  [q \in 0..LastPeriod |->
     IF q \in crossed
     THEN (block - EndOf(q - 1)) * StakingRate[q]
     ELSE 0]

AdjustedReward ==
  LET crossed == (currentPhase + 1)..PhaseReached IN
  [q \in 0..LastPeriod |->
     IF q \in crossed
     THEN (IF block <= EndOf(q) THEN block - EndOf(q - 1) ELSE Length[q]) * StakingRate[q]
     ELSE 0]

AdjustedTokenPerShare ==
  accTokenPerShare
    + ((Multiplier(lastRewardBlock, block, endBlock) * rewardPerBlockForStaking
          + PartialSum(AdjustedReward, NUMBER_PERIODS)[NUMBER_PERIODS])
       * PRECISION_FACTOR) \div totalAmountStaked

CalculatePendingRewards(u) ==
  Pending(u, IF RewardsDue THEN AdjustedTokenPerShare ELSE accTokenPerShare)
-----------------------------------------------------------------------------
(* Properties *)

\* The type of every variable.
TypeOK ==
  /\ block \in Nat
  /\ accTokenPerShare \in Nat
  /\ currentPhase \in 0..LastPeriod
  /\ endBlock \in Nat
  /\ lastRewardBlock \in Nat
  /\ rewardPerBlockForStaking \in Nat
  /\ rewardPerBlockForOthers \in Nat
  /\ totalAmountStaked \in Nat
  /\ amount \in [User -> Nat]
  /\ rewardDebt \in [User -> Nat]
  /\ tokenOwner \in {"deployer", "distributor"}
  /\ totalSupply \in Nat
  /\ held \in Nat
  /\ splitterHeld \in Nat
  /\ wallet \in [User -> Nat]

\* The divisor of the accumulator is the sum of the stakes: deposits,
\* compounding and both withdrawals adjust the two separately.
StakeAccounted == totalAmountStaked = SumOver(amount, User)

\* No account's debt exceeds what its stake has earned, so the checked
\* subtractions of deposit, harvestAndCompound, withdraw and withdrawAll
\* never revert and the stake is never locked.
DebtCovered == \A u \in User : Pending(u, accTokenPerShare) >= 0

\* No sequence of transactions breaks either, so no stake is ever locked.
StakesSound == StakeAccounted /\ DebtCovered

\* The LOOKS that this contract has minted: those in its hands, the users' and
\* the splitter's, but for what the users held before.
MintedHere == splitterHeld + held + SumOver(wallet, User) - SumOver(InitialWallet, User)

\* The view, which has never heard of the cap, promises exactly what a harvest
\* in the same block would compound, unless the cap refuses it.
PreviewExact ==
  StakingMinted = TokenRewardForStaking =>
    \A u \in User :
      CalculatePendingRewards(u) =
        Pending(u, IF RewardsDue THEN accTokenPerShare + SharePerToken ELSE accTokenPerShare)

PeriodStart(q) == START_BLOCK + Offset[q]

\* The blocks of period q that are over at block b, and the LOOKS the
\* schedule gives out for all of them.
Elapsed(q, b) ==
  IF b <= PeriodStart(q) THEN 0
  ELSE IF b < PeriodStart(q + 1) THEN b - PeriodStart(q) ELSE Length[q]
ScheduledBy(b) ==
  PartialSum([q \in 0..LastPeriod |-> Elapsed(q, b) * (StakingRate[q] + OthersRate[q])],
             NUMBER_PERIODS)[NUMBER_PERIODS]

\* The distributor is an emission that never runs ahead of its schedule,
\* whatever updates were skipped and whichever period boundary passed while
\* the pool was empty.
Emission ==
  INSTANCE EmissionSchedule
    WITH Allowance <- [b \in 0..MaxBlock |-> ScheduledBy(b)],
         supply <- MintedHere

EmissionSpec == Emission!Spec
=============================================================================

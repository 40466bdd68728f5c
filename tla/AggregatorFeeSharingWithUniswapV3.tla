----------------- MODULE AggregatorFeeSharingWithUniswapV3 -----------------
(***************************************************************************)
(* AggregatorFeeSharingWithUniswapV3.sol, composed with FeeSharingSystem:   *)
(* one user of the system is a contract that stakes for users of its own.   *)
(* Its prime shares are those it owns in the system; the shares it issues   *)
(* on them are called secondary here.  Now and then it harvests its WETH,   *)
(* sells it for LOOKS on a market that may refuse, and stakes these.        *)
(*                                                                          *)
(* A transaction calls the system up to three times in one block.  Its      *)
(* first call compounds; the checkpoints and compounding of the later ones  *)
(* find nothing new, so that the calls add up to one step of the system's   *)
(* variables.                                                               *)
(***************************************************************************)
EXTENDS FeeSharingSystem

CONSTANTS
  Aggregator,        \* the account of the contract
  Market,            \* the account of the Uniswap pool
  Direct,            \* users who also stake in the system themselves
  DepositAmounts,    \* LOOKS a staker may deposit at a time
  RedeemAmounts,     \* secondary shares it may redeem, other than all
  AmountsOut,        \* LOOKS for which the WETH may be sold
  MAXIMUM_HARVEST_BUFFER_BLOCKS,
  Buffers,           \* values the owner may set: blocks between two harvests,
  Thresholds,        \*   least WETH to sell,
  MaxPrices,         \*   highest price of LOOKS in WETH, times PRECISION_FACTOR,
  TradingFees        \*   fee tier of the pool

ASSUME AggregatorAssumption ==
  /\ Aggregator \in User
  /\ Market \in User
  /\ Aggregator # Market
  /\ Direct \subseteq User \ {Aggregator, Market}
  /\ DepositAmounts \subseteq Nat
  /\ RedeemAmounts \subseteq Nat
  /\ AmountsOut \subseteq Nat
  /\ MAXIMUM_HARVEST_BUFFER_BLOCKS \in Nat
  /\ Buffers \subseteq Nat
  /\ Thresholds \subseteq Nat
  /\ MaxPrices \subseteq Nat
  /\ TradingFees \subseteq Nat
  /\ InitialWallet[Aggregator] = 0

Staker == User \ {Aggregator, Market}

VARIABLES
  userInfo,             \* secondary shares of each staker
  totalSecondaryShares, \* totalShares
  rewardHeld,           \* WETH held by the aggregator
  lastHarvestBlock,
  canHarvest,
  harvestBufferBlocks,
  thresholdAmount,
  maxPriceLOOKSInWETH,
  tradingFeeUniswapV3,
  paused

ledger         == <<userInfo, totalSecondaryShares>>
settings       == <<canHarvest, harvestBufferBlocks, thresholdAmount,
                    maxPriceLOOKSInWETH, tradingFeeUniswapV3, paused>>
aggregatorVars == <<systemVars, ledger, rewardHeld, lastHarvestBlock, settings>>

AggregatorInit ==
  /\ Init
  /\ userInfo = [u \in Staker |-> 0]
  /\ totalSecondaryShares = 0
  /\ rewardHeld = 0
  /\ lastHarvestBlock = 0
  /\ canHarvest = FALSE
  /\ harvestBufferBlocks = 0
  /\ thresholdAmount = 0
  /\ maxPriceLOOKSInWETH = 0
  /\ tradingFeeUniswapV3 = 3000
  /\ paused = FALSE
-----------------------------------------------------------------------------
(* _harvestAndSellAndCompound, when `due`, with a sale `out`: the LOOKS     *)
(* received, or Unsold when the swap fails or is not tried.                 *)

Unsold == -1

HarvestDue == canHarvest /\ block > lastHarvestBlock + harvestBufferBlocks

\* Whether `try feeSharingSystem.harvest()` succeeds.  A failure is caught.
Harvested(due) == due /\ CalculatePendingRewards(Aggregator) \in 1..weth

AmountToSell(due) ==
  rewardHeld + IF Harvested(due) THEN CalculatePendingRewards(Aggregator) ELSE 0

AmountOutMinimum(amount) ==
  IF maxPriceLOOKSInWETH # 0 THEN (amount * PRECISION_FACTOR) \div maxPriceLOOKSInWETH ELSE 0

\* The outcomes of `try uniswapRouter.exactInputSingle`: it may always fail,
\* and refuses to sell nothing or for less than the minimum.
Sale(due, out) ==
  out # Unsold =>
    /\ due
    /\ AmountToSell(due) # 0
    /\ AmountToSell(due) >= thresholdAmount
    /\ out >= AmountOutMinimum(AmountToSell(due))
    /\ out <= wallet[Market]

\* Mutant: whatever is held is deposited.
AdjustedAmountAny(out) == IF out # Unsold THEN wallet[Aggregator] + out ELSE 0

\* The LOOKS deposited after a sale: all that are held, or none.
AdjustedAmount(out) ==
  IF out # Unsold /\ wallet[Aggregator] + out >= PRECISION_FACTOR
  THEN wallet[Aggregator] + out
  ELSE 0

\* The prime shares they buy.  Buying none reverts the whole transaction.
PrimeBought(out, c) ==
  IF AdjustedAmount(out) = 0 THEN 0 ELSE SharesFor(AdjustedAmount(out), c)

\* What the system holds when the harvest is over.
StakedAfter(out, c) == staked + c + AdjustedAmount(out)
TotalAfter(out, c)  == totalShares + PrimeBought(out, c)
PrimeAfter(out, c)  == shares[Aggregator] + PrimeBought(out, c)

\* The conditions of that deposit, which is not tried but done.
Accepted(out, c) ==
  AdjustedAmount(out) # 0
    => AdjustedAmount(out) >= PRECISION_FACTOR /\ PrimeBought(out, c) # 0

\* Mutant: WETH sent to a sale that fails is not taken back.
HarvestAndSellOnce(due, out, c) ==
  /\ Sale(due, out)
  /\ Accepted(out, c)
  /\ rewardHeld' = IF due /\ AmountToSell(due) >= thresholdAmount THEN 0 ELSE AmountToSell(due)
  /\ lastHarvestBlock' = IF due THEN block ELSE lastHarvestBlock

\* What a harvest does to the aggregator, and whether it lets the
\* transaction go on.
HarvestAndSellAndCompound(due, out, c) ==
  /\ Sale(due, out)
  /\ Accepted(out, c)
  /\ rewardHeld' = IF out # Unsold THEN 0 ELSE AmountToSell(due)
  /\ lastHarvestBlock' = IF due THEN block ELSE lastHarvestBlock

\* LOOKS that leave the market and the aggregator for the stake.
AfterSale(w, out) ==
  IF out = Unsold
  THEN w
  ELSE [w EXCEPT ![Market] = @ - out, ![Aggregator] = @ + out - AdjustedAmount(out)]
-----------------------------------------------------------------------------
\* Mutant: the value is read before the harvest.
TotalAmountStakedBefore(out, c) ==
  IF shares[Aggregator] = 0 THEN 0 ELSE (staked * shares[Aggregator]) \div totalShares

\* What the system says the aggregator's shares are worth after the harvest.
TotalAmountStaked(out, c) ==
  IF PrimeAfter(out, c) = 0
  THEN 0
  ELSE (StakedAfter(out, c) * PrimeAfter(out, c)) \div TotalAfter(out, c)

\* Secondary shares for a deposit of n.
CurrentShares(n, out, c) ==
  IF totalSecondaryShares = 0
  THEN n
  ELSE (n * totalSecondaryShares) \div TotalAmountStaked(out, c)

\* Prime shares for it.
PrimeFor(n, out, c) ==
  IF TotalAfter(out, c) # 0
  THEN (n * TotalAfter(out, c)) \div StakedAfter(out, c)
  ELSE n

AggregatorDeposit(u, n, out, c) ==
  LET due == HarvestDue /\ totalSecondaryShares # 0
  IN
  /\ ~paused
  /\ n >= PRECISION_FACTOR
  /\ n <= wallet[u]
  /\ HarvestAndSellAndCompound(due, out, c)
  /\ Compounded(c)
  /\ totalSecondaryShares # 0 => TotalAmountStaked(out, c) # 0
  /\ CurrentShares(n, out, c) # 0
  /\ PrimeFor(n, out, c) # 0
  /\ UpdateReward(Aggregator)
  /\ Claim(Aggregator, Harvested(due))
  /\ Issue(Aggregator, PrimeBought(out, c) + PrimeFor(n, out, c))
  /\ staked' = StakedAfter(out, c) + n
  /\ wallet' = [AfterSale(wallet, out) EXCEPT ![u] = @ - n]
  /\ userInfo' = [userInfo EXCEPT ![u] = @ + CurrentShares(n, out, c)]
  /\ totalSecondaryShares' = totalSecondaryShares + CurrentShares(n, out, c)
  /\ UNCHANGED <<block, period, settings>>

\* Mutant: the prime shares are read before the harvest.
CurrentNumberPrimeSharesBefore(s, out, c) ==
  (shares[Aggregator] * s) \div totalSecondaryShares

\* Prime shares that s secondary shares redeem.
CurrentNumberPrimeShares(s, out, c) ==
  (PrimeAfter(out, c) * s) \div totalSecondaryShares

AmountToTransfer(s, out, c) ==
  (StakedAfter(out, c) * CurrentNumberPrimeShares(s, out, c)) \div TotalAfter(out, c)

\* The conditions of the calls _withdraw makes.
Redeemable(s, out, c) ==
  /\ CurrentNumberPrimeShares(s, out, c) \in 1..PrimeAfter(out, c)
  /\ AmountToTransfer(s, out, c) \in 1..StakedAfter(out, c)

\* _withdraw
RedeemShares(u, s, out, c) ==
  /\ HarvestAndSellAndCompound(HarvestDue, out, c)
  /\ Compounded(c)
  /\ Redeemable(s, out, c)
  /\ UpdateReward(Aggregator)
  /\ Claim(Aggregator, Harvested(HarvestDue))
  /\ shares' = [shares EXCEPT ![Aggregator] =
                  PrimeAfter(out, c) - CurrentNumberPrimeShares(s, out, c)]
  /\ totalShares' = TotalAfter(out, c) - CurrentNumberPrimeShares(s, out, c)
  /\ staked' = StakedAfter(out, c) - AmountToTransfer(s, out, c)
  /\ wallet' = [AfterSale(wallet, out) EXCEPT ![u] = @ + AmountToTransfer(s, out, c)]
  /\ userInfo' = [userInfo EXCEPT ![u] = @ - s]
  /\ totalSecondaryShares' = totalSecondaryShares - s
  /\ UNCHANGED <<block, period, settings>>

AggregatorWithdraw(u, s, out, c) ==
  /\ s > 0
  /\ s <= userInfo[u]
  /\ RedeemShares(u, s, out, c)

AggregatorWithdrawAll(u, out, c) ==
  /\ userInfo[u] > 0
  /\ RedeemShares(u, userInfo[u], out, c)

\* harvestAndSellAndCompound, called by the owner.  When neither the harvest
\* nor a deposit goes through, the system is left as it was.
OwnerHarvest(out, c) ==
  /\ totalSecondaryShares # 0
  /\ block # lastHarvestBlock
  /\ HarvestAndSellAndCompound(TRUE, out, c)
  /\ IF Harvested(TRUE) \/ AdjustedAmount(out) # 0
     THEN /\ Compounded(c)
          /\ UpdateReward(Aggregator)
          /\ Claim(Aggregator, Harvested(TRUE))
          /\ Issue(Aggregator, PrimeBought(out, c))
          /\ staked' = StakedAfter(out, c)
     ELSE UNCHANGED <<rewardPerTokenStored, lastUpdateBlock, accounts, totalShares, staked, weth>>
  /\ wallet' = AfterSale(wallet, out)
  /\ UNCHANGED <<block, period, ledger, settings>>
-----------------------------------------------------------------------------
(* The owner's settings.                                                    *)

UpdateHarvestBufferBlocks(n) ==
  /\ n <= MAXIMUM_HARVEST_BUFFER_BLOCKS
  /\ harvestBufferBlocks' = n
  /\ UNCHANGED <<canHarvest, thresholdAmount, maxPriceLOOKSInWETH, tradingFeeUniswapV3, paused>>

StartHarvest ==
  /\ canHarvest' = TRUE
  /\ UNCHANGED <<harvestBufferBlocks, thresholdAmount, maxPriceLOOKSInWETH, tradingFeeUniswapV3, paused>>

StopHarvest ==
  /\ canHarvest' = FALSE
  /\ UNCHANGED <<harvestBufferBlocks, thresholdAmount, maxPriceLOOKSInWETH, tradingFeeUniswapV3, paused>>

UpdateMaxPriceOfLOOKSInWETH(price) ==
  /\ maxPriceLOOKSInWETH' = price
  /\ UNCHANGED <<canHarvest, harvestBufferBlocks, thresholdAmount, tradingFeeUniswapV3, paused>>

UpdateTradingFeeUniswapV3(fee) ==
  /\ fee \in {500, 3000, 10000}
  /\ tradingFeeUniswapV3' = fee
  /\ UNCHANGED <<canHarvest, harvestBufferBlocks, thresholdAmount, maxPriceLOOKSInWETH, paused>>

UpdateThresholdAmount(amount) ==
  /\ thresholdAmount' = amount
  /\ UNCHANGED <<canHarvest, harvestBufferBlocks, maxPriceLOOKSInWETH, tradingFeeUniswapV3, paused>>

Pause ==
  /\ ~paused
  /\ paused' = TRUE
  /\ UNCHANGED <<canHarvest, harvestBufferBlocks, thresholdAmount, maxPriceLOOKSInWETH, tradingFeeUniswapV3>>

Unpause ==
  /\ paused
  /\ paused' = FALSE
  /\ UNCHANGED <<canHarvest, harvestBufferBlocks, thresholdAmount, maxPriceLOOKSInWETH, tradingFeeUniswapV3>>

SettingsNext ==
  /\ \/ \E n \in Buffers : UpdateHarvestBufferBlocks(n)
     \/ StartHarvest
     \/ StopHarvest
     \/ \E price \in MaxPrices : UpdateMaxPriceOfLOOKSInWETH(price)
     \/ \E fee \in TradingFees : UpdateTradingFeeUniswapV3(fee)
     \/ \E amount \in Thresholds : UpdateThresholdAmount(amount)
     \/ Pause
     \/ Unpause
  /\ UNCHANGED <<systemVars, ledger, rewardHeld, lastHarvestBlock>>
-----------------------------------------------------------------------------
AggregatorStep ==
  \E out \in AmountsOut \cup {Unsold}, c \in Compounds :
    \/ OwnerHarvest(out, c)
    \/ \E u \in Staker :
         \/ AggregatorWithdrawAll(u, out, c)
         \/ \E n \in DepositAmounts : AggregatorDeposit(u, n, out, c)
         \/ \E s \in RedeemAmounts : AggregatorWithdraw(u, s, out, c)

\* The steps of the system in which the aggregator has no part.
SystemStep ==
  /\ \/ NextBlock
     \/ \E u \in Direct : UserStep(u)
     \/ \E reward \in OwnerRewards, rewardDurationInBlocks \in OwnerDurations :
          FundedUpdateRewards(reward, rewardDurationInBlocks)
  /\ UNCHANGED <<ledger, rewardHeld, lastHarvestBlock, settings>>

AggregatorNext == AggregatorStep \/ SettingsNext \/ SystemStep

AggregatorSpec == AggregatorInit /\ [][AggregatorNext]_aggregatorVars
-----------------------------------------------------------------------------
(* Properties *)

\* The secondary shares are those of the stakers, and there are some exactly
\* as long as there are prime shares behind them: no harvest, rounding or last
\* withdrawal leaves a stake without an owner or shares without a stake.
SecondarySharesBacked ==
  /\ totalSecondaryShares = SumOver(userInfo, Staker)
  /\ totalSecondaryShares = 0 <=> shares[Aggregator] = 0

\* No answer of the market locks a withdrawal: whatever it pays, or if it
\* refuses, whoever owns a prime share can leave with all of it, as long as a
\* LOOKS buys a prime share (otherwise the deposit of what was bought may
\* revert, and the withdrawal with it).
WithdrawalsOpen ==
  \A u \in Staker, out \in AmountsOut \cup {Unsold}, c \in Compounds :
    /\ userInfo[u] > 0
    /\ totalSecondaryShares <= shares[Aggregator] * userInfo[u]
    /\ Sale(HarvestDue, out)
    /\ Compounded(c)
    /\ staked + c <= PRECISION_FACTOR * totalShares
    => Accepted(out, c) /\ Redeemable(userInfo[u], out, c)

\* The WETH the aggregator holds or may claim.
Earned == rewardHeld + CalculatePendingRewards(Aggregator)

\* A harvest that fails, a sale that fails, a withdrawal that does not claim:
\* none of them loses WETH, which only goes when all of it is sold.
EarnedOrSold ==
  [][UNCHANGED <<block, period>> /\ Earned' # Earned
       => Earned' = 0 /\ wallet'[Market] < wallet[Market]]_aggregatorVars

\* Nobody joins or leaves at the others' expense.  The shares issued for a
\* deposit are worth less than one unit more than the deposit, with what the
\* harvest of the same transaction earned counted for the others; and a
\* withdrawal leaves each remaining share as many prime shares as it had.
NobodyElsePays ==
  [][\A u \in Staker :
       /\ userInfo'[u] > userInfo[u]
            => staked' * shares'[Aggregator] * (userInfo'[u] - userInfo[u])
                 < (wallet[u] - wallet'[u] + 1) * totalShares' * totalSecondaryShares'
       /\ userInfo'[u] < userInfo[u]
            => shares'[Aggregator] * totalSecondaryShares
                 >= shares[Aggregator] * totalSecondaryShares']_aggregatorVars
=============================================================================

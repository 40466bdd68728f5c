# Staking contracts in TLA+

TLA+ models of the staking contracts in this repository, the TLC runs that
check them on small instances, and TLAPS proofs of what matters most for every
instance. The repository studies three staking systems; the models follow the
Solidity sources, function by function:

- `src/looksRare/contractsTokenStaking/contracts`: the emission of the LOOKS
  token to stakers, fee sharing on top of it, and the contracts that split,
  vest and distribute LOOKS;
- `src/traderJoe/traderJoeContracts`: thirdweb contracts, of which the staking
  extensions (`extension/Staking*.sol`, `base/Staking*Base.sol`) are studied;
- `src/synthetix/src`: `StakingRewards` of Synthetix.

To run: `tlc -config <cfg> <module>` for a run of the table below, with the module
that `PROJECT.json` names for it (a module `MC*` where the instance needs
definitions, else the specification itself);
`tlapm <module>` for a module of proofs.

## 1. Inventory

Every contract is a monitor. A transaction runs alone, to its end or not at
all: a failing `require`, a checked subtraction or a failing token transfer
undoes it. There are no threads, no messages in flight, no retries. What is
hard is elsewhere: which user, admin or operator calls what, in which order, how
many blocks apart; rewards that accrue without a transaction and are computed
late, across boundaries that passed in the meantime; two contracts that each
keep a clock or a total of the same thing; and integer division, which rounds
against or in favour of somebody every time.

| component | state it keeps | operations | what makes it correct |
|---|---|---|---|
| **TokenDistributor**, LooksRareToken | stake and reward debt per account, total stake, accumulator `accTokenPerShare`, period (`currentPhase`, `endBlock`, two rates), `lastRewardBlock`; supply, owner of the token | deposit, harvestAndCompound, updatePool, withdraw, withdrawAll, the view; mint, transferOwnership | never issues more than the schedule; totals agree with accounts; no stake locked; what is owed is held |
| **TokenDistributorOptimized** | the same under `s_` names | the same, with `unchecked` sums and reordered tests | does what the original does, or reverts |
| **FeeSharingSystem** | shares, accumulator checkpoints and rewards per user, `totalShares`, reward period; its stake in the distributor; WETH | deposit, harvest, withdraw, withdrawAll, updateRewards (owner), views | totals agree; share price never falls; claims are funded; the reward clock locks nobody |
| **FeeSharingSetter** | its own clock of the same period, next duration, fee-only addresses, convertor, fees | updateRewards (operator), convert, add/remove addresses, set duration or convertor, hand over the system | its clock and the system's agree; announces only what it sends |
| **TokenSplitter** | shares and releases per account | releaseTokens, updateSharesOwner, the view | every account's due is always there |
| **OperatorControllerForRewardsV2** | none | releaseTokensAndUpdateRewards | never drops what users accrued; releases all that is due |
| **Staking721**, Staking721Base | list of conditions, stakers' records, three indexes of tokens and stakers; pot of reward tokens | stake, withdraw, claimRewards, setTimeUnit, setRewardsPerUnitTime, deposit/withdrawRewardTokens, getStakeInfo | indexes agree; no second paid twice or lost; no stake locked |
| **Staking1155**, Staking1155Base | default conditions; per token id its own conditions, stakers, indexes; pot of reward tokens | as Staking721 per id, and setDefaultTimeUnit, setDefaultRewardsPerUnitTime | as Staking721, also when an id leaves the defaults |
| **Staking20**, Staking20Base | conditions with a ratio, stakers' amounts, two tokens, each with a balance counted and one held | as Staking721 with amounts, setRewardRatio | stakes are counted as they arrive, and are held; no second paid twice, in whichever decimals |
| **AggregatorFeeSharingWithUniswapV3** | shares over a share of the FeeSharingSystem, WETH not yet sold, block of the last harvest, settings | deposit, withdraw, withdrawAll, harvestAndSellAndCompound, the settings, pause, unpause | nobody pays for another's shares; no earned WETH is lost; no answer of the market locks a withdrawal |
| **MultiRewardsDistributor** | per tree the safe guard, the root and the maximum; amounts claimed per user and tree; roots used; pause and its time | claim, updateTradingRewards (both over arrays), addNewTree, pause, unpause, withdrawTokenRewards | nobody is paid more than one published amount per tree; trees are not mixed up; the owner waits before it takes LOOKS |
| **TradingRewards-, SeasonRewards-, ProtocolFeesDistributor** | Merkle root of every round, maximum of the current one, amounts and rounds claimed per user, roots used, pause, deadline | claim, update of the root, pause, unpause, withdraw; deadline, ETH (ProtocolFees) | a user is paid in all what its last leaf says; the owner waits |
| **VestingContractWithFeeSharing** | maximum and block of the next unlock, number of unlocks | unlockLooksRareToken, withdrawOtherCurrency | the owner gets what a linear schedule gives, no more and no less, whenever the LOOKS arrive |
| **PrivateSaleWithFeeSharing** | phase, terms (costs, price, tiers and their counts), who deposited and withdrew, WETH paid | deposit, harvest, withdraw, the owner's preparation and phases | every participant can be paid; the terms hold; the lock ends |
| **StakingPoolForUniswapV2Tokens** | stake and debt per user, accumulator, rate, end block, pause | deposit, harvest, withdraw, emergencyWithdraw, adminRewardWithdraw, pause, unpause, updateRewardPerBlockAndEndBlock | stakes are held; no debt locks one; no reward beyond the blocks planned |
| Synthetix StakingRewards | period, accumulator, balances | stake, withdraw, getReward, notifyRewardAmount | reward rate funded, balances agree |

How they interact:

- TokenDistributor -> LooksRareToken: `mint`, which reports failure at the cap
  instead of reverting. The token's ownership passes from the deployer to the
  distributor.
- TokenDistributor -> TokenSplitter: the others' part of the emission is minted
  to it.
- FeeSharingSystem -> TokenDistributor: it is one staker of it, for all its users.
- FeeSharingSetter -> FeeSharingSystem: owns it and alone may call
  `updateRewards`, after transferring WETH.
- OperatorController -> TokenSplitter, FeeSharingSetter; reads the clocks of the
  FeeSharingSystem.
- TokenSplitter -> VestingContractWithFeeSharing and others: LOOKS arrive there
  in amounts and at times the receiver does not control.
- Aggregator -> FeeSharingSystem, of which it is one user besides others; ->
  Uniswap, which sells WETH for LOOKS at any price or refuses. It calls the
  system several times in one transaction.
- Staking721 -> an ERC721 collection whose tokens may also move without it.

Behaviours that are hard, by component, are the hazards of `PROJECT.json`; each
names the properties that would catch it.

## 2. Modules

One action is one transaction, with every internal call it makes; its guard is
the conjunction of every condition under which it would revert, so a
transaction that reverts is no step. Names of variables and operators are those
of the code where TLA+ allows. An accumulation in a loop is `PartialSum`, the
total of a mapping `SumOver` (module `Sums`), both without recursion.

| module | models |
|---|---|
| `Sums` | running totals and totals of accounts |
| `Lists` | the arrays the staking extensions filter and shorten |
| `TokenDistributor` | TokenDistributor.sol and the `mint` of LooksRareToken.sol |
| `EmissionSchedule` | abstract: a supply that never exceeds an allowance per block and never falls |
| `TokenDistributorBacking` | TokenDistributor with a count of settlements |
| `TokenDistributorOptimized` | TokenDistributorOptimized.sol, with the width of uints |
| `TokenDistributorRewritten` | TokenDistributor as the abstract specification of TokenDistributorOptimized, which is instantiated over its variables |
| `FeeSharingSystem` | FeeSharingSystem.sol; the distributor as what one compounding adds |
| `AggregatorFeeSharingWithUniswapV3` | the aggregator composed with FeeSharingSystem |
| `FeeSharingSetter` | FeeSharingSetter.sol composed with FeeSharingSystem |
| `TokenSplitter` | TokenSplitter.sol |
| `OperatorControllerForRewardsV2` | the controller composed with splitter, setter and system |
| `RewardPot` | the reward tokens of Staking721Base.sol, Staking1155Base.sol and Staking20Base.sol |
| `Staking721` | Staking721.sol, an abstract contract |
| `Staking721Base` | Staking721Base.sol: Staking721 and its pot |
| `Staking721Accrual` | Staking721Base with a second-by-second account of what is earned |
| `Staking1155` | Staking1155.sol and Staking1155Base.sol, with such an account |
| `Staking20` | Staking20.sol and Staking20Base.sol, with such an account |
| `StakingAmounts` | a behaviour of Staking1155 or of Staking20 |
| `BlockNumber` | the number of the block, for vesting and sale |
| `VestingContractWithFeeSharing` | VestingContractWithFeeSharing.sol |
| `VestingSchedule` | the same, noting which unlocks found too little |
| `PrivateSaleWithFeeSharing` | PrivateSaleWithFeeSharing.sol |
| `StakingPoolForUniswapV2Tokens` | StakingPoolForUniswapV2Tokens.sol |
| `StakingPoolBudget` | the same with an account of rewards planned, credited and paid |
| `MerkleAirdrop` | what the four Merkle distributors share |
| `MultiRewardsDistributor` | MultiRewardsDistributor.sol |
| `RoundsDistributors` | TradingRewards-, SeasonRewards- and ProtocolFeesDistributor.sol |
| `MerkleDistributors` | a behaviour of any one of the four Merkle distributors |
| `SumTheorems` | lemmas on sums, products and quotients |
| `TokenDistributorProofs`, `FeeSharingProofs`, `Staking721Proofs`, `StakingAmountsProofs`, `StakingPoolProofs`, `MerkleProofs`, `SaleAndVestingProofs` | the theorems |
| `MC*` | instances for TLC, where constants are functions or there is symmetry |

Correspondence worth knowing:

- **`TokenDistributor!UpdatePool`** is `_updatePool` with its early returns. The
  `while` loop over period boundaries is not run round by round: `PhaseReached`
  is the period in which its condition first fails, `EndOf` what `endBlock` is
  after so many rounds, `TokenReward` the sum of what the rounds add. Rewards
  use the rates of the period a round enters; the first summand those stored.
  `RewardsDue` negates the early returns; in the last case the code does
  nothing to period or supply but moves `lastRewardBlock`.
- The two `mint` calls happen only when the stakers' reward is not 0, and each
  may fail on its own; the accumulator rises only by what was minted
  (`StakingMinted`).
- **`FeeSharingSystem!UpdateReward`** is `_updateReward`. Its two subtractions
  are conjuncts of the guard. The rewards it stores are
  `CalculatePendingRewards` before the step, which `Claim` pays or keeps in the
  same transaction.
- **`Compounded(c)`**: the reward of `harvestAndCompound` of the distributor is
  any `c` of a constant set, 0 when nothing is staked. It is bounded because
  LOOKS is.
- **`FeeSharingSetter!Renew`** is all `updateRewards` does up to its events:
  transfer to each fee-only address by its LOOKS balance against that and the
  system's stake, transfer of the rest, the call of the system. Roles are who
  may take an action. Handing the system over is irreversible.
- **`OperatorController!TryRelease`** is `try ... catch`: a release that reverts
  leaves the splitter as it was.
- **`Staking721!CalculateRewards`** is the loop over conditions, with the
  silent skip of `tryMul` and `tryAdd`; `Settleable` holds the conditions under
  which the unguarded operations of a settlement do not revert.
- **`VestingContractWithFeeSharing`**: `unlockLooksRareToken` is `UnlockPeriod` while
  periods are left and `UnlockRest` after; the two are exclusive by
  `numberPastUnlocks`, which the code tests in its `require` and again in its `if`.
- **`StakingPoolForUniswapV2Tokens!UpdatePool`** is `_updatePool` with its early
  returns in the condition on `lastRewardBlock`. The divisor is `stakedHeld`, the
  balance of LP tokens, which anyone may raise (`SendStaked`).
- **`PrivateSaleWithFeeSharing`**: `updateSalePhase` is `OpenDeposits` or
  `CloseDeposits` by its argument, every other argument reverts. The two
  flags of a user are sets. ETH comes in by deposits only.
- **`MultiRewardsDistributor`**: a root stands for the set of its leaves, so
  `MerkleProof.verify` is membership. Arrays are sequences; what a round of a
  loop finds is what the rounds before it left (`ClaimedBefore`, `Accepted`). A
  safe guard is an account nobody can act for, as the contract's comment says
  (`address(0)`, `address(1)`), hence it never claims.
- **`RoundsDistributors`**: three contracts in one module; `contract` says which of
  them a behaviour is about, and every difference between them is a condition on it.
- **`AggregatorFeeSharingWithUniswapV3`**: the contract and the Uniswap pool are two
  accounts of `User`. A transaction of the aggregator calls the system up to
  three times (harvest, deposit of what was bought, deposit or withdrawal of
  the user) in one block. The first call compounds and checkpoints, the others
  find nothing new in the same block, so the calls add up to one step:
  `StakedAfter`, `TotalAfter` and `PrimeAfter` are what the system holds between the
  second and the third. The swap is external: it fails, or gives any amount
  not below the minimum. `harvest` of the system is tried, and so is the swap; the
  deposit between is not.
- **`Staking1155`**: the records of different ids never meet, apart from the
  defaults and the pot. `uint64` amounts keep their values. The collection
  refuses transfers that are not a stake (`onERC1155Received`), so `holding`
  changes with stakes only.
- **`Staking20`**: stakes and rewards are two ERC20 tokens. The constructor asks each
  for its decimals (Staking20Base.sol:65-66), which the placeholder for the native
  token cannot answer, and refuses one token for both (:72). So there are two
  pairs of a balance held and one counted: `heldStakes` with `stakingTokenBalance`,
  and those of `RewardPot`, which is the code of the two other contracts; the test
  Staking20Base adds to it (:159-162) looks at the stakes, which the withdrawal does
  not move. A token may keep a fee of a transfer: `Received[n]` arrives of `n`, and
  `ActualAmount` is what Staking20.sol:201-207 measures. Of a withdrawal the
  contract gives up all, of which the user gets `Received`.
- **`Staking721Accrual`, `Staking1155!owed`, `Staking20!owed`**: SCALE is a common multiple of
  the time units (in Staking20, of their products with the denominators), so
  that what a second earns is a whole number.
- A module for several contracts (`MerkleDistributors`, `StakingAmounts`) chooses one of
  them in `Init`; the others do not move in that behaviour.
- External, and marked so in the map: `block.number`, `block.timestamp`, the
  arrival of fees and of LOOKS, the reward convertor, ERC721 and ERC20
  transfers made by others. ERC20 allowances are not modelled; a transfer needs
  the balance.

Left out: events, gas, role administration, metadata, and reentrancy. The
receiver hooks of ERC721 and ERC1155 and transfers of the native token do reach
contracts of the caller's choosing, but the functions they could come back to are
`nonReentrant`; the models leave out hook and guard together.

## 3. Runs

| run | instance | checks |
|---|---|---|
| `td_emission` | 2 users with 2 coins; periods of 2, 1, 1 blocks, the middle one with rate 0 for stakers; blocks up to 6, so up to 2 past the end; up to 4 settlements; a deployer who may mint beforehand, so that the cap bites | `StakesSound`, `PreviewExact`, `BackedUpToRounding`, refinement `EmissionSpec` |
| `td_optimized` | 2 users, largest uint 14, the supply cap 10: sums and products may overflow | `SamePreview`, refinement `ImplementsOriginal` |
| `aggregator` | a user of the system who may also stake through the aggregator, one who only does the latter; LOOKS of 2 units, 2 on the market; compounding of 0 or 1; a reward period of 2 blocks that starts at any of 3 and may be followed by another | `SharesSound`, `NoCheckpointReverts`, `SharePriceNeverFalls` of the system; `SecondarySharesBacked`, `WithdrawalsOpen`, `EarnedOrSold`, `NobodyElsePays` |
| `fs_setter` | a staker and a holder too small to stake, either may be fee-only; durations 1 and 2; fees of 1 or 2 | `ClocksAgree`, `ClaimsFunded` |
| `operator` | a user who may stake and one too small to, one duration; the splitter shared evenly by two accounts, a third to pass shares to, 2 LOOKS in ones or at once | `ReleasesCovered`, `DueKept`, `AccrualKept`, `AllReleased`, `RenewalReached` (liveness) |
| `staking721` | 2 users with a token each, tokens may change hands; up to 3 conditions, a time unit of 2 that may become 1, rates 0 and 1, 3 seconds; a pot of 1 | `IndexesAgree`, `AlwaysSettleable`, `NeverOverpaid`, `LossBounded` |
| `staking_amounts` | one id, 2 users; up to 3 conditions, the defaults' included, 3 seconds; and Staking20 with 2 conditions, 2 staking tokens each, of which 1 of 2 is kept as a fee, and a staking token of more decimals than the reward token | `SettleableAcrossDefaults`, `RewardsEarned`, `StakesAccounted` |
| `vesting` | 4 periods of 2 blocks, 2 LOOKS each; LOOKS arrive by 1 or 3 at any time | `OnSchedule`, `ScheduleMet`, `AllUnlocked` (liveness) |
| `lp_pool` | 2 users with 2 LP tokens, precision 3; rewards from block 1 to 2 and planned anew up to block 4; 4 settlements; an owner that plans in time (`TimelySpec`) | `StakesSound`, `PaidOutOfCredited`, `CreditedWithinGrant`, `ShownRewardKept` |
| `lp_pool_replan` | one block more, an owner that plans at any time (`BudgetSpec`) | violation of `CreditedWithinGrant` (section 6) |
| `private_sale` | 3 users, 2 tiers, costs and prices 1 or 2, a sale of 4 LOOKS, up to 4 WETH | `LooksCovered`, `RewardsCovered` |
| `merkle` | 2 users, 2 trees, 2 roots made for each, one of which lowers an amount; arrays of up to 2 entries; 2 tokens to claim or take back; or up to 3 rounds of any of the other three distributors | `ClaimsPublished`, `TreesApart`, `PaidInAll`, `AdminWaits` |

What they show, beyond the comments of the properties:

- `td_emission`: an update may come at any distance from the last; in 6 blocks
  it can cross no, one or both boundaries, in the first, a silent or the last
  period, with or without stakes at the boundary. What the distributor has
  minted (`MintedHere`) is the supply of an `EmissionSchedule` whose allowance at
  a block is what the rates of all periods give by then. It may stay behind
  (blocks without stakes, or without reward for stakers, mint nothing) but never
  ahead. Where the deployer has minted before, the cap refuses the last rewards,
  and `BackedUpToRounding` holds all the same.
  Without its allowance for rounding it does not: a reward debt is rounded
  down at every settlement, so the account may be paid a fraction below one
  unit (10^-18 LOOKS) that was never minted for it. What is owed exceeds what
  is held by less than one unit per settlement; the bound is exact enough to
  fail when the accumulator rises by a refused mint.
- `td_optimized`: an `unchecked` sum never wraps in a transaction that commits,
  because the checked product or the transfer next to it reverts first, or
  because no stake exceeds the supply.
- `fs_setter`: `ClaimsFunded` relates every user's claim and the rest of the
  period to the WETH held, at every block of periods that the setter renews in
  turn and its successor lets overlap. It is a property of the system, checked
  where the setter decides what is announced and what is sent.
- `operator`: `AccrualKept` is about the guard `canRelease`. `updateRewards` of
  the system moves its clock without storing the accumulator, so what accrued
  since the last checkpoint is lost unless that checkpoint was at the end block.
  The controller checks that; an operator calling the setter directly is not
  held back, so the property is stated for the composed system in which the
  controller has the operator role. The splitter runs along: accounts release
  for themselves, LOOKS arrive and shares are passed on between any two
  transactions of the controller.
- `operator`, `RenewalReached`: the controller waits for a checkpoint exactly at the end
  block and cannot make one itself. Because a checkpoint stops there, any
  transaction of any user, however late, satisfies it; without one the fees of
  a period wait for ever, which is what the fairness of the run rules out.
- `aggregator`: two layers of shares, each rounding for itself. Who deposits gets
  shares worth less than one unit more than it paid although the same
  transaction may harvest, sell and stake for the others; WETH is nowhere lost
  when the harvest or the sale fails; and an answer of the market never locks
  a withdrawal as long as a LOOKS buys a share of the system.
- `staking721`, `staking_amounts`: rewards computed late over several conditions never
  exceed those counted second by second, and in Staking721 fall behind them by
  no more than the remainder of each division. In Staking1155 this holds for
  ids that leave the defaults at any time, whose stakers carry a condition
  number of the defaults into the copied list. In Staking20 it holds across
  both divisions, by the time unit and the denominator, and the conversion between
  the decimals of the tokens; and what is counted as staked is what arrived, so
  that the contract holds it although the token keeps a fee and tokens are sent
  without a stake.
- `vesting`: what was unlocked and the next maximum together never fall behind
  the linear schedule, and meet it exactly unless two unlocks in a row found too little.
- `lp_pool`: rewards credited stay within those of the blocks that passed
  before the end block of their time, if the owner plans the next rewards
  before anyone has updated the pool past the end of the last. Payments stay
  within what was credited up to one unit per settlement, also when tokens
  were sent by mistake or users left in an emergency and came back.
- `private_sale`: the risk checks at the opening are enough for every
  participant to get its LOOKS, whoever stays away, after the owner took the
  surplus; and the rounding of WETH shares never makes a withdrawal revert.
- `vesting`, `AllUnlocked`: no LOOKS stay for good, whenever they came.
- `merkle`: however rounds are skipped, amounts lowered and roots published again, a
  user's payments add up to its last leaf (`PaidByLastClaim`) or to what is noted
  tree by tree (`PaidAsNoted`). `AdminWaits` excepts ProtocolFeesDistributor, which
  has no buffer. `TreesApart` needs that a root has the leaf of one safe guard
  only, as the roots of the instance do, and that no two trees share a guard,
  which `addNewTree` sees to.

Bounds. Amounts are small, so that one rounding is a large part of them and
every effect of rounding shows early; two users are enough for one to gain at
the other's expense; three periods or conditions are enough for a first, a
skipped and a last one. Symmetry is declared over users where the states
are many, the instance treats them alike and no property is liveness; in `staking721` the pairs of a user
and its token are exchanged together (`Swap`). `MaxBlock`, `MaxTime`,
`LOOKS_SUPPLY`, `WETH_SUPPLY`, `MaxReceived`, `MaxConditions`, `MaxConditions20`, `MaxHeld`,
`MaxSettlements`, `MaxLooks`, `MaxWeth`, `MaxOther`, `MaxTrees`, `MaxList`, `MaxRounds` bound the
state space; each is a guard of the environment's or the admin's action, or
of an arrival. `ctorTimeUnit`, `ctorAccounts` and the like are arguments of constructors. In
the runs `staking721` and `staking_amounts` time may end with nothing left to do, and
deadlock is not checked; in the others some transaction is always possible.
The settings of the aggregator that only make a sale refuse more often
(threshold, minimum, fee tier) take one value each: a sale may fail anyway.

Fairness. A contract takes no step of its own, so liveness is claimed only where
somebody has a reason to call:

- `operator`: blocks pass; the controller is called as long as a call succeeds (its
  operator is a service that does nothing else); and once a period is over,
  some user transacts as long as one can (users harvest to be paid). Each is
  weak fairness of one action. `MaxBlock` leaves room for a renewal after the end.
- `vesting`: blocks pass, and the owner, whose LOOKS they are, unlocks.

Elsewhere what would be a liveness property ("a user can always withdraw") is
stated as safety: the guard that could revert never does (`StakesSound`,
`NoCheckpointReverts`, `SharesSound`, `AlwaysSettleable`, `SettleableAcrossDefaults`,
`WithdrawalsOpen`, `ReleasesCovered`).

## 4. Proofs

Every theorem below is about the specification that a run checks (without its
fairness) and holds for every value of the constants that satisfy the named
assumptions. They come by one pattern: an invariant stronger than the property,
`Init` implies it, a lemma per transaction that it is kept, and that it implies
the property.

`TokenDistributorProofs`, from the requirements of the constructor
(`ConstructorRequires`: period lengths and rates are naturals, the emission of
all periods is what the premint leaves of the cap, and not 0) and a finite set of users:

- **`TypeCorrect`**: `Spec => [](TypeOK /\ ScheduleInv)`. `TypeOK` is not
  inductive: that a reward is a natural needs that `endBlock` is the end of
  `currentPhase` and that the stored rates are its rates (`ScheduleInv`). `LoopExit`
  shows that the loop ends, in a period that is not over or is the last, having
  passed only periods that are over; the multiplier of each is therefore not
  negative (`RewardNat`), across any number of periods.
- **`StakesSafe`**: `Spec => []StakesSound`, the totals and the debts. The totals follow
  by changing one summand (`SumUpdate`). A settlement sets the debt to the
  rounded product with the present accumulator; the accumulator only grows and
  division is monotone, so the difference stays non-negative.
- **`PreviewSafe`**: `Spec => []PreviewExact`. The view runs a loop of its own over the
  periods; it is shown to add up the same summands as the update would, unless the
  cap refuses the mint, which the view does not look at.
- **`StakesBacked`**: `BackingSpec => []BackedUpToRounding`. Inductive with the types and
  the settlement count. A mint adds its whole amount to what is held and,
  rounded down, to what is owed; a settlement forgets less than one unit.
- **`EmissionImplemented`**: `Spec => EmissionSpec`, the refinement of `EmissionSchedule`
  (initial states to initial states, every step to a step or a stutter). Added are
  that an update is never late for its period (`UpdatedInTime`) and that what was minted is
  at most what the blocks up to the last update are worth, each at the rate of
  its own period (`NothingPaidTwice`, a telescoping sum over the periods the loop passes).
- **`OptimizedImplements`**: `OptimizedSpec => ImplementsOriginal`, the refinement of
  `TokenDistributor` by `TokenDistributorOptimized`, for every uint that holds the
  supply cap, the block numbers and the number of periods (`UintAssumption`). The two have
  the same variables but for names, so the optimized module is instantiated
  under the original's (`TokenDistributorRewritten`). `LoopEnds` shows by
  induction that its loop, which the module runs round by round, ends
  in the period and with the rewards that the original names at once
  (`PhaseReached`, `TokenReward`); `CompoundFits` that the unchecked sum of a
  harvest does not wrap, because a stake is at most the total, which is checked.
- **`OptimizedPreviewSafe`**: its view agrees with the original's. The view adds up the
  end blocks unchecked, so this needs `ScheduleFits`, that the last period ends at a
  uint; without it the view of a schedule whose end wraps is wrong, while
  the transactions revert.

`FeeSharingProofs`, from `FeeSharingAssumption` (finite set of users, naturals, a
positive precision):

- **`SharesSafe`**: `Spec => [](TypeOK /\ SharesSound)`. The
  three together are inductive: the bound on the shares issued for a deposit
  (`IssueBounds`) needs that a share is worth at least one LOOKS, the bound on
  what a withdrawal takes out (`PayoutBounds`) that one user's shares are at
  most the total, which is that they are accounted for.
- **`CheckpointsSafe`**: `Spec => []NoCheckpointReverts`, from the types: a
  checkpoint moves the clock to where the rewards end and never lowers the
  accumulator; a new period starts at the present block.
- **`PriceSafe`**: `Spec => SharePriceNeverFalls`, an action property, from the same
  invariant: rounding down the shares issued or the LOOKS paid leaves every
  other share as much as it had (`IssueKeepsPrice`, `PayoutKeepsPrice`).
- **`PreviewKept`**: `Spec => ValuePreviewed`, which no run checks: whoever redeems
  everything gets what `calculateSharesValueInLOOKS` shows with the reward that
  the same transaction compounds.
- **`ClaimsSafe`**: `Spec => []ClaimsFunded`. `ClaimsFunded` speaks of what the next
  checkpoint would store and is not inductive: the invariant (`StoredFunded`) speaks of what
  is stored, multiplied out so that nothing is rounded, and of the whole rest of
  the period from the last checkpoint on. A checkpoint (`CheckpointClaims`) moves reward from the
  rest of the period to the users and never more than it takes.

`FeeSharingProofs` on the aggregator, from `AggregatorAssumption` and `FeeSharingAssumption`:

- **`SecondarySafe`**: `AggregatorSpec => [](SharesSound /\ NoCheckpointReverts /\ SecondarySharesBacked)`.
  The invariant is that of the system (`SharesInv`), the types of the ledger and
  `SecondarySharesBacked`. `HarvestTotals` gives the bounds on what the system holds in
  the middle of a transaction, from which the last redemption is seen to take
  the last prime share and no other to take more than there is.
- **`DepositsFair`**: `AggregatorSpec => NobodyElsePays`. A deposit is rounded three times:
  the value of the stake, the secondary and the prime shares. `IssuedWorth`
  bounds what a rounded issue is worth, `HoldingAfter` and `HoldingBelow` what
  the holding is after it; the bound is below one unit more than was paid.
- **`NeverLocked`**: `AggregatorSpec => []WithdrawalsOpen`, from the same invariant. Its
  condition that a LOOKS buys a share is needed (section 6).
- **`NothingForgotten`**: `AggregatorSpec => EarnedOrSold`, an action property, from that
  invariant and the one of `ClaimsSafe`. It has two hypotheses on the constants:
  a sale never gives 0 LOOKS, and no period has less reward than blocks. Without the first a
  sale could take WETH for nothing, and the property, which recognises a sale by
  the market's LOOKS, would not see it; without the second a renewal may be
  one at rate 0 that looks like none. The instances satisfy both.

`FeeSharingProofs` on splitter, setter and controller, from `SplitterAssumption`, `OperatorAssumption`, `SetterAssumption` and
`FeeSharingAssumption`:

- **`SplitterCovered`**: `OperatorSpec => []ReleasesCovered`. The invariant is that the
  shares are at most the constructor's total (`ConstructedShares`; less if an
  account is listed twice), that the total released is the sum of the releases, and
  that no account was sent more than its part of all receipts. The parts,
  each rounded down, then add up to at most the receipts (`DueIsHeld`).
- **`SplitterFair`**: `OperatorSpec => DueKept`, from the same invariant, step by step.
- **`EveryRelease`**: `OperatorSpec => AllReleased`. A release can only revert because
  nothing is due: what one account is due is never more than what is held
  (`OneIsHeld`), whatever the two releases before it took.
- **`ClocksTogether`**: `SetterSpec => [](SetterTypeOK /\ ClocksAgree)`. A renewal sets both
  clocks from the same duration, and nobody else may renew while the setter owns the system.
- **`ClaimsFundedBySetter`**: `SetterSpec => []ClaimsFunded`. `ClaimsSafe` lets the system's owner
  announce a reward only with the WETH for it; here that is shown of the setter, whose
  transfers to the fee-only addresses, each rounded down, add up to at most what
  it took (`Renew`), so that what it announces is what it sent.
- **`NothingDropped`**: `OperatorSpec => AccrualKept`. What `canRelease` tests, the last
  checkpoint at the end of the period, makes the renewal a checkpoint that finds nothing to add.

`Staking721Proofs`, from `StakingAssumption`, `BaseAssumption` and `ScaleAssumption`:

- **`StakesListed`**: `AccrualSpec => []IndexesAgree`. Inductive (`ListsInv`) with the types of
  the indexes, that a token is indexed once and that every staked token is
  indexed and with the contract. `FilteredSet` and `SwapPopSet` (`SumTheorems`) say what
  the filter of `getStakeInfo` and the removal of a staker leave of an array.
- **`NoneOverpaid`**: `AccrualSpec => []NeverOverpaid`. The invariant of the clock
  (`TimesInv`) is that the conditions follow one another without a gap, each ending where the
  next begins and the last being open, and that no record is ahead of the
  condition it names. `Earned` is then what a settlement should give: the same
  sum over conditions, scaled by SCALE and thus not rounded. It grows by
  `PerSecond` when a second passes (`TickEarns`), stays when a condition is
  superseded (`SupersededEarns`: one summand is split in two) and is 0 after a
  settlement. The invariant of the account (`OwedInv`) is that what is settled,
  scaled, and `Earned` are together at most what is owed; a division or an overflow
  only lowers what is settled.
- **`NoneLocked`**: `RewardsFit => (AccrualSpec => []AlwaysSettleable)`. Nothing in the contract
  bounds the rewards an owner may set; with 2^255 a second, a settlement
  overflows. `RewardsFit` is the bound: the time of the model, times the number
  of tokens, times the highest reward fits a word. From it, what is owed
  is at most what all tokens earn in the time passed (`FitInv`), so nothing
  a settlement adds up overflows or is skipped (`Exact`).
- **`NoneLost`**: `RewardsFit => (AccrualSpec => []LossBounded)`. An overflow would skip a whole
  condition, hence the same hypothesis. A division loses less than one unit and
  is counted (`LossInv`, `SettlementLoss`).

`StakingAmountsProofs`, from `Staking1155Assumption`, `Staking20Assumption` and `PotAssumption`.
The argument about Staking1155 is that of `Staking721Proofs`, once for every pair of
an id and a user; but an id may leave the defaults, and the list its records
refer to is then another variable. The first part of the module therefore
speaks of any list, record and time (`Chained`, `Recorded`, `Earned`), and a step of
the contract changes one of them. What the first own condition of an id does is then
nothing special: the list the id earns under, a copy of the defaults, is followed
by one more condition, exactly as when the owner supersedes the defaults
themselves or a list the id has already (`Followed`).

- **`NonePaidTwice`**: `Spec => []RewardsEarned`. The invariant for Staking1155 (`TimesInv`) is
  that the defaults and every id's list have no gap, and that each account covers its
  record (`Covered`): the record is in range of the list and not ahead of its condition,
  and what is settled, scaled, together with what was earned since is at most
  what is owed. `Covered` survives a second (`CoveredTick`), a condition that follows
  (`CoveredFollowed`), a settlement (`CoveredMarked`) and a claim (`CoveredPaid`).
  A condition of Staking20 stands for one whose only divisor is the product of time
  unit and denominator (`Single`), because two divisions in turn are one by the product
  (`QuotientTwice`). With that its list, records and time are those of the first part
  (`Meanings20`), and `Times20Inv` says the same of them. `Covered20` has the rewards in
  the other token's decimals, which the conversion rounds down (`ConvertedBound`).
- **`NoneLockedAcrossDefaults`**: `RewardsFit => (Spec => []SettleableAcrossDefaults)`. As for
  Staking721 no condition of the contract bounds the rates, so this has a hypothesis: for every id and
  user, the time of the model times the initial holding times the highest rate fits
  a word. That amounts stay within the initial holdings is part of `RecordsInv`; that what
  is owed stays within what they earn is `FitInv`, from the bound that each step
  puts on the growth of an account (`OwedGrows`).
- **`NoneUnaccounted`**: `Spec => []StakesAccounted`. `RecordsInv` and `Records20Inv` relate list
  and records, one lemma per transaction. `Records20Inv` adds that the amounts of the
  records sum up to the number kept (`Records20Change`, from `SumUpdate`), which is at most
  the balance: a stake adds what arrived to both. That a first stake counts
  something, so that whoever is listed has a stake, is the assumption that a token
  keeps less than all (section 6).

`StakingPoolProofs`, from `PoolAssumption`:

- **`PoolStakesSafe`**: `PoolSpec => [](PoolTypeOK /\ StakesSound)`. Inductive are the
  types, the sum of the stakes within the balance (`StakesHeld`) and the debts
  below what was earned with the stored accumulator (`DebtCovered`); the view
  uses an accumulator that is not smaller (`AdjustedGrows`).
- **`PaidOnce`**: `BudgetSpec => []PaidOutOfCredited`, inductive with the above. An update
  raises what is owed by at most what it credits, the divisor being the balance, which
  covers the stakes; a settlement forgets less than one unit.
- **`GrantHeld`**: `TimelySpec => []CreditedWithinGrant`. Added is that no update is credited
  before `START_BLOCK`, and that what is due since the last update (`Due`) fits into the grant
  together with what was credited. `TimelySpec` is the specification of the run
  `lp_pool`; without its condition the property is false (`lp_pool_replan`).
- **`ShownKept`**: `PoolSpec => ShownRewardKept`, an action property: the accumulator a view
  would use never falls, whoever updates, because an update stores that very one.

`MerkleProofs`, from `AirdropAssumption` and `DistributorAssumption`:

- **`PaidOnce`**: `RoundsSpec => []PaidByLastClaim`, the part of `PaidInAll` about the
  contracts with rounds; inductive with the types alone.
- **`PaidAsPublished`**: `Spec => []PaidInAll` for any of the four distributors.
  Added to `PaidOnce` is what MultiRewardsDistributor keeps per tree: a claim
  transfers the sum of the differences it notes (`TransferIsNoted`, an induction over the
  rounds of its loop).
- **`OwnerWaits`**: `Spec => AdminWaits`, an action property. The invariant is that while a
  contract is paused no claim is later than its last pause.
- **`OnlyPublished`**: `DistributorSpec => []ClaimsPublished`. Added is that the root and
  the maximum in force are a published pair (`CurrentPublished`). What a list of
  claims leaves is the amount of its last round for a tree (`ClaimedAfterOne`).
- **`TreesKeptApart`**: `GuardsApart` implies `DistributorSpec => []TreesApart`. Added is
  that guards differ and that every published root has the leaf of its own
  tree's guard (`GuardsHold`). `GuardsApart`, no root with the leaf of two
  guards, is what the operator must see to, and what the contract cannot check.

`SaleAndVestingProofs`, from `SaleAssumption` and `VestingAssumption` (a finite set of
users, and naturals):

- **`LooksSafe`**: `SaleSpec => []LooksCovered`. While the sale is pending the counts of
  the tiers stay those of the list (`PreparationCounted`), so the check at the opening, made per tier,
  is one per user (`CostByTier`, by induction over the users; `OpeningChecked`). From there on
  the invariant keeps it exact until the surplus is taken out, and what that
  leaves is what the depositors committed (`CommittedWithin`, `SurplusLeft`).
- **`RewardsSafe`**: `SaleSpec => []RewardsCovered`. Invariant: the total distributed is the sum of
  what the users got, and nobody got more than its share of all that has arrived,
  nobody anything before the sale was over or without a deposit. The shares of
  all depositors add up to at most what arrived (`SharesWithin`), and what arrives only
  raises them (`SharesGrow`).
- **`VestingSafe`**: `VestingSpec => [](VestingTypeOK /\ OnSchedule)`.
  Inductive with two more facts: the next block for an unlock is the start and
  one period length per unlock made and one more, and the maximum is never
  below the standard amount. `UnlockMakesUp` is the heart: what an unlock sends
  and the maximum it leaves make up for its own maximum and one standard amount.
- **`ScheduleKept`**: `ScheduleSpec => []ScheduleMet`. With no two short unlocks in a row, what was
  unlocked and the next maximum are together exactly the linear schedule.

`SumTheorems` proves what `PartialSum` and `SumOver` are from their definitions:
induction over the naturals is derived there from facts on finite sets
(`SetInduction`), because the library's induction theorem takes a predicate as
a parameter; from it follows induction over the parts of a finite set
(`FiniteInduction`), which gives the facts on totals of several mappings. Its first
part collects facts on products and quotients of unknowns, which the SMT solver
does not find alone.

Only model-checked: the two liveness properties (`RenewalReached`, `AllUnlocked`),
which are beyond the prover. Every other property of a passing run is proved. Proved
under a hypothesis are `NoneLocked`, `NoneLost` and `NoneLockedAcrossDefaults` (`RewardsFit`),
`NothingForgotten` and `TreesKeptApart`; the instances of the runs satisfy
each. `CreditedWithinGrant` is proved under the condition of its run.

## 5. Not modelled

- Views that loop over another view: `canClaim` of MultiRewardsDistributor,
  `getStakeInfo` of Staking1155 for all ids.
- ERC20 allowances and the two functions that raise them; role administration;
  the Blast precompiles that ProtocolFeesDistributor configures.
- The branches of Staking20.sol for the native token, which Staking20Base cannot be
  deployed with (section 2); TokenStake.sol:69-74, which is not one of the base
  contracts, makes the exception for its decimals.
- The `uint64` and `uint80` casts of the staking extensions.
- Synthetix: the file does not compile as it stands. `Owned`'s constructor is given its
  argument twice, a function that is not virtual is overridden and one declared in the
  interface is missing. What it does at run time is not defined until that is settled.
- The rest of the thirdweb contracts, the libraries under `lib/`, tests,
  configuration and assets. Most files of the repository are such libraries; among
  them is all of its Go code (chainlink's node and contract wrappers), which no
  contract here uses and which is not part of the three systems.

## 6. Findings and notes

- The comment of `_updatePool` (TokenDistributor.sol:360) says `lastRewardBlock`
  is updated "only if it wasn't updated after or at the end block"; the test is
  `<=`, so at exactly the end block it is updated once more. No reward depends on it.
- The comment of `canRelease` says the last checkpoint "is greater than" the end block; the code tests that they are equal. Since a
  checkpoint stops at the end block, the comment describes a case that never
  happens, and `AccrualKept` needs the test as it is written.
- Vesting: an unlock that finds too little sets the next maximum to
  itself plus what is missing; after two such unlocks in a row the amount
  missing from the first is in it twice, and once LOOKS have arrived the owner
  is ahead of "a linear schedule". `ScheduleMet` shows that without two such
  unlocks in a row it never is. The sum of all that arrives still bounds it.
- `lp_pool_replan`: an update past the end block freezes `lastRewardBlock`; a
  later end block then rewards the blocks since that update, which lay after
  the end ("Block number when rewards end"). If nobody updates past the end,
  those blocks are not rewarded, so the two cases differ by an accident.
- PrivateSale: the comment of `whitelistUsers` says "It updates the sale phase to
  staking phase", which it does not. WETH that arrives after a participant
  withdrew is divided by all that was committed, so the leaver's part stays.
- The constructor's budget counts the others' reward of every block, but in a
  span in which the stakers' reward is 0 no mint happens at all, so that part
  is never minted. `EmissionSpec` allows it.
- TokenSplitter's constructor accepts an account twice; it keeps the last
  shares only, and the rest of `TOTAL_SHARES` is never released. The instances
  list each account once.
- The constructor of TokenDistributor checks the number of the stakers' rates
  twice and that of the others' rates not at all; the model takes as many of
  each, as an array that is too short reverts in its loop.
- Aggregator: the comments say that LOOKS bought are deposited "if possible"
  (:149, :299), but the deposit at :314 is not tried. If a LOOKS bought less than
  one share of the system, it would revert the withdrawal it lies on the way
  of. `WithdrawalsOpen` therefore needs `staked + c <= PRECISION_FACTOR * totalShares`:
  a unit of the system's shares is worth no more than a whole LOOKS, that is
  10^18 times its first price.
- Staking20: where a token takes its whole amount as a fee, a first stake of 0 would
  be recorded, and the user listed again with the next.
- TradingRewardsDistributor and MultiRewardsDistributor are paused by their constructors
  without noting a time, so before the first unpause the owner may take LOOKS
  back as soon as the chain's clock exceeds the buffer, that is at once. Nobody
  can have claimed by then, and `AdminWaits` holds.
- The setter splits fees by the stake of the system before its pending reward
  is compounded, so the system gets slightly less than its part.

## 7. Plan

1. *Emission, fee sharing, aggregator, operator* (done, every safety property proved).
2. *LP pool, vesting, private sale, airdrops* (done, every safety property proved).
3. *Staking extensions* (done, every safety property proved).
4. *Synthetix*: rewardPerToken and notifyRewardAmount as written, against the
   formulas of their comments and tests, once it is clear what compiles.

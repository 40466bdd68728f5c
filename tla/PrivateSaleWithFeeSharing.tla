---------------------- MODULE PrivateSaleWithFeeSharing ----------------------
(***************************************************************************)
(* PrivateSaleWithFeeSharing.sol: users on a list of tiers commit ETH for   *)
(* LOOKS they get after a lock, and share the WETH that comes in meanwhile  *)
(* in the proportion of what they committed.  The sale goes through five    *)
(* phases, most of them opened by the owner, the last by anyone.            *)
(***************************************************************************)
EXTENDS BlockNumber, Sums

CONSTANTS
  User,
  NUMBER_TIERS,
  MAX_BLOCK_FOR_WITHDRAWAL,
  TOTAL_LOOKS_DISTRIBUTED,
  Costs,             \* the costs, in ETH, the owner may set for a tier
  Prices,            \* the prices of ETH in LOOKS the owner may set
  LooksReceipts,     \* amounts in which LOOKS arrive
  WethReceipts,      \* amounts in which WETH arrives
  MaxLooks,          \* bound on the LOOKS that arrive
  MaxWeth            \* bound on the WETH that arrives

Tier == 1..NUMBER_TIERS

ASSUME SaleAssumption ==
  /\ IsFiniteSet(User)
  /\ NUMBER_TIERS \in Nat
  /\ MAX_BLOCK_FOR_WITHDRAWAL \in Nat \ {0}
  /\ TOTAL_LOOKS_DISTRIBUTED \in Nat
  /\ Costs \subseteq Nat
  /\ Prices \subseteq Nat
  /\ LooksReceipts \subseteq Nat
  /\ WethReceipts \subseteq Nat
  /\ MaxLooks \in Nat
  /\ MaxWeth \in Nat
  /\ MaxBlock \in Nat

VARIABLES
  currentPhase,
  blockForWithdrawal,
  priceOfETHInLOOKS,
  totalAmountCommitted,
  totalRewardTokensDistributedToStakers,
  allocationCostPerTier,
  numberOfParticipantsForATier,
  tier,                          \* userInfo[u].tier
  hasDeposited,                  \* the users whose userInfo[u].hasDeposited is set
  hasWithdrawn,                  \* the users whose userInfo[u].hasWithdrawn is set
  rewardsDistributedToAccount,   \* userInfo[u].rewardsDistributedToAccount
  eth,                           \* ETH held by the contract
  looks,                         \* LOOKS it holds
  weth                           \* WETH it holds

terms   == <<priceOfETHInLOOKS, allocationCostPerTier, numberOfParticipantsForATier, tier>>
sale    == <<totalAmountCommitted, hasDeposited, eth>>
rewards == <<totalRewardTokensDistributedToStakers, rewardsDistributedToAccount, weth>>
saleVars ==
  <<block, currentPhase, blockForWithdrawal, terms, sale, rewards, hasWithdrawn, looks>>

SaleInit ==
  /\ block = 0
  /\ currentPhase = "Pending"
  /\ blockForWithdrawal = MAX_BLOCK_FOR_WITHDRAWAL
  /\ priceOfETHInLOOKS = 0
  /\ totalAmountCommitted = 0
  /\ totalRewardTokensDistributedToStakers = 0
  /\ allocationCostPerTier = [t \in Tier |-> 0]
  /\ numberOfParticipantsForATier = [t \in Tier |-> 0]
  /\ tier = [u \in User |-> 0]
  /\ hasDeposited = {}
  /\ hasWithdrawn = {}
  /\ rewardsDistributedToAccount = [u \in User |-> 0]
  /\ eth = 0
  /\ looks = 0
  /\ weth = 0
-----------------------------------------------------------------------------
(* The participants *)

\* What u pays to take part.
Cost(u) == IF tier[u] = 0 THEN 0 ELSE allocationCostPerTier[tier[u]]

Deposit(u) ==
  /\ currentPhase = "Deposit"
  /\ tier[u] # 0
  /\ u \notin hasDeposited
  /\ hasDeposited' = hasDeposited \union {u}
  /\ totalAmountCommitted' = totalAmountCommitted + Cost(u)
  /\ eth' = eth + Cost(u)
  /\ UNCHANGED <<block, currentPhase, blockForWithdrawal, terms, rewards, hasWithdrawn, looks>>

\* Mutant: WETH already distributed is not counted.
TotalTokensReceivedHeld == weth

TotalTokensReceived == weth + totalRewardTokensDistributedToStakers

PendingRewardsInWETH(u) ==
  (TotalTokensReceived * Cost(u)) \div totalAmountCommitted - rewardsDistributedToAccount[u]

\* u is paid what is pending.  The division reverts if nothing was committed,
\* and the subtraction if the result were negative.
PayPending(u) ==
  /\ totalAmountCommitted # 0
  /\ PendingRewardsInWETH(u) \in 0..weth
  /\ rewardsDistributedToAccount' = [rewardsDistributedToAccount EXCEPT ![u] = @ + PendingRewardsInWETH(u)]
  /\ totalRewardTokensDistributedToStakers' =
       totalRewardTokensDistributedToStakers + PendingRewardsInWETH(u)
  /\ weth' = weth - PendingRewardsInWETH(u)

Harvest(u) ==
  /\ currentPhase = "Staking"
  /\ u \in hasDeposited
  /\ PayPending(u)
  /\ PendingRewardsInWETH(u) # 0
  /\ UNCHANGED <<block, currentPhase, blockForWithdrawal, terms, sale, hasWithdrawn, looks>>

\* Mutant: the withdrawal is not noted.
WithdrawUnnoted(u) ==
  /\ currentPhase = "Withdraw"
  /\ u \in hasDeposited \ hasWithdrawn
  /\ PayPending(u)
  /\ looks >= Cost(u) * priceOfETHInLOOKS
  /\ looks' = looks - Cost(u) * priceOfETHInLOOKS
  /\ UNCHANGED <<block, currentPhase, blockForWithdrawal, terms, sale, hasWithdrawn>>

Withdraw(u) ==
  /\ currentPhase = "Withdraw"
  /\ u \in hasDeposited \ hasWithdrawn
  /\ PayPending(u)
  /\ hasWithdrawn' = hasWithdrawn \union {u}
  /\ looks >= Cost(u) * priceOfETHInLOOKS
  /\ looks' = looks - Cost(u) * priceOfETHInLOOKS
  /\ UNCHANGED <<block, currentPhase, blockForWithdrawal, terms, sale>>

\* Anyone may open the withdrawals once the lock is over.
UpdateSalePhaseToWithdraw ==
  /\ currentPhase = "Staking"
  /\ block >= blockForWithdrawal
  /\ currentPhase' = "Withdraw"
  /\ UNCHANGED <<block, blockForWithdrawal, terms, sale, rewards, hasWithdrawn, looks>>
-----------------------------------------------------------------------------
(* The owner, while the sale is pending *)

RemoveUserFromWhitelist(u) ==
  /\ currentPhase = "Pending"
  /\ tier[u] # 0
  /\ numberOfParticipantsForATier' = [numberOfParticipantsForATier EXCEPT ![tier[u]] = @ - 1]
  /\ tier' = [tier EXCEPT ![u] = 0]
  /\ UNCHANGED <<block, currentPhase, blockForWithdrawal, priceOfETHInLOOKS, allocationCostPerTier,
                 sale, rewards, hasWithdrawn, looks>>

\* A list that names a user twice reverts at the second.
WhitelistUsers(users, t) ==
  /\ currentPhase = "Pending"
  /\ \A u \in users : tier[u] = 0
  /\ tier' = [u \in User |-> IF u \in users THEN t ELSE tier[u]]
  /\ numberOfParticipantsForATier' =
       [numberOfParticipantsForATier EXCEPT ![t] = @ + Cardinality(users)]
  /\ UNCHANGED <<block, currentPhase, blockForWithdrawal, priceOfETHInLOOKS, allocationCostPerTier,
                 sale, rewards, hasWithdrawn, looks>>

SetAllocationCostPerTier(t, cost) ==
  /\ currentPhase = "Pending"
  /\ allocationCostPerTier' = [allocationCostPerTier EXCEPT ![t] = cost]
  /\ UNCHANGED <<block, currentPhase, blockForWithdrawal, priceOfETHInLOOKS,
                 numberOfParticipantsForATier, tier, sale, rewards, hasWithdrawn, looks>>

SetPriceOfETHInLOOKS(price) ==
  /\ currentPhase = "Pending"
  /\ priceOfETHInLOOKS' = price
  /\ UNCHANGED <<block, currentPhase, blockForWithdrawal, allocationCostPerTier,
                 numberOfParticipantsForATier, tier, sale, rewards, hasWithdrawn, looks>>
-----------------------------------------------------------------------------
(* The owner, in any phase *)

SetBlockForWithdrawal(b) ==
  /\ b <= MAX_BLOCK_FOR_WITHDRAWAL
  /\ blockForWithdrawal' = b
  /\ UNCHANGED <<block, currentPhase, terms, sale, rewards, hasWithdrawn, looks>>

GetMaxAmountLOOKSToDistribute ==
  SumOver([t \in Tier |-> allocationCostPerTier[t] * numberOfParticipantsForATier[t]], Tier)
    * priceOfETHInLOOKS

\* updateSalePhase(Deposit), with its risk checks.
OpenDeposits ==
  /\ currentPhase = "Pending"
  /\ priceOfETHInLOOKS > 0
  /\ GetMaxAmountLOOKSToDistribute = TOTAL_LOOKS_DISTRIBUTED
  /\ looks >= TOTAL_LOOKS_DISTRIBUTED
  /\ blockForWithdrawal > block
  /\ currentPhase' = "Deposit"
  /\ UNCHANGED <<block, blockForWithdrawal, terms, sale, rewards, hasWithdrawn, looks>>

\* updateSalePhase(Over).
CloseDeposits ==
  /\ currentPhase = "Deposit"
  /\ currentPhase' = "Over"
  /\ UNCHANGED <<block, blockForWithdrawal, terms, sale, rewards, hasWithdrawn, looks>>

\* The LOOKS of those who did not take part go back to the owner.
SurplusLooks ==
  IF totalAmountCommitted * priceOfETHInLOOKS < TOTAL_LOOKS_DISTRIBUTED
  THEN TOTAL_LOOKS_DISTRIBUTED - totalAmountCommitted * priceOfETHInLOOKS
  ELSE 0

WithdrawCommittedAmount ==
  /\ currentPhase = "Over"
  /\ eth >= totalAmountCommitted
  /\ eth' = eth - totalAmountCommitted
  /\ looks >= SurplusLooks
  /\ looks' = looks - SurplusLooks
  /\ currentPhase' = "Staking"
  /\ UNCHANGED <<block, blockForWithdrawal, terms, totalAmountCommitted, hasDeposited, rewards,
                 hasWithdrawn>>

ReceiveLooks(n) ==
  /\ looks + n <= MaxLooks
  /\ looks' = looks + n
  /\ UNCHANGED <<block, currentPhase, blockForWithdrawal, terms, sale, rewards, hasWithdrawn>>

ReceiveWeth(n) ==
  /\ TotalTokensReceived + n <= MaxWeth
  /\ weth' = weth + n
  /\ UNCHANGED <<block, currentPhase, blockForWithdrawal, terms, sale,
                 totalRewardTokensDistributedToStakers, rewardsDistributedToAccount,
                 hasWithdrawn, looks>>

SaleBlock ==
  /\ PassBlock
  /\ UNCHANGED <<currentPhase, blockForWithdrawal, terms, sale, rewards, hasWithdrawn, looks>>
-----------------------------------------------------------------------------
ParticipantNext ==
  \/ UpdateSalePhaseToWithdraw
  \/ \E u \in User : Deposit(u) \/ Harvest(u) \/ Withdraw(u)

PreparationNext ==
  \/ \E u \in User : RemoveUserFromWhitelist(u)
  \/ \E users \in SUBSET User, t \in Tier : WhitelistUsers(users, t)
  \/ \E t \in Tier, cost \in Costs : SetAllocationCostPerTier(t, cost)
  \/ \E price \in Prices : SetPriceOfETHInLOOKS(price)

OwnerNext ==
  \/ \E b \in 0..MaxBlock : SetBlockForWithdrawal(b)
  \/ OpenDeposits
  \/ CloseDeposits
  \/ WithdrawCommittedAmount

SaleNext ==
  \/ ParticipantNext
  \/ PreparationNext
  \/ OwnerNext
  \/ SaleBlock
  \/ \E n \in LooksReceipts : ReceiveLooks(n)
  \/ \E n \in WethReceipts : ReceiveWeth(n)

SaleSpec == SaleInit /\ [][SaleNext]_saleVars
-----------------------------------------------------------------------------
(* Properties *)

Phase == {"Pending", "Deposit", "Over", "Staking", "Withdraw"}

\* The type of every variable.
SaleTypeOK ==
  /\ block \in Nat
  /\ currentPhase \in Phase
  /\ blockForWithdrawal \in Nat
  /\ priceOfETHInLOOKS \in Nat
  /\ totalAmountCommitted \in Nat
  /\ totalRewardTokensDistributedToStakers \in Nat
  /\ allocationCostPerTier \in [Tier -> Nat]
  /\ numberOfParticipantsForATier \in [Tier -> Nat]
  /\ tier \in [User -> 0..NUMBER_TIERS]
  /\ hasDeposited \subseteq User
  /\ hasWithdrawn \subseteq hasDeposited
  /\ rewardsDistributedToAccount \in [User -> Nat]
  /\ eth \in Nat
  /\ looks \in Nat
  /\ weth \in Nat

\* The depositors that have not withdrawn, and their total of f.
Waiting == hasDeposited \ hasWithdrawn
TotalWaiting(f(_)) == SumOver([u \in User |-> IF u \in Waiting THEN f(u) ELSE 0], User)

\* The counters of each tier and of the ETH say what the accounts say, and the
\* ETH is there to the last wei until the owner takes it.
ParticipationCounted ==
  /\ \A t \in Tier : numberOfParticipantsForATier[t] = Cardinality({u \in User : tier[u] = t})
  /\ totalAmountCommitted = SumOver([u \in User |-> IF u \in hasDeposited THEN Cost(u) ELSE 0], User)
  /\ eth = IF currentPhase \in {"Staking", "Withdraw"} THEN 0 ELSE totalAmountCommitted

\* Before the surplus is taken out the LOOKS are there for all on the list,
\* after that for the depositors that have not withdrawn.
LooksHeld ==
  LET Allocation(u) == Cost(u) * priceOfETHInLOOKS IN
  /\ currentPhase \in {"Deposit", "Over"} =>
       SumOver([u \in User |-> Allocation(u)], User) <= looks
  /\ currentPhase \in {"Staking", "Withdraw"} => TotalWaiting(Allocation) <= looks

\* From the opening of the deposits on, the contract holds the LOOKS of every
\* user who can still ask for them.  No mix of listings, removals, new costs
\* and prices before the opening, and no surplus taken out, breaks the
\* promise, because the counters it is checked with agree with the accounts.
LooksCovered == SaleTypeOK /\ ParticipationCounted /\ LooksHeld

\* The WETH held pays every pending reward at once, however the shares of
\* what arrived were rounded at each harvest, and none is negative: neither
\* the harvest nor, with it, the withdrawal of the LOOKS can revert.
RewardsCovered ==
  currentPhase \in {"Staking", "Withdraw"} /\ totalAmountCommitted # 0 =>
    /\ \A u \in Waiting : PendingRewardsInWETH(u) >= 0
    /\ TotalWaiting(PendingRewardsInWETH) <= weth
=============================================================================

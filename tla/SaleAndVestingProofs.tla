------------------------ MODULE SaleAndVestingProofs ------------------------
(***************************************************************************)
(* The two contracts that release LOOKS by block numbers and take WETH in   *)
(* meanwhile: the private sale and the vesting contract.                    *)
(***************************************************************************)
EXTENDS PrivateSaleWithFeeSharing, VestingSchedule, SumTheorems
-----------------------------------------------------------------------------
(* PrivateSaleWithFeeSharing: for every list of users, tiers, costs and     *)
(* prices, the LOOKS cover everybody that can still ask for them and the    *)
(* WETH every pending reward.                                               *)

\* What the list of users costs is what the list of tiers says.
LEMMA CostByTier ==
  ASSUME NEW of \in [User -> 0..NUMBER_TIERS], NEW cost \in [Tier -> Nat],
         NEW f \in [User -> Nat], \A u \in User : f[u] = IF of[u] = 0 THEN 0 ELSE cost[of[u]]
  PROVE  SumOver(f, User)
           = SumOver([t \in Tier |-> cost[t] * Cardinality({u \in User : of[u] = t})], Tier)
<1> DEFINE In(U, t) == {u \in U : of[u] = t}
           g(U) == [t \in Tier |-> cost[t] * Cardinality(In(U, t))]
           G == {U \in SUBSET User : SumOver(f, U) = SumOver(g(U), Tier)}
<1>1. IsFiniteSet(User) /\ IsFiniteSet(Tier) /\ NUMBER_TIERS \in Nat
  BY SaleAssumption, FS_Interval DEF Tier
<1>2. ASSUME NEW U \in SUBSET User, NEW t \in Tier
      PROVE  IsFiniteSet(In(U, t)) /\ Cardinality(In(U, t)) \in Nat
             /\ cost[t] * Cardinality(In(U, t)) \in Nat
  <2>1. IsFiniteSet(In(U, t))
    BY <1>1, FS_Subset
  <2> HIDE DEF In
  <2>2. Cardinality(In(U, t)) \in Nat
    BY <2>1, FS_CardinalityType
  <2>3. cost[t] \in Nat
    OBVIOUS
  <2> QED BY <2>1, <2>2, <2>3, MulNat
<1>3. ASSUME NEW U \in SUBSET User PROVE g(U) \in [Tier -> Nat]
  BY <1>2
<1>4. {} \in G
  <2>1. \A t \in Tier : In({}, t) = {}
    OBVIOUS
  <2>2. g({}) \in [Tier -> Nat]
    BY <1>3
  <2>3. ASSUME NEW t \in Tier PROVE g({})[t] = 0
    <3>1. Cardinality(In({}, t)) = 0
      BY <2>1, FS_EmptySet
    <3>2. cost[t] \in Nat
      OBVIOUS
    <3> HIDE DEF In
    <3> QED BY <3>1, <3>2
  <2> HIDE DEF g, In
  <2>4. SumOver(g({}), Tier) = 0
    BY <2>2, <2>3, SumZero
  <2> QED BY <2>4, SumNone
<1>5. ASSUME NEW U \in SUBSET User, NEW u \in U, U \ {u} \in G PROVE U \in G
  <2> DEFINE V == U \ {u}
             a == g(V)
             b == g(U)
  <2>1. SumOver(f, U) = f[u] + SumOver(f, V) /\ SumOver(f, V) \in Nat
    BY <1>1, SumSplitIn
  <2>2. SumOver(f, V) = SumOver(a, Tier)
    BY <1>5
  <2>3. a \in [Tier -> Nat] /\ b \in [Tier -> Nat]
    <3>1. V \in SUBSET User
      OBVIOUS
    <3> HIDE DEF g, V
    <3> QED BY <3>1, <1>3
  <2>4. \A t \in Tier : t # of[u] => In(U, t) = In(V, t)
    OBVIOUS
  <2>5. \A t \in Tier : t # of[u] => b[t] = a[t]
    <3> HIDE DEF In, V
    <3> QED BY <2>4
  <2>6. SumOver(b, Tier) = SumOver(a, Tier) + f[u] /\ SumOver(a, Tier) \in Nat
    <3>0. SumOver(a, Tier) \in Nat
      <4> HIDE DEF a
      <4> QED BY <2>3, <1>1, UnitsFinite
    <3>1. CASE of[u] = 0
      <4>1. \A t \in Tier : b[t] = a[t]
        <5>1. \A t \in Tier : t # 0
          BY <1>1 DEF Tier
        <5> HIDE DEF a, b
        <5> QED BY <2>5, <3>1, <5>1
      <4>2. f[u] = 0
        BY <3>1
      <4> HIDE DEF a, b
      <4>3. a = b
        BY <4>1, <2>3
      <4> QED BY <3>0, <4>2, <4>3
    <3>2. CASE of[u] # 0
      <4> DEFINE t == of[u]
      <4>1. t \in Tier /\ f[u] = cost[t] /\ cost[t] \in Nat
        BY <3>2, <1>1 DEF Tier
      <4>2. In(U, t) = In(V, t) \union {u} /\ u \notin In(V, t)
        OBVIOUS
      <4>3. IsFiniteSet(In(V, t)) /\ Cardinality(In(V, t)) \in Nat
        <5>1. V \in SUBSET User
          OBVIOUS
        <5> HIDE DEF V, In, t
        <5> QED BY <4>1, <5>1, <1>2
      <4>4. Cardinality(In(U, t)) = Cardinality(In(V, t)) + 1
        <5> HIDE DEF In, V, t
        <5> QED BY <4>2, <4>3, FS_AddElement
      <4>5. b[t] = cost[t] * Cardinality(In(U, t)) /\ a[t] = cost[t] * Cardinality(In(V, t))
        <5> HIDE DEF In, V, t
        <5> QED BY <4>1
      <4>6. b[t] = a[t] + f[u]
        <5> DEFINE c == Cardinality(In(V, t))
                   k == cost[t]
        <5>1. b[t] = k * (c + 1) /\ a[t] = k * c
          BY <4>4, <4>5
        <5>2. \A x \in Nat, y \in Nat : x * (y + 1) = x * y + x
          OBVIOUS
        <5>3. k \in Nat /\ c \in Nat /\ f[u] = k
          BY <4>1, <4>3
        <5> HIDE DEF k, c, a, b, t
        <5> QED BY <5>1, <5>2, <5>3
      <4> HIDE DEF a, b
      <4>7. SumOver(b, Tier) = SumOver(a, Tier) - a[t] + b[t]
        BY <4>1, <2>3, <2>5, <1>1, SumUpdate
      <4>8. a[t] \in Nat /\ f[u] \in Nat
        BY <4>1, <2>3
      <4> QED BY <3>0, <4>6, <4>7, <4>8
    <3> QED BY <3>1, <3>2
  <2>7. f[u] \in Nat
    OBVIOUS
  <2> HIDE DEF g
  <2> QED BY <2>1, <2>2, <2>6, <2>7
<1> HIDE DEF G
<1>6. User \in G
  BY <1>1, <1>4, <1>5, FiniteInduction
<1> QED BY <1>6 DEF G
-----------------------------------------------------------------------------
CostOf      == [u \in User |-> Cost(u)]
CommittedOf == [u \in User |-> IF u \in hasDeposited THEN Cost(u) ELSE 0]
LooksOf     == [u \in User |-> IF u \in Waiting THEN Cost(u) * priceOfETHInLOOKS ELSE 0]

\* What the properties say, with what makes them inductive: who can have
\* deposited or withdrawn in which phase, and that what the opening checked
\* stays exact until the surplus is taken out.
SaleInv ==
  /\ SaleTypeOK
  /\ ParticipationCounted
  /\ currentPhase = "Pending" => hasDeposited = {}
  /\ currentPhase # "Withdraw" => hasWithdrawn = {}
  /\ currentPhase \in {"Deposit", "Over"} =>
       /\ SumOver(CostOf, User) * priceOfETHInLOOKS = TOTAL_LOOKS_DISTRIBUTED
       /\ TOTAL_LOOKS_DISTRIBUTED <= looks
  /\ currentPhase \in {"Staking", "Withdraw"} => SumOver(LooksOf, User) <= looks

\* The types of what a user pays and may ask for.
LEMMA CostTypes ==
  ASSUME SaleTypeOK
  PROVE  /\ \A u \in User : Cost(u) \in Nat /\ Cost(u) * priceOfETHInLOOKS \in Nat
         /\ CostOf \in [User -> Nat]
         /\ CommittedOf \in [User -> Nat]
         /\ LooksOf \in [User -> Nat]
<1>1. ASSUME NEW u \in User PROVE Cost(u) \in Nat
  BY SaleAssumption DEF SaleTypeOK, Cost, Tier
<1>2. ASSUME NEW u \in User PROVE Cost(u) * priceOfETHInLOOKS \in Nat
  <2>1. priceOfETHInLOOKS \in Nat /\ Cost(u) \in Nat
    BY <1>1 DEF SaleTypeOK
  <2> QED BY <2>1, MulNat
<1> QED BY <1>1, <1>2 DEF CostOf, CommittedOf, LooksOf

\* LooksHeld speaks of the LOOKS of each user, the invariant of their cost.
LEMMA LooksFollow ==
  ASSUME SaleInv
  PROVE  LooksHeld
<1>1. SaleTypeOK /\ IsFiniteSet(User) /\ priceOfETHInLOOKS \in Nat
  BY SaleAssumption DEF SaleInv, SaleTypeOK
<1>2. ASSUME currentPhase \in {"Deposit", "Over"}
      PROVE  SumOver([u \in User |-> Cost(u) * priceOfETHInLOOKS], User) <= looks
  <2> DEFINE f == CostOf
             g == [u \in User |-> Cost(u) * priceOfETHInLOOKS]
  <2>1. f \in [User -> Nat] /\ g \in [User -> Nat]
    BY <1>1, CostTypes
  <2>2. \A u \in User : g[u] = f[u] * priceOfETHInLOOKS
    BY DEF CostOf
  <2>3. SumOver(f, User) * priceOfETHInLOOKS <= looks
    BY <1>1, <1>2, SaleAssumption DEF SaleInv, SaleTypeOK
  <2> HIDE DEF f, g
  <2>4. SumOver(g, User) = SumOver(f, User) * priceOfETHInLOOKS
    BY <1>1, <2>1, <2>2, SumScaled
  <2>5. SumOver(g, User) <= looks
    BY <2>3, <2>4
  <2> QED BY <2>5 DEF g
<1>3. ASSUME currentPhase \in {"Staking", "Withdraw"}
      PROVE  SumOver([u \in User |-> IF u \in Waiting THEN Cost(u) * priceOfETHInLOOKS ELSE 0], User)
               <= looks
  BY <1>3 DEF SaleInv, LooksOf
<1> QED BY <1>2, <1>3 DEF LooksHeld, TotalWaiting

\* What has been committed, in LOOKS, is within what was promised.
LEMMA CommittedWithin ==
  ASSUME SaleInv, currentPhase \in {"Deposit", "Over"}
  PROVE  /\ totalAmountCommitted * priceOfETHInLOOKS \in Nat
         /\ totalAmountCommitted * priceOfETHInLOOKS <= TOTAL_LOOKS_DISTRIBUTED
<1>1. /\ SaleTypeOK /\ IsFiniteSet(User) /\ priceOfETHInLOOKS \in Nat
      /\ totalAmountCommitted \in Nat /\ TOTAL_LOOKS_DISTRIBUTED \in Nat
      /\ SumOver(CostOf, User) * priceOfETHInLOOKS = TOTAL_LOOKS_DISTRIBUTED
      /\ totalAmountCommitted = SumOver(CommittedOf, User)
  BY SaleAssumption DEF SaleInv, SaleTypeOK, ParticipationCounted, CommittedOf
<1>2. CostOf \in [User -> Nat] /\ CommittedOf \in [User -> Nat]
  BY <1>1, CostTypes
<1>3. \A u \in User : 1 * CommittedOf[u] <= 1 * CostOf[u]
  <2> TAKE u \in User
  <2>1. CostOf[u] \in Nat /\ (CommittedOf[u] = CostOf[u] \/ CommittedOf[u] = 0)
    BY <1>2 DEF CostOf, CommittedOf
  <2> QED BY <2>1
<1>4. 1 * SumOver(CommittedOf, User) <= 1 * SumOver(CostOf, User)
  BY <1>1, <1>2, <1>3, SumBound
<1> DEFINE s == SumOver(CostOf, User)
           c == totalAmountCommitted
           p == priceOfETHInLOOKS
<1>5. s \in Nat /\ c \in Nat /\ p \in Nat /\ c <= s
  <2>1. s \in Nat
    BY <1>1, <1>2, UnitsFinite
  <2>2. 1 * c <= 1 * s
    BY <1>1, <1>4
  <2> HIDE DEF s
  <2> QED BY <2>1, <2>2, <1>1
<1>6. s * p = TOTAL_LOOKS_DISTRIBUTED
  BY <1>1
<1> HIDE DEF s, c, p
<1>7. p * c <= p * s /\ p * c = c * p /\ p * s = s * p /\ c * p \in Nat
  BY <1>5, MulMonotone, MulNat
<1>8. c * p <= TOTAL_LOOKS_DISTRIBUTED
  BY <1>6, <1>7
<1> QED BY <1>7, <1>8 DEF c, p

\* Whatever leaves the terms, the accounts and the phase alone.
LEMMA SaleUntouched ==
  ASSUME SaleInv, SaleTypeOK', UNCHANGED <<currentPhase, terms, sale, hasWithdrawn>>,
         looks <= looks'
  PROVE  SaleInv'
<1>1. UNCHANGED <<currentPhase, priceOfETHInLOOKS, allocationCostPerTier,
                  numberOfParticipantsForATier, tier, totalAmountCommitted, hasDeposited, eth,
                  hasWithdrawn>>
  BY DEF terms, sale
<1>2. UNCHANGED <<CostOf, LooksOf>>
  BY <1>1 DEF CostOf, LooksOf, Cost, Waiting
<1>3. ParticipationCounted'
  BY <1>1 DEF SaleInv, ParticipationCounted, Cost
<1>4. /\ looks \in Nat /\ looks' \in Nat /\ TOTAL_LOOKS_DISTRIBUTED \in Nat
      /\ SumOver(LooksOf, User) \in Nat
  BY CostTypes, UnitsFinite, SaleAssumption DEF SaleInv, SaleTypeOK
<1>5. /\ TOTAL_LOOKS_DISTRIBUTED <= looks => TOTAL_LOOKS_DISTRIBUTED <= looks'
      /\ SumOver(LooksOf, User) <= looks => SumOver(LooksOf, User) <= looks'
  BY <1>4
<1> QED BY <1>1, <1>2, <1>3, <1>5 DEF SaleInv

\* A deposit adds the user's cost to what was committed.
LEMMA DepositCounted ==
  ASSUME SaleInv, NEW u \in User, Deposit(u)
  PROVE  SaleInv'
<1>1. /\ currentPhase = "Deposit" /\ currentPhase' = "Deposit" /\ u \notin hasDeposited
      /\ hasDeposited' = hasDeposited \union {u}
      /\ totalAmountCommitted' = totalAmountCommitted + Cost(u)
      /\ eth' = eth + Cost(u)
      /\ UNCHANGED <<block, blockForWithdrawal, priceOfETHInLOOKS, allocationCostPerTier,
                     numberOfParticipantsForATier, tier, rewards, hasWithdrawn, looks>>
  BY DEF Deposit, terms
<1>2. SaleTypeOK /\ IsFiniteSet(User) /\ Cost(u) \in Nat
  BY SaleAssumption, CostTypes DEF SaleInv
<1>3. SaleTypeOK'
  BY <1>1, <1>2 DEF SaleTypeOK, rewards
<1>4. UNCHANGED CostOf /\ \A v \in User : Cost(v)' = Cost(v)
  BY <1>1 DEF CostOf, Cost
<1> DEFINE f == CommittedOf
           g == [v \in User |-> IF v \in hasDeposited' THEN Cost(v)' ELSE 0]
<1>5. CommittedOf' = g /\ totalAmountCommitted = SumOver(f, User)
  BY DEF CommittedOf, SaleInv, ParticipationCounted
<1>6. f \in [User -> Nat] /\ g \in [User -> Nat]
  BY <1>2, <1>4, CostTypes
<1>7. g[u] = Cost(u) /\ f[u] = 0 /\ \A v \in User \ {u} : g[v] = f[v]
  BY <1>1, <1>4 DEF CommittedOf
<1> HIDE DEF f, g
<1>8. SumOver(g, User) = totalAmountCommitted'
  <2>1. SumOver(g, User) = SumOver(f, User) - f[u] + g[u]
    BY <1>2, <1>6, <1>7, SumUpdate
  <2>2. SumOver(f, User) \in Nat
    BY <1>2, <1>6, UnitsFinite
  <2> QED BY <2>1, <2>2, <1>1, <1>2, <1>5, <1>7
<1>9. ParticipationCounted'
  <2>1. \A t \in Tier : numberOfParticipantsForATier'[t] = Cardinality({v \in User : tier'[v] = t})
    BY <1>1 DEF SaleInv, ParticipationCounted
  <2>2. totalAmountCommitted' = SumOver([v \in User |-> IF v \in hasDeposited THEN Cost(v) ELSE 0], User)'
    BY <1>8 DEF g
  <2>3. eth' = totalAmountCommitted'
    <3>1. eth = totalAmountCommitted
      BY <1>1 DEF SaleInv, ParticipationCounted
    <3> QED BY <3>1, <1>1
  <2> QED BY <2>1, <2>2, <2>3, <1>1 DEF ParticipationCounted
<1> QED BY <1>1, <1>3, <1>4, <1>9 DEF SaleInv

\* A withdrawal takes out what it took off the list.
LEMMA WithdrawalCounted ==
  ASSUME SaleInv, NEW u \in User, Withdraw(u)
  PROVE  SaleInv'
<1>1. /\ currentPhase = "Withdraw" /\ currentPhase' = "Withdraw" /\ u \in hasDeposited \ hasWithdrawn
      /\ PayPending(u)
      /\ hasWithdrawn' = hasWithdrawn \union {u}
      /\ looks >= Cost(u) * priceOfETHInLOOKS
      /\ looks' = looks - Cost(u) * priceOfETHInLOOKS
      /\ UNCHANGED <<block, blockForWithdrawal, priceOfETHInLOOKS, allocationCostPerTier,
                     numberOfParticipantsForATier, tier, totalAmountCommitted, hasDeposited, eth>>
  BY DEF Withdraw, terms, sale
<1>2. /\ SaleTypeOK /\ IsFiniteSet(User) /\ Cost(u) * priceOfETHInLOOKS \in Nat
      /\ looks \in Nat /\ SumOver(LooksOf, User) <= looks
  BY <1>1, SaleAssumption, CostTypes DEF SaleInv, SaleTypeOK
<1>3. SaleTypeOK'
  <2> DEFINE p == PendingRewardsInWETH(u)
  <2>1. p \in 0..weth /\ weth \in Nat /\ totalRewardTokensDistributedToStakers \in Nat
        /\ rewardsDistributedToAccount \in [User -> Nat]
    BY <1>1, <1>2 DEF PayPending, SaleTypeOK
  <2>2. /\ rewardsDistributedToAccount' = [rewardsDistributedToAccount EXCEPT ![u] = @ + p]
        /\ totalRewardTokensDistributedToStakers' = totalRewardTokensDistributedToStakers + p
        /\ weth' = weth - p
    BY <1>1 DEF PayPending
  <2> HIDE DEF p
  <2>3. /\ rewardsDistributedToAccount' \in [User -> Nat]
        /\ totalRewardTokensDistributedToStakers' \in Nat
        /\ weth' \in Nat
    BY <2>1, <2>2
  <2>4. looks' \in Nat
    BY <1>1, <1>2
  <2>5. hasWithdrawn' \subseteq hasDeposited'
    BY <1>1, <1>2 DEF SaleTypeOK
  <2> QED BY <1>1, <1>2, <2>3, <2>4, <2>5 DEF SaleTypeOK
<1>4. \A v \in User : Cost(v)' = Cost(v)
  BY <1>1 DEF Cost
<1> DEFINE f == LooksOf
           g == [v \in User |-> IF v \in Waiting' THEN Cost(v)' * priceOfETHInLOOKS' ELSE 0]
<1>5. LooksOf' = g
  BY DEF LooksOf
<1>6. f \in [User -> Nat] /\ g \in [User -> Nat]
  BY <1>1, <1>2, <1>4, CostTypes
<1>7. f[u] = Cost(u) * priceOfETHInLOOKS /\ g[u] = 0 /\ \A v \in User \ {u} : g[v] = f[v]
  BY <1>1, <1>4 DEF LooksOf, Waiting
<1> HIDE DEF f, g
<1>8. SumOver(g, User) <= looks'
  <2>1. SumOver(g, User) = SumOver(f, User) - f[u] + g[u]
    BY <1>2, <1>6, <1>7, SumUpdate
  <2>2. SumOver(f, User) \in Nat /\ SumOver(f, User) <= looks
    BY <1>2, <1>6, UnitsFinite DEF f
  <2> DEFINE x == Cost(u) * priceOfETHInLOOKS
  <2>3. x \in Nat /\ f[u] = x /\ looks' = looks - x
    BY <1>1, <1>2, <1>7
  <2> HIDE DEF x
  <2> QED BY <2>1, <2>2, <2>3, <1>2, <1>7
<1>9. ParticipationCounted'
  BY <1>1, <1>4 DEF SaleInv, ParticipationCounted
<1> QED BY <1>1, <1>3, <1>5, <1>8, <1>9 DEF SaleInv

\* While the sale is pending nobody has deposited, so only the counts of the
\* tiers depend on the list.
LEMMA PendingKept ==
  ASSUME SaleInv, currentPhase = "Pending",
         UNCHANGED <<block, currentPhase, blockForWithdrawal, sale, rewards, hasWithdrawn, looks>>,
         priceOfETHInLOOKS' \in Nat, allocationCostPerTier' \in [Tier -> Nat],
         tier' \in [User -> 0..NUMBER_TIERS],
         numberOfParticipantsForATier' \in [Tier -> Nat],
         \A t \in Tier : numberOfParticipantsForATier'[t] = Cardinality({v \in User : tier'[v] = t})
  PROVE  SaleInv'
<1>1. /\ UNCHANGED <<currentPhase, totalAmountCommitted, hasDeposited, eth, hasWithdrawn>>
      /\ SaleTypeOK /\ hasDeposited = {} /\ hasWithdrawn = {} /\ IsFiniteSet(User)
      /\ totalAmountCommitted = SumOver(CommittedOf, User) /\ eth = totalAmountCommitted
  BY SaleAssumption DEF sale, SaleInv, ParticipationCounted, CommittedOf
<1>2. SaleTypeOK'
  BY <1>1 DEF SaleTypeOK, rewards, sale
<1> DEFINE f == CommittedOf
           g == [v \in User |-> IF v \in hasDeposited' THEN Cost(v)' ELSE 0]
<1>3. /\ f \in [User -> Nat] /\ \A v \in User : f[v] = 0
      /\ g \in [User -> Nat] /\ \A v \in User : g[v] = 0
  BY <1>1 DEF CommittedOf
<1> HIDE DEF f, g
<1>4. SumOver(f, User) = 0 /\ SumOver(g, User) = 0
  BY <1>3, SumZero
<1>5. totalAmountCommitted' = SumOver(g, User) /\ eth' = totalAmountCommitted'
  BY <1>1, <1>4 DEF f
<1>6. ParticipationCounted'
  BY <1>1, <1>5 DEF ParticipationCounted, g
<1> QED BY <1>1, <1>2, <1>6 DEF SaleInv

\* Listing, removing and pricing keep the counts of the tiers exact.
LEMMA PreparationCounted ==
  ASSUME SaleInv, PreparationNext
  PROVE  SaleInv'
<1>1. /\ SaleTypeOK /\ IsFiniteSet(User)
      /\ \A t \in Tier : numberOfParticipantsForATier[t] = Cardinality({v \in User : tier[v] = t})
  BY SaleAssumption DEF SaleInv, ParticipationCounted
<1>2. /\ priceOfETHInLOOKS \in Nat /\ allocationCostPerTier \in [Tier -> Nat]
      /\ tier \in [User -> 0..NUMBER_TIERS] /\ numberOfParticipantsForATier \in [Tier -> Nat]
      /\ NUMBER_TIERS \in Nat
  BY <1>1, SaleAssumption DEF SaleTypeOK
<1>3. \A S \in SUBSET User : IsFiniteSet(S) /\ Cardinality(S) \in Nat
  BY <1>1, FS_Subset, FS_CardinalityType
<1>4. ASSUME NEW u \in User, RemoveUserFromWhitelist(u) PROVE SaleInv'
  <2> DEFINE t0 == tier[u]
             n  == numberOfParticipantsForATier
             A(t) == {v \in User : tier[v] = t}
             B(t) == {v \in User : tier'[v] = t}
  <2>1. t0 # 0 /\ t0 \in Tier
    BY <1>2, <1>4 DEF RemoveUserFromWhitelist, Tier
  <2>2. /\ n' = [n EXCEPT ![t0] = @ - 1] /\ tier' = [tier EXCEPT ![u] = 0]
        /\ UNCHANGED <<priceOfETHInLOOKS, allocationCostPerTier>> /\ currentPhase = "Pending"
        /\ UNCHANGED <<block, currentPhase, blockForWithdrawal, sale, rewards, hasWithdrawn, looks>>
    BY <1>4 DEF RemoveUserFromWhitelist
  <2>3. tier' \in [User -> 0..NUMBER_TIERS]
    BY <2>2, <1>2
  <2>4. B(t0) = A(t0) \ {u} /\ u \in A(t0)
    BY <2>1, <2>2, <1>2
  <2>5. \A t \in Tier : t # t0 => B(t) = A(t)
    <3>1. 0 \notin Tier
      BY <1>2 DEF Tier
    <3> QED BY <3>1, <2>2, <1>2
  <2>6. Cardinality(B(t0)) = Cardinality(A(t0)) - 1 /\ Cardinality(B(t0)) \in Nat
    <3>1. IsFiniteSet(A(t0)) /\ A(t0) \in SUBSET User /\ B(t0) \in SUBSET User
      BY <1>3
    <3> HIDE DEF A, B, t0
    <3> QED BY <3>1, <2>4, <1>3, FS_RemoveElement
  <2>7. ASSUME NEW t \in Tier PROVE n'[t] \in Nat /\ n'[t] = Cardinality(B(t))
    <3>1. n[t] = Cardinality(A(t)) /\ n[t0] = Cardinality(A(t0)) /\ n[t] \in Nat
      BY <1>1, <1>2, <2>1
    <3>2. n'[t] = IF t = t0 THEN n[t] - 1 ELSE n[t]
      BY <2>2, <1>2
    <3> HIDE DEF n, A, B, t0
    <3> QED BY <3>1, <3>2, <2>5, <2>6
  <2>8. n' \in [Tier -> Nat]
    <3>1. n \in [Tier -> Int] /\ n[t0] - 1 \in Int
      BY <1>2, <2>1
    <3>2. n' = [n EXCEPT ![t0] = n[t0] - 1]
      BY <2>2
    <3>3. \A t \in Tier : n'[t] \in Nat
      BY <2>7
    <3> HIDE DEF n, t0
    <3>4. n' \in [Tier -> Int]
      BY <3>1, <3>2
    <3> QED BY <3>3, <3>4
  <2> QED BY <2>2, <2>3, <2>7, <2>8, <1>2, PendingKept
<1>5. ASSUME NEW users \in SUBSET User, NEW t0 \in Tier, WhitelistUsers(users, t0) PROVE SaleInv'
  <2> DEFINE n  == numberOfParticipantsForATier
             A(t) == {v \in User : tier[v] = t}
             B(t) == {v \in User : tier'[v] = t}
  <2>1. t0 # 0 /\ t0 \in 0..NUMBER_TIERS
    BY <1>2 DEF Tier
  <2>2. /\ n' = [n EXCEPT ![t0] = @ + Cardinality(users)]
        /\ tier' = [u \in User |-> IF u \in users THEN t0 ELSE tier[u]]
        /\ \A u \in users : tier[u] = 0
        /\ UNCHANGED <<priceOfETHInLOOKS, allocationCostPerTier>> /\ currentPhase = "Pending"
        /\ UNCHANGED <<block, currentPhase, blockForWithdrawal, sale, rewards, hasWithdrawn, looks>>
    BY <1>5 DEF WhitelistUsers
  <2>3. tier' \in [User -> 0..NUMBER_TIERS]
    BY <2>1, <2>2, <1>2
  <2>4. B(t0) = A(t0) \union users /\ A(t0) \cap users = {}
    BY <2>1, <2>2, <1>2
  <2>5. \A t \in Tier : t # t0 => B(t) = A(t)
    <3>1. 0 \notin Tier
      BY <1>2 DEF Tier
    <3> QED BY <3>1, <2>2, <1>2
  <2>6. Cardinality(B(t0)) = Cardinality(A(t0)) + Cardinality(users) /\ Cardinality(users) \in Nat
    <3>1. IsFiniteSet(A(t0)) /\ IsFiniteSet(users) /\ Cardinality(A(t0)) \in Nat
          /\ Cardinality(users) \in Nat
      BY <1>3
    <3> HIDE DEF A, B
    <3>2. Cardinality(A(t0) \union users)
            = Cardinality(A(t0)) + Cardinality(users) - Cardinality(A(t0) \cap users)
      BY <3>1, FS_Union
    <3>3. Cardinality(A(t0) \cap users) = 0
      BY <2>4, FS_EmptySet
    <3> QED BY <3>1, <3>2, <3>3, <2>4
  <2>7. ASSUME NEW t \in Tier PROVE n'[t] \in Nat /\ n'[t] = Cardinality(B(t))
    <3>1. n[t] = Cardinality(A(t)) /\ n[t0] = Cardinality(A(t0)) /\ n[t] \in Nat
      BY <1>1, <1>2
    <3>2. n'[t] = IF t = t0 THEN n[t] + Cardinality(users) ELSE n[t]
      BY <2>2, <1>2
    <3> HIDE DEF n, A, B
    <3> QED BY <3>1, <3>2, <2>5, <2>6
  <2>8. n' \in [Tier -> Nat]
    <3>1. Cardinality(users) \in Nat
      BY <2>6
    <3> QED BY <3>1, <2>2, <1>2
  <2> QED BY <2>2, <2>3, <2>7, <2>8, <1>2, PendingKept
<1>6. ASSUME NEW t \in Tier, NEW cost \in Costs, SetAllocationCostPerTier(t, cost) PROVE SaleInv'
  <2>1. cost \in Nat
    BY SaleAssumption
  <2>2. /\ allocationCostPerTier' = [allocationCostPerTier EXCEPT ![t] = cost]
        /\ UNCHANGED <<priceOfETHInLOOKS, numberOfParticipantsForATier, tier>>
        /\ currentPhase = "Pending"
        /\ UNCHANGED <<block, currentPhase, blockForWithdrawal, sale, rewards, hasWithdrawn, looks>>
    BY <1>6 DEF SetAllocationCostPerTier
  <2>3. allocationCostPerTier' \in [Tier -> Nat]
    BY <2>1, <2>2, <1>2
  <2> QED BY <2>2, <2>3, <1>1, <1>2, PendingKept
<1>7. ASSUME NEW price \in Prices, SetPriceOfETHInLOOKS(price) PROVE SaleInv'
  <2>1. price \in Nat
    BY SaleAssumption
  <2>2. /\ priceOfETHInLOOKS' = price
        /\ UNCHANGED <<allocationCostPerTier, numberOfParticipantsForATier, tier>>
        /\ currentPhase = "Pending"
        /\ UNCHANGED <<block, currentPhase, blockForWithdrawal, sale, rewards, hasWithdrawn, looks>>
    BY <1>7 DEF SetPriceOfETHInLOOKS
  <2> QED BY <2>1, <2>2, <1>1, <1>2, PendingKept
<1> QED BY <1>4, <1>5, <1>6, <1>7 DEF PreparationNext

\* The check at the opening is about the users, not only about the tiers.
LEMMA OpeningChecked ==
  ASSUME SaleInv, OpenDeposits
  PROVE  SaleInv'
<1>1. /\ currentPhase = "Pending" /\ currentPhase' = "Deposit"
      /\ GetMaxAmountLOOKSToDistribute = TOTAL_LOOKS_DISTRIBUTED
      /\ looks >= TOTAL_LOOKS_DISTRIBUTED
      /\ UNCHANGED <<block, blockForWithdrawal, priceOfETHInLOOKS, allocationCostPerTier,
                     numberOfParticipantsForATier, tier, totalAmountCommitted, hasDeposited, eth,
                     rewards, hasWithdrawn, looks>>
  BY DEF OpenDeposits, terms, sale
<1>2. SaleTypeOK /\ hasWithdrawn = {} /\ looks \in Nat /\ TOTAL_LOOKS_DISTRIBUTED \in Nat
  BY <1>1, SaleAssumption DEF SaleInv, SaleTypeOK
<1>3. SaleTypeOK'
  BY <1>1, <1>2 DEF SaleTypeOK, rewards, Phase
<1>4. \A v \in User : Cost(v)' = Cost(v)
  BY <1>1 DEF Cost
<1>5. CostOf' = CostOf
  BY <1>4 DEF CostOf
<1>6. SumOver(CostOf, User) * priceOfETHInLOOKS = TOTAL_LOOKS_DISTRIBUTED
  <2> DEFINE n == [t \in Tier |-> allocationCostPerTier[t]
                                    * Cardinality({u \in User : tier[u] = t})]
             f == CostOf
  <2>1. \A t \in Tier : numberOfParticipantsForATier[t] = Cardinality({u \in User : tier[u] = t})
    BY DEF SaleInv, ParticipationCounted
  <2>2. [t \in Tier |-> allocationCostPerTier[t] * numberOfParticipantsForATier[t]] = n
    BY <2>1
  <2>3. SumOver(n, Tier) * priceOfETHInLOOKS = TOTAL_LOOKS_DISTRIBUTED
    BY <2>2, <1>1 DEF GetMaxAmountLOOKSToDistribute
  <2>4. /\ tier \in [User -> 0..NUMBER_TIERS] /\ allocationCostPerTier \in [Tier -> Nat]
        /\ f \in [User -> Nat]
    BY <1>2, CostTypes DEF SaleTypeOK
  <2>5. \A u \in User : f[u] = IF tier[u] = 0 THEN 0 ELSE allocationCostPerTier[tier[u]]
    BY DEF CostOf, Cost
  <2> HIDE DEF f
  <2>6. SumOver(f, User) = SumOver(n, Tier)
    BY <2>4, <2>5, CostByTier
  <2> QED BY <2>3, <2>6 DEF f
<1>7. ParticipationCounted'
  BY <1>1, <1>4 DEF SaleInv, ParticipationCounted
<1>8. TOTAL_LOOKS_DISTRIBUTED <= looks
  BY <1>1, <1>2
<1> QED BY <1>1, <1>2, <1>3, <1>5, <1>6, <1>7, <1>8 DEF SaleInv

\* What the surplus leaves is what was committed.
LEMMA SurplusLeft ==
  ASSUME SaleInv, WithdrawCommittedAmount
  PROVE  SaleInv'
<1>1. /\ currentPhase = "Over" /\ currentPhase' = "Staking"
      /\ eth' = eth - totalAmountCommitted
      /\ looks >= SurplusLooks
      /\ looks' = looks - SurplusLooks
      /\ UNCHANGED <<block, blockForWithdrawal, priceOfETHInLOOKS, allocationCostPerTier,
                     numberOfParticipantsForATier, tier, totalAmountCommitted, hasDeposited,
                     rewards, hasWithdrawn>>
  BY DEF WithdrawCommittedAmount, terms
<1>2. /\ SaleTypeOK /\ hasWithdrawn = {} /\ looks \in Nat /\ TOTAL_LOOKS_DISTRIBUTED \in Nat
      /\ totalAmountCommitted \in Nat /\ eth = totalAmountCommitted /\ IsFiniteSet(User)
      /\ TOTAL_LOOKS_DISTRIBUTED <= looks /\ priceOfETHInLOOKS \in Nat
      /\ totalAmountCommitted = SumOver(CommittedOf, User)
  BY <1>1, SaleAssumption DEF SaleInv, SaleTypeOK, ParticipationCounted, CommittedOf
<1>3. eth' = 0
  BY <1>1, <1>2
<1>4. /\ totalAmountCommitted * priceOfETHInLOOKS \in Nat
      /\ totalAmountCommitted * priceOfETHInLOOKS <= TOTAL_LOOKS_DISTRIBUTED
  BY <1>1, CommittedWithin
<1>5. looks' \in Nat /\ totalAmountCommitted * priceOfETHInLOOKS <= looks'
  <2> DEFINE x == totalAmountCommitted * priceOfETHInLOOKS
  <2>1. looks' = looks - (IF x < TOTAL_LOOKS_DISTRIBUTED THEN TOTAL_LOOKS_DISTRIBUTED - x ELSE 0)
    BY <1>1 DEF SurplusLooks
  <2>2. x \in Nat /\ x <= TOTAL_LOOKS_DISTRIBUTED
    BY <1>4
  <2> HIDE DEF x
  <2>3. looks' \in Nat /\ x <= looks'
    BY <2>1, <2>2, <1>2
  <2> QED BY <2>3 DEF x
<1>6. SaleTypeOK'
  BY <1>1, <1>2, <1>3, <1>5 DEF SaleTypeOK, rewards, Phase
<1>7. \A v \in User : Cost(v)' = Cost(v)
  BY <1>1 DEF Cost
<1> DEFINE f == CommittedOf
           g == [v \in User |-> IF v \in Waiting' THEN Cost(v)' * priceOfETHInLOOKS' ELSE 0]
<1>8. LooksOf' = g /\ totalAmountCommitted = SumOver(f, User)
  BY <1>2 DEF LooksOf
<1>9. f \in [User -> Nat] /\ g \in [User -> Nat]
  <2>1. \A v \in User : Cost(v) * priceOfETHInLOOKS \in Nat
    BY <1>2, CostTypes
  <2> QED BY <2>1, <1>1, <1>2, <1>7, CostTypes
<1>10. \A v \in User : g[v] = f[v] * priceOfETHInLOOKS
  <2> TAKE v \in User
  <2>1. CASE v \in hasDeposited
    <3>1. v \in Waiting' /\ f[v] = Cost(v)
      BY <2>1, <1>1, <1>2 DEF Waiting, CommittedOf
    <3> QED BY <3>1, <1>1, <1>7
  <2>2. CASE v \notin hasDeposited
    <3>1. v \notin Waiting' /\ f[v] = 0
      BY <2>2, <1>1 DEF Waiting, CommittedOf
    <3>2. 0 * priceOfETHInLOOKS = 0
      BY <1>2
    <3> QED BY <3>1, <3>2
  <2> QED BY <2>1, <2>2
<1> HIDE DEF f, g
<1>11. SumOver(g, User) = SumOver(f, User) * priceOfETHInLOOKS
  BY <1>2, <1>9, <1>10, SumScaled
<1>12. SumOver(LooksOf, User)' <= looks'
  BY <1>5, <1>8, <1>11
<1>13. ParticipationCounted'
  BY <1>1, <1>3, <1>7 DEF SaleInv, ParticipationCounted
<1> QED BY <1>1, <1>2, <1>6, <1>12, <1>13 DEF SaleInv

\* Nothing is committed or on a list at deployment.
LEMMA SaleStart ==
  ASSUME SaleInit
  PROVE  SaleInv
<1>1. SaleTypeOK /\ IsFiniteSet(User)
  BY SaleAssumption DEF SaleInit, SaleTypeOK, Phase
<1>2. ASSUME NEW t \in Tier PROVE numberOfParticipantsForATier[t] = Cardinality({u \in User : tier[u] = t})
  <2>1. {u \in User : tier[u] = t} = {}
    BY SaleAssumption DEF SaleInit, Tier
  <2>2. Cardinality({u \in User : tier[u] = t}) = 0
    BY <2>1, FS_EmptySet
  <2> QED BY <2>2 DEF SaleInit
<1>3. totalAmountCommitted = SumOver(CommittedOf, User)
  <2> DEFINE f == CommittedOf
  <2>1. f \in [User -> Nat] /\ \A u \in User : f[u] = 0
    BY <1>1, CostTypes DEF CommittedOf, SaleInit
  <2> HIDE DEF f
  <2>2. SumOver(f, User) = 0
    BY <2>1, SumZero
  <2> QED BY <2>2 DEF f, SaleInit
<1>4. ParticipationCounted
  BY <1>2, <1>3 DEF ParticipationCounted, CommittedOf, SaleInit
<1> QED BY <1>1, <1>4 DEF SaleInv, SaleInit

\* Every step keeps what the counters say of the accounts.
LEMMA SaleKept ==
  ASSUME SaleInv, [SaleNext]_saleVars
  PROVE  SaleInv'
<1>1. /\ SaleTypeOK /\ block \in Nat /\ looks \in Nat /\ weth \in Nat
      /\ totalRewardTokensDistributedToStakers \in Nat
      /\ rewardsDistributedToAccount \in [User -> Nat]
  BY DEF SaleInv, SaleTypeOK
<1>2. ASSUME NEW u \in User, Harvest(u) PROVE SaleInv'
  <2> DEFINE p == PendingRewardsInWETH(u)
  <2>1. /\ p \in 0..weth
        /\ rewardsDistributedToAccount' = [rewardsDistributedToAccount EXCEPT ![u] = @ + p]
        /\ totalRewardTokensDistributedToStakers' = totalRewardTokensDistributedToStakers + p
        /\ weth' = weth - p
        /\ UNCHANGED <<block, currentPhase, blockForWithdrawal, terms, sale, hasWithdrawn, looks>>
    BY <1>2 DEF Harvest, PayPending
  <2> HIDE DEF p
  <2>2. /\ rewardsDistributedToAccount' \in [User -> Nat]
        /\ totalRewardTokensDistributedToStakers' \in Nat
        /\ weth' \in Nat
    BY <1>1, <2>1
  <2>3. SaleTypeOK'
    BY <1>1, <2>1, <2>2 DEF SaleTypeOK, terms, sale
  <2> QED BY <1>1, <2>1, <2>3, SaleUntouched
<1>3. ASSUME UpdateSalePhaseToWithdraw PROVE SaleInv'
  <2>1. /\ currentPhase = "Staking" /\ currentPhase' = "Withdraw"
        /\ UNCHANGED <<block, blockForWithdrawal, priceOfETHInLOOKS, allocationCostPerTier,
                       numberOfParticipantsForATier, tier, totalAmountCommitted, hasDeposited, eth,
                       rewards, hasWithdrawn, looks>>
    BY <1>3 DEF UpdateSalePhaseToWithdraw, terms, sale
  <2>2. SaleTypeOK'
    BY <1>1, <2>1 DEF SaleTypeOK, rewards, Phase
  <2>3. ParticipationCounted' /\ UNCHANGED LooksOf
    BY <2>1 DEF SaleInv, ParticipationCounted, LooksOf, Cost, Waiting
  <2> QED BY <2>1, <2>2, <2>3 DEF SaleInv
<1>4. ASSUME CloseDeposits PROVE SaleInv'
  <2>1. /\ currentPhase = "Deposit" /\ currentPhase' = "Over"
        /\ UNCHANGED <<block, blockForWithdrawal, priceOfETHInLOOKS, allocationCostPerTier,
                       numberOfParticipantsForATier, tier, totalAmountCommitted, hasDeposited, eth,
                       rewards, hasWithdrawn, looks>>
    BY <1>4 DEF CloseDeposits, terms, sale
  <2>2. SaleTypeOK'
    BY <1>1, <2>1 DEF SaleTypeOK, rewards, Phase
  <2>3. ParticipationCounted' /\ UNCHANGED CostOf
    BY <2>1 DEF SaleInv, ParticipationCounted, CostOf, Cost
  <2> QED BY <2>1, <2>2, <2>3 DEF SaleInv
<1>5. ASSUME NEW b \in 0..MaxBlock, SetBlockForWithdrawal(b) PROVE SaleInv'
  <2>1. /\ blockForWithdrawal' = b /\ b \in Nat
        /\ UNCHANGED <<block, currentPhase, terms, sale, rewards, hasWithdrawn, looks>>
    BY <1>5, SaleAssumption DEF SetBlockForWithdrawal
  <2>2. SaleTypeOK'
    BY <1>1, <2>1 DEF SaleTypeOK, terms, sale, rewards
  <2> QED BY <1>1, <2>1, <2>2, SaleUntouched
<1>6. ASSUME SaleBlock PROVE SaleInv'
  <2>1. /\ block' = block + 1
        /\ UNCHANGED <<currentPhase, blockForWithdrawal, terms, sale, rewards, hasWithdrawn, looks>>
    BY <1>6 DEF SaleBlock, PassBlock
  <2>2. block' \in Nat
    BY <1>1, <2>1
  <2>3. SaleTypeOK'
    BY <1>1, <2>1, <2>2 DEF SaleTypeOK, terms, sale, rewards
  <2> QED BY <1>1, <2>1, <2>3, SaleUntouched
<1>7. ASSUME NEW n \in LooksReceipts, ReceiveLooks(n) PROVE SaleInv'
  <2>1. /\ looks' = looks + n /\ n \in Nat
        /\ UNCHANGED <<block, currentPhase, blockForWithdrawal, terms, sale, rewards, hasWithdrawn>>
    BY <1>7, SaleAssumption DEF ReceiveLooks
  <2>2. looks' \in Nat /\ looks <= looks'
    BY <1>1, <2>1
  <2>3. SaleTypeOK'
    BY <1>1, <2>1, <2>2 DEF SaleTypeOK, terms, sale, rewards
  <2> QED BY <2>1, <2>2, <2>3, SaleUntouched
<1>8. ASSUME NEW n \in WethReceipts, ReceiveWeth(n) PROVE SaleInv'
  <2>1. /\ weth' = weth + n /\ n \in Nat
        /\ UNCHANGED <<block, currentPhase, blockForWithdrawal, terms, sale,
                       totalRewardTokensDistributedToStakers, rewardsDistributedToAccount,
                       hasWithdrawn, looks>>
    BY <1>8, SaleAssumption DEF ReceiveWeth
  <2>2. weth' \in Nat
    BY <1>1, <2>1
  <2>3. SaleTypeOK'
    BY <1>1, <2>1, <2>2 DEF SaleTypeOK, terms, sale
  <2> QED BY <1>1, <2>1, <2>3, SaleUntouched
<1>9. ASSUME UNCHANGED saleVars PROVE SaleInv'
  <2>1. UNCHANGED <<block, currentPhase, blockForWithdrawal, terms, sale, rewards, hasWithdrawn, looks>>
    BY <1>9 DEF saleVars
  <2>2. SaleTypeOK'
    BY <1>1, <2>1 DEF SaleTypeOK, terms, sale, rewards
  <2> QED BY <1>1, <2>1, <2>2, SaleUntouched
<1>10. CASE ParticipantNext
  BY <1>2, <1>3, <1>10, DepositCounted, WithdrawalCounted DEF ParticipantNext
<1>11. CASE PreparationNext
  BY <1>11, PreparationCounted
<1>12. CASE OwnerNext
  BY <1>4, <1>5, <1>12, OpeningChecked, SurplusLeft DEF OwnerNext
<1> QED BY <1>6, <1>7, <1>8, <1>9, <1>10, <1>11, <1>12 DEF SaleNext

\* LooksCovered: whatever lists, costs and prices came before the opening, the
\* LOOKS held cover every user that can still ask for them, because the
\* counters that were checked are those of the accounts.
THEOREM LooksSafe == SaleSpec => []LooksCovered
<1>1. SaleInit => SaleInv
  BY SaleStart
<1>2. SaleInv /\ [SaleNext]_saleVars => SaleInv'
  BY SaleKept
<1>3. SaleInv => LooksCovered
  BY LooksFollow DEF SaleInv, LooksCovered
<1> QED BY <1>1, <1>2, <1>3, PTL DEF SaleSpec
-----------------------------------------------------------------------------
\* What u could have been paid by now out of all that has arrived.
ShareOf(u) == (TotalTokensReceived * Cost(u)) \div totalAmountCommitted

\* Nobody has been paid more than the share of what has arrived, nothing
\* before the sale is over, and nothing without a deposit.
RewardsInv ==
  /\ SaleInv
  /\ totalRewardTokensDistributedToStakers = SumOver(rewardsDistributedToAccount, User)
  /\ \A u \in User \ hasDeposited : rewardsDistributedToAccount[u] = 0
  /\ currentPhase \in {"Pending", "Deposit", "Over"} => \A u \in User : rewardsDistributedToAccount[u] = 0
  /\ totalAmountCommitted # 0 => \A u \in User : rewardsDistributedToAccount[u] <= ShareOf(u)

\* The types of what the shares are made of.
LEMMA ShareTypes ==
  ASSUME SaleTypeOK, totalAmountCommitted # 0
  PROVE  /\ TotalTokensReceived \in Nat /\ totalAmountCommitted \in Nat \ {0}
         /\ \A u \in User : Cost(u) \in Nat /\ TotalTokensReceived * Cost(u) \in Nat
                            /\ ShareOf(u) \in Nat
<1>1. TotalTokensReceived \in Nat /\ totalAmountCommitted \in Nat \ {0}
  BY DEF SaleTypeOK, TotalTokensReceived
<1>2. ASSUME NEW u \in User
      PROVE  Cost(u) \in Nat /\ TotalTokensReceived * Cost(u) \in Nat /\ ShareOf(u) \in Nat
  <2>1. Cost(u) \in Nat
    BY CostTypes
  <2>2. TotalTokensReceived * Cost(u) \in Nat
    BY <1>1, <2>1, MulNat
  <2>3. ShareOf(u) \in Nat
    BY <1>1, <2>2, DivNat DEF ShareOf
  <2> QED BY <2>1, <2>2, <2>3
<1> QED BY <1>1, <1>2

\* The shares of all depositors together are within what has arrived.
LEMMA SharesWithin ==
  ASSUME SaleInv, totalAmountCommitted # 0
  PROVE  /\ [u \in User |-> IF u \in hasDeposited THEN ShareOf(u) ELSE 0] \in [User -> Nat]
         /\ SumOver([u \in User |-> IF u \in hasDeposited THEN ShareOf(u) ELSE 0], User)
              <= TotalTokensReceived
<1> DEFINE c == totalAmountCommitted
           r == TotalTokensReceived
           e == [u \in User |-> IF u \in hasDeposited THEN ShareOf(u) ELSE 0]
           f == CommittedOf
<1>1. SaleTypeOK /\ IsFiniteSet(User) /\ c = SumOver(f, User)
  BY SaleAssumption DEF SaleInv, ParticipationCounted, CommittedOf
<1>2. r \in Nat /\ c \in Nat \ {0} /\ f \in [User -> Nat] /\ e \in [User -> Nat]
  BY <1>1, ShareTypes, CostTypes
<1>3. ASSUME NEW u \in User PROVE c * e[u] <= r * f[u]
  <2>1. CASE u \in hasDeposited
    <3> DEFINE a == r * Cost(u)
    <3>1. a \in Nat /\ e[u] = a \div c /\ f[u] = Cost(u)
      BY <1>1, <2>1, ShareTypes DEF ShareOf, CommittedOf
    <3>2. r * f[u] = a
      BY <3>1
    <3> HIDE DEF a, c, r, e, f
    <3>3. c * (a \div c) <= a
      BY <3>1, <1>2, DivBounds
    <3> QED BY <3>1, <3>2, <3>3
  <2>2. CASE u \notin hasDeposited
    <3>1. e[u] = 0 /\ f[u] = 0
      BY <2>2 DEF CommittedOf
    <3> HIDE DEF c, r, e, f
    <3> QED BY <3>1, <1>2
  <2> QED BY <2>1, <2>2
<1> HIDE DEF e, f, c, r
<1>4. c * SumOver(e, User) <= r * SumOver(f, User)
  BY <1>1, <1>2, <1>3, SumBound
<1>5. SumOver(e, User) \in Nat
  BY <1>1, <1>2, UnitsFinite
<1>6. r * SumOver(f, User) = c * r
  BY <1>1, <1>2
<1>7. SumOver(e, User) <= r
  BY <1>2, <1>4, <1>5, <1>6, MulCancel
<1> QED BY <1>2, <1>7 DEF e, r

\* What is pending for those that wait, with what has been paid out, is within
\* the shares.
LEMMA PendingWithin ==
  ASSUME RewardsInv
  PROVE  RewardsCovered
<1> SUFFICES ASSUME currentPhase \in {"Staking", "Withdraw"}, totalAmountCommitted # 0
             PROVE  /\ \A u \in Waiting : PendingRewardsInWETH(u) >= 0
                    /\ TotalWaiting(PendingRewardsInWETH) <= weth
  BY DEF RewardsCovered
<1> DEFINE e == [u \in User |-> IF u \in hasDeposited THEN ShareOf(u) ELSE 0]
           d == rewardsDistributedToAccount
           p == [u \in User |-> IF u \in Waiting THEN PendingRewardsInWETH(u) ELSE 0]
           s == [u \in User |-> p[u] + d[u]]
<1>1. /\ SaleInv /\ SaleTypeOK /\ IsFiniteSet(User) /\ d \in [User -> Nat]
      /\ weth \in Nat /\ TotalTokensReceived = weth + SumOver(d, User)
      /\ Waiting \subseteq hasDeposited /\ Waiting \subseteq User
  BY SaleAssumption DEF RewardsInv, SaleInv, SaleTypeOK, TotalTokensReceived, Waiting
<1>2. e \in [User -> Nat] /\ SumOver(e, User) <= TotalTokensReceived
  BY <1>1, SharesWithin
<1>3. \A u \in User : /\ ShareOf(u) \in Nat /\ d[u] \in Nat /\ d[u] <= ShareOf(u)
                      /\ PendingRewardsInWETH(u) = ShareOf(u) - d[u]
  BY <1>1, ShareTypes DEF RewardsInv, PendingRewardsInWETH, ShareOf
<1>4. \A u \in User : PendingRewardsInWETH(u) \in Nat
  BY <1>3
<1>5. p \in [User -> Nat]
  BY <1>4
<1>6. s \in [User -> Nat]
  <2> HIDE DEF p
  <2> QED BY <1>1, <1>5
<1>7. ASSUME NEW u \in User PROVE s[u] <= e[u]
  <2>1. CASE u \in Waiting
    BY <2>1, <1>1, <1>3
  <2>2. CASE u \in hasDeposited \ Waiting
    BY <2>2, <1>3
  <2>3. CASE u \notin hasDeposited
    BY <2>3, <1>1 DEF RewardsInv
  <2> QED BY <2>1, <2>2, <2>3
<1>8. \A u \in User : s[u] = p[u] + d[u]
  OBVIOUS
<1> HIDE DEF e, p, s
<1>9. SumOver(s, User) = SumOver(p, User) + SumOver(d, User)
  BY <1>1, <1>5, <1>6, <1>8, SumAdd
<1>10. 1 * SumOver(s, User) <= 1 * SumOver(e, User)
  <2>1. \A u \in User : 1 * s[u] <= 1 * e[u]
    BY <1>2, <1>6, <1>7
  <2> QED BY <2>1, <1>1, <1>2, <1>6, SumBound
<1>11. /\ SumOver(p, User) \in Nat /\ SumOver(d, User) \in Nat /\ SumOver(s, User) \in Nat
       /\ SumOver(e, User) \in Nat
  BY <1>1, <1>2, <1>5, <1>6, UnitsFinite
<1>12. SumOver(p, User) <= weth
  <2> DEFINE x == SumOver(p, User)
             y == SumOver(d, User)
             z == SumOver(e, User)
  <2>1. 1 * (x + y) <= 1 * z /\ z <= weth + y /\ x \in Nat /\ y \in Nat /\ z \in Nat /\ weth \in Nat
    BY <1>1, <1>2, <1>9, <1>10, <1>11
  <2> HIDE DEF x, y, z
  <2>2. x <= weth
    BY <2>1
  <2> QED BY <2>2 DEF x
<1>13. \A u \in Waiting : PendingRewardsInWETH(u) >= 0
  BY <1>1, <1>4
<1> QED BY <1>12, <1>13 DEF TotalWaiting, p

\* A payment moves WETH from what is held to what was distributed.
LEMMA PaymentKept ==
  ASSUME RewardsInv, SaleInv', NEW u \in User, PayPending(u), u \in hasDeposited,
         currentPhase \in {"Staking", "Withdraw"},
         UNCHANGED <<currentPhase, terms, sale>>
  PROVE  RewardsInv'
<1> DEFINE d == rewardsDistributedToAccount
           p == PendingRewardsInWETH(u)
           t == totalRewardTokensDistributedToStakers
<1>1. /\ totalAmountCommitted # 0 /\ p \in 0..weth
      /\ d' = [d EXCEPT ![u] = @ + p] /\ t' = t + p /\ weth' = weth - p
      /\ UNCHANGED <<totalAmountCommitted, allocationCostPerTier, tier, hasDeposited>>
  BY DEF PayPending, terms, sale
<1>2. /\ SaleTypeOK /\ IsFiniteSet(User) /\ d \in [User -> Nat] /\ t \in Nat /\ weth \in Nat
      /\ t = SumOver(d, User) /\ d' \in [User -> Nat]
  BY SaleAssumption DEF RewardsInv, SaleInv, SaleTypeOK
<1>3. p = ShareOf(u) - d[u] /\ ShareOf(u) \in Nat /\ d[u] \in Nat
  BY <1>1, <1>2, ShareTypes DEF PendingRewardsInWETH, ShareOf
<1>4. p \in Nat
  BY <1>1, <1>2
<1>5. TotalTokensReceived' = TotalTokensReceived
  <2> HIDE DEF p
  <2>1. weth' + t' = weth + t
    BY <1>1, <1>2, <1>4
  <2> QED BY <2>1 DEF TotalTokensReceived
<1>6. \A v \in User : Cost(v)' = Cost(v)
  BY <1>1 DEF Cost
<1>7. \A v \in User : ShareOf(v)' = ShareOf(v)
  BY <1>1, <1>5, <1>6 DEF ShareOf
<1>8. d'[u] = ShareOf(u) /\ d'[u] = d[u] + p /\ \A v \in User \ {u} : d'[v] = d[v]
  <2> HIDE DEF p
  <2>1. d'[u] = d[u] + p /\ \A v \in User \ {u} : d'[v] = d[v]
    BY <1>1, <1>2
  <2>2. d'[u] = ShareOf(u)
    BY <2>1, <1>3
  <2> QED BY <2>1, <2>2
<1> HIDE DEF p
<1>9. t' = SumOver(d', User)
  <2> DEFINE g == d'
  <2>1. g \in [User -> Nat] /\ g[u] = d[u] + p /\ \A v \in User \ {u} : g[v] = d[v]
    BY <1>2, <1>8
  <2> HIDE DEF g
  <2>2. SumOver(g, User) = SumOver(d, User) - d[u] + g[u]
    BY <1>2, <2>1, SumUpdate
  <2>3. SumOver(g, User) = t + p
    BY <1>2, <1>3, <1>4, <2>1, <2>2
  <2> QED BY <1>1, <2>3 DEF g
<1>10. \A v \in User \ hasDeposited' : d'[v] = 0
  BY <1>1, <1>8 DEF RewardsInv
<1>11. \A v \in User : d'[v] <= ShareOf(v)'
  <2> TAKE v \in User
  <2>1. d[v] <= ShareOf(v) /\ ShareOf(v) \in Nat
    BY <1>1, <1>2, ShareTypes DEF RewardsInv
  <2>2. (d'[v] = ShareOf(u) /\ v = u) \/ d'[v] = d[v]
    BY <1>8
  <2>3. d'[v] <= ShareOf(v)
    BY <2>1, <2>2
  <2> QED BY <2>3, <1>7, Zenon
<1>12. currentPhase' \notin {"Pending", "Deposit", "Over"}
  OBVIOUS
<1> QED BY <1>9, <1>10, <1>11, <1>12 DEF RewardsInv

\* What arrives can only raise the shares.
LEMMA SharesGrow ==
  ASSUME RewardsInv, SaleInv',
         UNCHANGED <<totalRewardTokensDistributedToStakers, rewardsDistributedToAccount, terms,
                     totalAmountCommitted, hasDeposited>>,
         weth <= weth',
         currentPhase' \in {"Pending", "Deposit", "Over"} => currentPhase \in {"Pending", "Deposit", "Over"}
  PROVE  RewardsInv'
<1>1. SaleTypeOK /\ SaleTypeOK' /\ weth \in Nat /\ weth' \in Nat
      /\ totalRewardTokensDistributedToStakers \in Nat
  BY DEF RewardsInv, SaleInv, SaleTypeOK
<1>2. \A v \in User : Cost(v)' = Cost(v)
  BY DEF Cost, terms
<1>3. ASSUME NEW v \in User, totalAmountCommitted # 0
      PROVE  rewardsDistributedToAccount[v] <= ShareOf(v)'
  <2> DEFINE a == TotalTokensReceived
             b == weth' + totalRewardTokensDistributedToStakers
             k == Cost(v)
             c == totalAmountCommitted
  <2>1. a \in Nat /\ b \in Nat /\ a <= b
    <3>1. \A x \in Nat, y \in Nat, z \in Nat : x <= y => x + z \in Nat /\ y + z \in Nat /\ x + z <= y + z
      OBVIOUS
    <3>2. a = weth + totalRewardTokensDistributedToStakers
      BY DEF TotalTokensReceived
    <3> QED BY <3>1, <3>2, <1>1, Zenon
  <2>2. k \in Nat /\ c \in Nat \ {0} /\ ShareOf(v) = (a * k) \div c /\ ShareOf(v) \in Nat
    BY <1>1, <1>3, ShareTypes DEF ShareOf
  <2>3. ShareOf(v)' = (b * k) \div c
    BY <1>2 DEF ShareOf, TotalTokensReceived
  <2>4. rewardsDistributedToAccount[v] <= ShareOf(v) /\ rewardsDistributedToAccount[v] \in Nat
    BY <1>1, <1>3 DEF RewardsInv, SaleTypeOK
  <2> HIDE DEF a, b, k, c
  <2>5. k * a <= k * b /\ k * a = a * k /\ k * b = b * k
    BY <2>1, <2>2, MulMonotone
  <2>6. a * k \in Nat /\ b * k \in Nat
    BY <2>1, <2>2, MulNat
  <2>7. a * k <= b * k
    BY <2>5
  <2>8. (a * k) \div c <= (b * k) \div c
    BY <2>2, <2>6, <2>7, DivMonotone
  <2>9. (b * k) \div c \in Nat
    BY <2>2, <2>6, DivNat
  <2> QED BY <2>2, <2>3, <2>4, <2>8, <2>9
<1> QED BY <1>3 DEF RewardsInv

LEMMA SharesNat == SaleTypeOK /\ totalAmountCommitted # 0 => \A u \in User : ShareOf(u) >= 0
  BY ShareTypes

LEMMA SharesNatNext ==
  (SaleTypeOK /\ totalAmountCommitted # 0)' => (\A u \in User : ShareOf(u) >= 0)'
  BY SharesNat, PTL

\* Before the sale is over there is nothing to keep.
LEMMA NothingPaidYet ==
  ASSUME RewardsInv, SaleInv', currentPhase \in {"Pending", "Deposit", "Over"},
         UNCHANGED <<currentPhase, totalRewardTokensDistributedToStakers, rewardsDistributedToAccount>>
  PROVE  RewardsInv'
<1>1. \A u \in User : rewardsDistributedToAccount'[u] = 0
  BY DEF RewardsInv
<1>2. ASSUME totalAmountCommitted' # 0
      PROVE  \A u \in User : rewardsDistributedToAccount'[u] <= ShareOf(u)'
  <2>1. \A u \in User : ShareOf(u)' >= 0
    BY <1>2, SharesNatNext DEF SaleInv
  <2> QED BY <1>1, <2>1
<1> QED BY <1>1, <1>2 DEF RewardsInv

\* Every step keeps the payments within the shares.
LEMMA RewardsKept ==
  ASSUME RewardsInv, [SaleNext]_saleVars
  PROVE  RewardsInv'
<1>1. SaleInv /\ SaleInv' /\ weth \in Nat
  BY SaleKept DEF RewardsInv, SaleInv, SaleTypeOK
<1>2. weth <= weth
  BY <1>1
<1>3. ASSUME NEW u \in User, Deposit(u) \/ Harvest(u) \/ Withdraw(u) PROVE RewardsInv'
  <2>1. CASE Deposit(u)
    BY <1>1, <2>1, NothingPaidYet DEF Deposit, rewards
  <2>2. CASE Harvest(u)
    BY <1>1, <2>2, PaymentKept DEF Harvest
  <2>3. CASE Withdraw(u)
    BY <1>1, <2>3, PaymentKept DEF Withdraw
  <2> QED BY <1>3, <2>1, <2>2, <2>3
<1>4. CASE UpdateSalePhaseToWithdraw
  BY <1>1, <1>2, <1>4, SharesGrow DEF UpdateSalePhaseToWithdraw, sale, rewards
<1>5. CASE PreparationNext
  <2>1. /\ currentPhase = "Pending"
        /\ UNCHANGED <<currentPhase, rewards>>
    BY <1>5 DEF PreparationNext, RemoveUserFromWhitelist, WhitelistUsers,
                SetAllocationCostPerTier, SetPriceOfETHInLOOKS
  <2> QED BY <1>1, <2>1, NothingPaidYet DEF rewards
<1>6. CASE OwnerNext
  <2>1. ASSUME NEW b \in 0..MaxBlock, SetBlockForWithdrawal(b) PROVE RewardsInv'
    BY <1>1, <1>2, <2>1, SharesGrow DEF SetBlockForWithdrawal, sale, rewards
  <2>2. CASE OpenDeposits
    BY <1>1, <1>2, <2>2, SharesGrow DEF OpenDeposits, sale, rewards
  <2>3. CASE CloseDeposits
    BY <1>1, <1>2, <2>3, SharesGrow DEF CloseDeposits, sale, rewards
  <2>4. CASE WithdrawCommittedAmount
    BY <1>1, <1>2, <2>4, SharesGrow DEF WithdrawCommittedAmount, rewards
  <2> QED BY <1>6, <2>1, <2>2, <2>3, <2>4 DEF OwnerNext
<1>7. CASE SaleBlock
  BY <1>1, <1>2, <1>7, SharesGrow DEF SaleBlock, sale, rewards
<1>8. ASSUME NEW n \in LooksReceipts, ReceiveLooks(n) PROVE RewardsInv'
  BY <1>1, <1>2, <1>8, SharesGrow DEF ReceiveLooks, sale, rewards
<1>9. ASSUME NEW n \in WethReceipts, ReceiveWeth(n) PROVE RewardsInv'
  <2>1. weth <= weth'
    BY <1>1, <1>9, SaleAssumption DEF ReceiveWeth
  <2> QED BY <1>1, <1>9, <2>1, SharesGrow DEF ReceiveWeth, sale
<1>10. CASE UNCHANGED saleVars
  BY <1>1, <1>2, <1>10, SharesGrow DEF saleVars, sale, rewards
<1> QED BY <1>3, <1>4, <1>5, <1>6, <1>7, <1>8, <1>9, <1>10 DEF SaleNext, ParticipantNext

\* RewardsCovered: however the shares were rounded at each harvest and whoever
\* has withdrawn, the WETH held pays every pending reward at once, and no
\* pending reward is negative.
THEOREM RewardsSafe == SaleSpec => []RewardsCovered
<1>1. SaleInit => RewardsInv
  <2> SUFFICES ASSUME SaleInit PROVE RewardsInv
    OBVIOUS
  <2> DEFINE d == rewardsDistributedToAccount
  <2>1. d \in [User -> Nat] /\ (\A u \in User : d[u] = 0)
    BY DEF SaleInit
  <2> HIDE DEF d
  <2>2. SumOver(d, User) = 0
    BY <2>1, SumZero
  <2> QED BY <2>1, <2>2, SaleStart DEF RewardsInv, SaleInit, d
<1>2. RewardsInv /\ [SaleNext]_saleVars => RewardsInv'
  BY RewardsKept
<1>3. RewardsInv => RewardsCovered
  BY PendingWithin
<1> QED BY <1>1, <1>2, <1>3, PTL DEF SaleSpec
-----------------------------------------------------------------------------
(* VestingContractWithFeeSharing keeps its types, never falls behind the    *)
(* linear schedule and never unlocks ahead of the blocks, for every length  *)
(* of the periods, every number of them and every amount.                   *)

\* nextBlockForUnlock and the maximum in terms of the unlocks made, without
\* which none of the three facts is inductive.
VestingIInv ==
  /\ VestingTypeOK
  /\ NeverBehind
  /\ UnlocksPaced
  /\ nextBlockForUnlock = START_BLOCK + (numberPastUnlocks + 1) * VESTING_BETWEEN_PERIODS_IN_BLOCKS
  /\ STANDARD_AMOUNT_UNLOCKED_AT_EACH_UNLOCK <= maxAmountToWithdrawForNextPeriod

\* One more period adds one standard amount, or one period length.
LEMMA OneMore ==
  ASSUME NEW k \in Nat, NEW a \in Nat
  PROVE  /\ (k + 1) * a = k * a + a
         /\ k * a \in Nat
  BY SMT

LEMMA VestingInitHolds == VestingInit => VestingIInv
<1> SUFFICES ASSUME VestingInit PROVE VestingIInv
  OBVIOUS
<1>1. VestingTypeOK
  BY VestingAssumption DEF VestingInit, VestingTypeOK
<1>2. NeverBehind
  BY VestingAssumption, OneMore DEF VestingInit, NeverBehind, LinearBy
<1> QED
  BY <1>1, <1>2, VestingAssumption, OneMore DEF VestingInit, VestingIInv, UnlocksPaced

\* What one unlock sends is there, and with the next maximum it makes up for
\* at least this period's maximum and one standard amount.
LEMMA UnlockMakesUp ==
  ASSUME VestingIInv
  PROVE  /\ BalanceToWithdraw \in Nat
         /\ BalanceToWithdraw <= balance
         /\ NextMaximum \in Nat
         /\ STANDARD_AMOUNT_UNLOCKED_AT_EACH_UNLOCK <= NextMaximum
         /\ maxAmountToWithdrawForNextPeriod + STANDARD_AMOUNT_UNLOCKED_AT_EACH_UNLOCK
              <= BalanceToWithdraw + NextMaximum
  BY VestingAssumption DEF VestingIInv, VestingTypeOK, BalanceToWithdraw, NextMaximum, Short

LEMMA VestingStepHolds == VestingIInv /\ [VestingNext]_vestingVars => VestingIInv'
<1> SUFFICES ASSUME VestingIInv, [VestingNext]_vestingVars PROVE VestingIInv'
  OBVIOUS
<1> USE VestingAssumption
<1>1. CASE UnlockPeriod
  <2>1. VestingTypeOK'
    BY <1>1, UnlockMakesUp DEF VestingIInv, VestingTypeOK, UnlockPeriod, Send
  <2>2. NeverBehind'
    <3>1. LinearBy(numberPastUnlocks + 2)
            = LinearBy(numberPastUnlocks + 1) + STANDARD_AMOUNT_UNLOCKED_AT_EACH_UNLOCK
      BY OneMore DEF LinearBy, VestingIInv, VestingTypeOK
    <3>2. LinearBy(numberPastUnlocks + 1) \in Nat
      BY OneMore DEF LinearBy, VestingIInv, VestingTypeOK
    <3>3. (numberPastUnlocks + 1)' = numberPastUnlocks + 2
      BY <1>1 DEF UnlockPeriod, VestingIInv, VestingTypeOK
    <3>4. LinearBy(numberPastUnlocks + 1)' = LinearBy(numberPastUnlocks + 2)
      BY <3>3 DEF LinearBy
    <3> QED
      BY <1>1, <3>1, <3>2, <3>4, UnlockMakesUp
      DEF UnlockPeriod, Send, NeverBehind, VestingIInv, VestingTypeOK
  <2>3. nextBlockForUnlock' = (START_BLOCK + (numberPastUnlocks + 1) * VESTING_BETWEEN_PERIODS_IN_BLOCKS)'
    <3>1. (numberPastUnlocks + 2) * VESTING_BETWEEN_PERIODS_IN_BLOCKS
            = (numberPastUnlocks + 1) * VESTING_BETWEEN_PERIODS_IN_BLOCKS + VESTING_BETWEEN_PERIODS_IN_BLOCKS
      BY OneMore DEF VestingIInv, VestingTypeOK
    <3>2. (numberPastUnlocks + 1) * VESTING_BETWEEN_PERIODS_IN_BLOCKS \in Nat
      BY OneMore DEF VestingIInv, VestingTypeOK
    <3>3. (numberPastUnlocks + 1)' = numberPastUnlocks + 2
      BY <1>1 DEF UnlockPeriod, VestingIInv, VestingTypeOK
    <3> QED
      BY <1>1, <3>1, <3>2, <3>3 DEF UnlockPeriod, VestingIInv, VestingTypeOK
  <2>4. UnlocksPaced'
    BY <1>1 DEF UnlockPeriod, UnlocksPaced, VestingIInv
  <2> QED
    BY <1>1, <2>1, <2>2, <2>3, <2>4, UnlockMakesUp DEF UnlockPeriod, VestingIInv
<1>2. CASE UnlockRest
  BY <1>2 DEF UnlockRest, unlocking, Send, VestingIInv, VestingTypeOK, NeverBehind, LinearBy, UnlocksPaced
<1>3. CASE WithdrawOtherCurrency
  BY <1>3 DEF WithdrawOtherCurrency, unlocking, VestingIInv, VestingTypeOK, NeverBehind, LinearBy,
              UnlocksPaced
<1>4. CASE \E n \in Receipts : Receive(n)
  BY <1>4 DEF Receive, unlocking, VestingIInv, VestingTypeOK, NeverBehind, LinearBy, UnlocksPaced
<1>5. CASE \E n \in Receipts : ReceiveOther(n)
  BY <1>5 DEF ReceiveOther, unlocking, VestingIInv, VestingTypeOK, NeverBehind, LinearBy, UnlocksPaced
<1>6. CASE VestingBlock
  <2>1. START_BLOCK + numberPastUnlocks * VESTING_BETWEEN_PERIODS_IN_BLOCKS \in Nat
    BY OneMore DEF VestingIInv, VestingTypeOK
  <2> QED
    BY <1>6, <2>1 DEF VestingBlock, PassBlock, unlocking, VestingIInv, VestingTypeOK, NeverBehind, LinearBy, UnlocksPaced
<1>7. CASE UNCHANGED vestingVars
  BY <1>7 DEF vestingVars, unlocking, VestingIInv, VestingTypeOK, NeverBehind, LinearBy, UnlocksPaced
<1> QED
  BY <1>1, <1>2, <1>3, <1>4, <1>5, <1>6, <1>7 DEF VestingNext

\* For all amounts, periods and receipts: what arrives late costs the owner
\* nothing for good, no unlock comes before its block, and no amount is ever
\* negative.
THEOREM VestingSafe == VestingSpec => [](VestingTypeOK /\ OnSchedule)
<1>1. VestingIInv => VestingTypeOK /\ OnSchedule
  BY DEF VestingIInv, OnSchedule
<1> QED
  BY <1>1, VestingInitHolds, VestingStepHolds, PTL DEF VestingSpec
-----------------------------------------------------------------------------
\* After an unlock that found its maximum, the next maximum is the standard
\* amount: what makes the schedule inductive.
ScheduleIInv ==
  /\ VestingIInv
  /\ lastShort \in BOOLEAN
  /\ ~lastShort => maxAmountToWithdrawForNextPeriod = STANDARD_AMOUNT_UNLOCKED_AT_EACH_UNLOCK
  /\ ScheduleMet

\* A period unlocked, short or not, moves the schedule by one standard amount,
\* unless it is the second short one in a row.
LEMMA PeriodKeepsSchedule ==
  ASSUME ScheduleIInv, VestingIInv', NotePeriod
  PROVE  ScheduleIInv'
<1> DEFINE S == STANDARD_AMOUNT_UNLOCKED_AT_EACH_UNLOCK
           m == maxAmountToWithdrawForNextPeriod
           k == numberPastUnlocks
<1>1. /\ k \in Nat /\ m \in Nat /\ balance \in Nat /\ unlocked \in Nat /\ S \in Nat
      /\ ~lastShort => m = S
      /\ ~twiceShort => unlocked + m = LinearBy(k + 1)
  BY VestingAssumption
     DEF ScheduleIInv, VestingIInv, VestingTypeOK, ScheduleMet, NotePeriod, UnlockPeriod
<1>2. /\ k' = k + 1 /\ m' = NextMaximum /\ unlocked' = unlocked + BalanceToWithdraw
      /\ lastShort' = Short /\ twiceShort' = (twiceShort \/ (lastShort /\ Short))
  BY DEF NotePeriod, UnlockPeriod, Send
<1>3. LinearBy(k + 2) = LinearBy(k + 1) + S /\ LinearBy(k + 1) \in Nat
  BY <1>1, OneMore DEF LinearBy
<1>4. LinearBy(numberPastUnlocks + 1)' = LinearBy(k + 2)
  <2>1. (numberPastUnlocks + 1)' = k + 2
    BY <1>1, <1>2
  <2> QED BY <2>1 DEF LinearBy
<1>5. lastShort' \in BOOLEAN
  BY <1>2 DEF Short
<1>6. ~lastShort' => m' = S
  BY <1>2 DEF NextMaximum
<1>7. ~twiceShort' => unlocked' + m' = LinearBy(k + 2)
  <2>1. CASE Short /\ ~lastShort
    <3>1. m = S /\ m' = m + (m - balance) /\ unlocked' = unlocked + balance
      BY <2>1, <1>1, <1>2 DEF NextMaximum, BalanceToWithdraw
    <3>2. ~twiceShort' => ~twiceShort
      BY <1>2, Zenon
    <3>3. unlocked' + m' = (unlocked + m) + S
      BY <3>1, <1>1
    <3> QED BY <3>2, <3>3, <1>1, <1>3
  <2>2. CASE Short /\ lastShort
    BY <2>2, <1>2
  <2>3. CASE ~Short
    BY <2>3, <1>1, <1>2, <1>3 DEF NextMaximum, BalanceToWithdraw
  <2> QED BY <2>1, <2>2, <2>3
<1> QED BY <1>4, <1>5, <1>6, <1>7 DEF ScheduleIInv, ScheduleMet

\* One short period is made up for by the next one in full: whatever arrives
\* when, the owner is exactly on the linear schedule until two unlocks in a
\* row find too little.
THEOREM ScheduleKept == ScheduleSpec => []ScheduleMet
<1>1. ScheduleInit => ScheduleIInv
  <2> SUFFICES ASSUME ScheduleInit PROVE ScheduleIInv
    OBVIOUS
  <2>1. VestingIInv
    BY VestingInitHolds DEF ScheduleInit
  <2>2. /\ numberPastUnlocks = 0 /\ unlocked = 0 /\ lastShort = FALSE
        /\ maxAmountToWithdrawForNextPeriod = STANDARD_AMOUNT_UNLOCKED_AT_EACH_UNLOCK
    BY DEF ScheduleInit, VestingInit
  <2>3. unlocked + maxAmountToWithdrawForNextPeriod = LinearBy(numberPastUnlocks + 1)
    BY <2>2, VestingAssumption DEF LinearBy
  <2> QED BY <2>1, <2>2, <2>3 DEF ScheduleIInv, ScheduleMet
<1>2. ScheduleIInv /\ [ScheduleNext]_scheduleVars => ScheduleIInv'
  <2> SUFFICES ASSUME ScheduleIInv, [ScheduleNext]_scheduleVars PROVE ScheduleIInv'
    OBVIOUS
  <2>1. VestingIInv'
    <3>1. [VestingNext]_vestingVars
      BY DEF ScheduleNext, NotePeriod, NoteNothing, scheduleVars, VestingNext
    <3> QED BY <3>1, VestingStepHolds DEF ScheduleIInv
  <2>2. CASE NotePeriod
    BY <2>1, <2>2, PeriodKeepsSchedule
  <2>3. CASE NoteNothing(UnlockRest)
    <3>1. /\ numberPastUnlocks = NUMBER_UNLOCK_PERIODS
          /\ UNCHANGED <<numberPastUnlocks, maxAmountToWithdrawForNextPeriod, lastShort>>
      BY <2>3 DEF NoteNothing, UnlockRest, unlocking
    <3>2. ~(numberPastUnlocks' < NUMBER_UNLOCK_PERIODS)
      BY <3>1, VestingAssumption
    <3> QED BY <2>1, <3>1, <3>2 DEF ScheduleIInv, ScheduleMet
  <2>4. ASSUME UNCHANGED <<unlocking, unlocked, lastShort, twiceShort>> PROVE ScheduleIInv'
    BY <2>1, <2>4 DEF ScheduleIInv, ScheduleMet, LinearBy, unlocking
  <2>5. CASE NoteNothing(WithdrawOtherCurrency) \/ NoteNothing(VestingBlock)
    BY <2>4, <2>5 DEF NoteNothing, WithdrawOtherCurrency, VestingBlock
  <2>6. CASE \E n \in Receipts : NoteNothing(Receive(n) \/ ReceiveOther(n))
    BY <2>4, <2>6 DEF NoteNothing, Receive, ReceiveOther
  <2>7. CASE UNCHANGED scheduleVars
    BY <2>4, <2>7 DEF scheduleVars, vestingVars
  <2> QED BY <2>2, <2>3, <2>5, <2>6, <2>7 DEF ScheduleNext
<1>3. ScheduleIInv => ScheduleMet
  BY DEF ScheduleIInv
<1> QED BY <1>1, <1>2, <1>3, PTL DEF ScheduleSpec
=============================================================================

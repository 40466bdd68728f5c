----------------------------- MODULE MerkleProofs -----------------------------
(***************************************************************************)
(* Theorems about the four Merkle distributors, for every set of users and  *)
(* of roots, any leaves, and any number of trees, rounds and claims.        *)
(***************************************************************************)
EXTENDS MerkleDistributors, SumTheorems

\* The owner may set any maximum that is a natural, and leaves hold naturals.
LEMMA AmountTypes ==
  /\ MaxAmounts \subseteq Nat
  /\ Receipts \subseteq Nat
  /\ LeafAmount \subseteq Nat
<1>1. ASSUME NEW n \in LeafAmount PROVE n \in Nat
  <2>1. PICK r \in Root : n \in {leaf[2] : leaf \in Leaves[r]}
    BY <1>1 DEF LeafAmount
  <2>2. PICK leaf \in Leaves[r] : n = leaf[2]
    BY <2>1
  <2>3. leaf \in Account \X Nat
    BY <2>2, AirdropAssumption
  <2> QED BY <2>2, <2>3
<1> QED BY <1>1, AirdropAssumption

\* What the transactions all distributors share do to the shared variables.
LEMMA SharedTypes ==
  ASSUME AirdropTypeOK, CommonAction
  PROVE  AirdropTypeOK' /\ UNCHANGED wallet
<1> USE AmountTypes DEF AirdropTypeOK
<1>1. CASE PauseDistribution
  BY <1>1 DEF PauseDistribution, paid
<1>2. CASE UnpauseDistribution
  BY <1>2 DEF UnpauseDistribution, paid
<1>3. ASSUME NEW n \in Receipts, WithdrawTokenRewards(n) PROVE AirdropTypeOK' /\ UNCHANGED wallet
  BY <1>3 DEF WithdrawTokenRewards, TakeBack, pausing
<1>4. ASSUME NEW n \in Receipts, Receive(n) PROVE AirdropTypeOK' /\ UNCHANGED wallet
  BY <1>4 DEF Receive, Funded, pausing
<1>5. CASE Tick
  BY <1>5 DEF Tick, pausing, paid
<1>6. CASE Pause
  BY <1>6 DEF Pause, paid
<1>7. ASSUME NEW n \in Receipts, WithdrawETH(n) PROVE AirdropTypeOK' /\ UNCHANGED wallet
  BY <1>7 DEF WithdrawETH, TakeBack, pausing
<1> QED BY <1>1, <1>2, <1>3, <1>4, <1>5, <1>6, <1>7
        DEF CommonAction, DistributorAction, ProtocolFeesAction

\* A new round comes after all that were claimed in.
LEMMA NewRoundTypes ==
  ASSUME RoundsTypeOK, NEW root \in Root \union {NoRoot}, NEW max \in MaxAmounts,
         NewRound(root, max)
  PROVE  /\ merkleRootOfRound' \in Seq(Root \union {NoRoot})
         /\ maxima' \in Seq(Nat) /\ Len(maxima') = currentRound'
         /\ currentRound' = currentRound + 1 /\ currentRound \in Nat
         /\ \A r \in 1..currentRound : /\ merkleRootOfRound'[r] = merkleRootOfRound[r]
                                       /\ maxima'[r] = maxima[r]
BY AmountTypes DEF RoundsTypeOK, NewRound, currentRound

\* A transaction that adds a round, or none, and leaves what the users claimed
\* and were paid alone.
LEMMA UnclaimedKept ==
  ASSUME RoundsTypeOK, PaidByLastClaim, UNCHANGED <<claimVars, wallet>>,
         \A r \in 1..currentRound : /\ merkleRootOfRound'[r] = merkleRootOfRound[r]
                                    /\ maxima'[r] = maxima[r]
  PROVE  PaidByLastClaim'
<1>1. UNCHANGED <<amountClaimedByUser, hasUserClaimedForRound, wallet>>
  BY DEF claimVars
<1>2. SUFFICES ASSUME NEW u \in User
               PROVE  /\ wallet[u] = amountClaimedByUser[u]
                      /\ hasUserClaimedForRound[u] = {} => wallet[u] = 0
                      /\ \A r \in hasUserClaimedForRound[u] :
                           (\A s \in hasUserClaimedForRound[u] : s <= r)
                             => /\ IsLeaf(merkleRootOfRound'[r], u, wallet[u])
                                /\ wallet[u] <= maxima'[r]
  BY <1>1 DEF PaidByLastClaim, IsLeaf
<1>3. hasUserClaimedForRound[u] \subseteq 1..currentRound
  BY DEF RoundsTypeOK
<1> QED BY <1>3 DEF PaidByLastClaim

\* A claim pays what brings the user to the amount of the current leaf.
LEMMA ClaimKept ==
  ASSUME RoundsTypeOK, PaidByLastClaim, NEW u \in User, NEW amount \in LeafAmount,
         ClaimRound(u, amount)
  PROVE  RoundsTypeOK' /\ PaidByLastClaim'
<1>1. /\ contract \in Rounds /\ AirdropTypeOK
      /\ merkleRootOfRound \in Seq(Root \union {NoRoot})
      /\ maxima \in Seq(Nat) /\ Len(maxima) = currentRound
      /\ amountClaimedByUser \in [User -> Nat] /\ wallet \in [User -> Nat]
      /\ hasUserClaimedForRound \in [User -> SUBSET (1..currentRound)]
      /\ canClaimUntil \in Nat /\ currentRound \in Nat /\ amount \in Nat
  BY AmountTypes DEF RoundsTypeOK, AirdropTypeOK, currentRound
<1>2. /\ amount - amountClaimedByUser[u] \in Nat
      /\ amount <= maximumAmountPerUserInCurrentTree
      /\ IsLeaf(CurrentRoot, u, amount)
      /\ hasUserClaimedForRound' = [hasUserClaimedForRound EXCEPT ![u] = @ \union {currentRound}]
      /\ amountClaimedByUser' =
           [amountClaimedByUser EXCEPT ![u] = @ + (amount - amountClaimedByUser[u])]
      /\ Pay(u, amount - amountClaimedByUser[u])
      /\ UNCHANGED <<contract, now, paused, lastPausedTimestamp, merkleRootUsed,
                     merkleRootOfRound, maxima, canClaimUntil>>
  BY <1>1 DEF ClaimRound, Adjusted, CanUserClaim, pausing, roundVars
<1>3. currentRound # 0 /\ currentRound' = currentRound
  BY <1>2 DEF IsLeaf, CurrentRoot, currentRound
<1>4. /\ currentRound \in 1..currentRound
      /\ IsLeaf(merkleRootOfRound[currentRound], u, amount)
      /\ amount <= maxima[currentRound]
  BY <1>1, <1>2, <1>3 DEF CurrentRoot, maximumAmountPerUserInCurrentTree
<1>5. /\ held' \in Nat
      /\ wallet' = [wallet EXCEPT ![u] = @ + (amount - amountClaimedByUser[u])]
      /\ lastClaim' = now
      /\ UNCHANGED received
  BY <1>1, <1>2 DEF Pay, AirdropTypeOK
<1>6. wallet[u] = amountClaimedByUser[u]
  BY DEF PaidByLastClaim
<1>7. /\ wallet'[u] = amount /\ amountClaimedByUser'[u] = amount
      /\ hasUserClaimedForRound'[u] = hasUserClaimedForRound[u] \union {currentRound}
      /\ \A v \in User \ {u} : /\ wallet'[v] = wallet[v]
                               /\ amountClaimedByUser'[v] = amountClaimedByUser[v]
                               /\ hasUserClaimedForRound'[v] = hasUserClaimedForRound[v]
      /\ wallet' \in [User -> Nat] /\ amountClaimedByUser' \in [User -> Nat]
      /\ hasUserClaimedForRound' \in [User -> SUBSET (1..currentRound)]
  BY <1>1, <1>2, <1>4, <1>5, <1>6
<1>8. RoundsTypeOK'
  <2>1. AirdropTypeOK'
    <3>1. UNCHANGED <<now, paused, lastPausedTimestamp, merkleRootUsed, received>>
      BY <1>2, <1>5
    <3>2. lastClaim' = now /\ now \in Nat
      BY <1>1, <1>5 DEF AirdropTypeOK
    <3> QED BY <1>1, <1>5, <1>7, <3>1, <3>2 DEF AirdropTypeOK
  <2>2. Len(maxima') = currentRound'
    BY <1>1, <1>2, <1>3
  <2>3. hasUserClaimedForRound' \in [User -> SUBSET (1..currentRound')]
    BY <1>3, <1>7
  <2> QED BY <1>1, <1>2, <1>7, <2>1, <2>2, <2>3 DEF RoundsTypeOK
<1>9. ASSUME NEW v \in User
      PROVE  /\ wallet'[v] = amountClaimedByUser'[v]
             /\ hasUserClaimedForRound'[v] = {} => wallet'[v] = 0
             /\ \A r \in hasUserClaimedForRound'[v] :
                  (\A s \in hasUserClaimedForRound'[v] : s <= r)
                    => /\ IsLeaf(merkleRootOfRound[r], v, wallet'[v])
                       /\ wallet'[v] <= maxima[r]
  <2>1. CASE v = u
    <3>1. ASSUME NEW r \in hasUserClaimedForRound'[u],
                 \A s \in hasUserClaimedForRound'[u] : s <= r
          PROVE  r = currentRound
      <4>1. currentRound <= r /\ r \in 1..currentRound
        BY <1>4, <1>7, <3>1
      <4> QED BY <4>1, <1>1
    <3> QED BY <3>1, <2>1, <1>4, <1>7
  <2>2. CASE v # u
    BY <2>2, <1>7 DEF PaidByLastClaim
  <2> QED BY <2>1, <2>2
<1>10. PaidByLastClaim'
  BY <1>2, <1>9 DEF PaidByLastClaim, IsLeaf
<1> QED BY <1>8, <1>10

\* The inductive invariant of the contracts with rounds.
RoundsInv == RoundsTypeOK /\ PaidByLastClaim

LEMMA RoundsFirst == RoundsInit => RoundsInv
<1> SUFFICES ASSUME RoundsInit PROVE RoundsInv
  OBVIOUS
<1>1. AirdropTypeOK /\ wallet = [u \in User |-> 0]
  BY AirdropAssumption DEF RoundsInit, AirdropInit, AirdropTypeOK
<1>2. RoundsTypeOK
  BY <1>1 DEF RoundsInit, RoundsTypeOK, currentRound
<1>3. PaidByLastClaim
  BY <1>1 DEF RoundsInit, PaidByLastClaim
<1> QED BY <1>2, <1>3 DEF RoundsInv

LEMMA RoundsStep == RoundsInv /\ [RoundsNext]_roundsVars => RoundsInv'
<1> SUFFICES ASSUME RoundsTypeOK, PaidByLastClaim, [RoundsNext]_roundsVars PROVE RoundsInv'
  BY DEF RoundsInv
<1>t. AirdropTypeOK
  BY DEF RoundsTypeOK
<1>1. ASSUME NEW u \in User, NEW amount \in LeafAmount, ClaimRound(u, amount) PROVE RoundsInv'
  BY <1>1, ClaimKept DEF RoundsInv
<1>2. ASSUME NEW root \in Root \union {NoRoot}, NEW max \in MaxAmounts,
             NewRound(root, max), UNCHANGED wallet, AirdropTypeOK'
      PROVE  RoundsInv'
  <2>1. UNCHANGED <<contract, claimVars, canClaimUntil>>
    BY <1>2 DEF NewRound
  <2>2. RoundsTypeOK'
    <3>1. /\ merkleRootOfRound' \in Seq(Root \union {NoRoot})
          /\ maxima' \in Seq(Nat) /\ Len(maxima') = currentRound'
          /\ currentRound' = currentRound + 1 /\ currentRound \in Nat
      BY <1>2, NewRoundTypes
    <3>2. SUBSET (1..currentRound) \subseteq SUBSET (1..currentRound')
      BY <3>1
    <3>3. hasUserClaimedForRound' \in [User -> SUBSET (1..currentRound')]
      BY <2>1, <3>2 DEF RoundsTypeOK, claimVars
    <3> QED BY <1>2, <2>1, <3>1, <3>3 DEF RoundsTypeOK, claimVars
  <2>3. PaidByLastClaim'
    BY <1>2, <2>1, NewRoundTypes, UnclaimedKept
  <2> QED BY <2>2, <2>3 DEF RoundsInv
<1>3. ASSUME NEW root \in Root \union {NoRoot}, NEW max \in MaxAmounts, UpdateRewards(root, max)
      PROVE  RoundsInv'
  <2>1. NewRound(root, max) /\ UNCHANGED <<now, pausing, paid>>
        /\ merkleRootUsed' = merkleRootUsed \union {root}
    BY <1>3 DEF UpdateRewards, NewRound
  <2>2. AirdropTypeOK' /\ UNCHANGED wallet
    BY <1>t, <2>1 DEF AirdropTypeOK, pausing, paid
  <2> QED BY <2>1, <2>2, <1>2
<1>4. ASSUME NEW root \in Root \union {NoRoot}, NEW max \in MaxAmounts,
             NEW value \in Receipts \union {0}, UpdateProtocolFeesDistribution(root, max, value)
      PROVE  RoundsInv'
  <2>1. NewRound(root, max) /\ Funded(value) /\ UNCHANGED <<now, pausing, merkleRootUsed>>
    BY <1>4 DEF UpdateProtocolFeesDistribution, NewRound
  <2>2. AirdropTypeOK' /\ UNCHANGED wallet
    BY <1>t, <2>1, AmountTypes DEF AirdropTypeOK, Funded, pausing
  <2> QED BY <2>1, <2>2, <1>2
<1>5. ASSUME NEW timestamp \in 0..(MaxTime + 1), UpdateCanClaimUntil(timestamp) PROVE RoundsInv'
  <2>1. UNCHANGED <<contract, airdropVars, roundVars, claimVars>> /\ canClaimUntil' \in Nat
    BY <1>5, AirdropAssumption DEF UpdateCanClaimUntil
  <2>2. UNCHANGED wallet
    BY <2>1 DEF airdropVars, paid
  <2>3. PaidByLastClaim'
    BY <2>1, <2>2, UnclaimedKept DEF roundVars
  <2>4. RoundsTypeOK'
    BY <2>1 DEF RoundsTypeOK, AirdropTypeOK, airdropVars, pausing, paid, roundVars, claimVars,
                currentRound
  <2> QED BY <2>3, <2>4 DEF RoundsInv
<1>6. CASE CommonAction /\ UNCHANGED <<contract, roundVars, claimVars, canClaimUntil>>
  <2>1. AirdropTypeOK' /\ UNCHANGED wallet
    BY <1>6, <1>t, SharedTypes
  <2>2. PaidByLastClaim'
    BY <1>6, <2>1, UnclaimedKept DEF roundVars
  <2>3. RoundsTypeOK'
    BY <1>6, <2>1 DEF RoundsTypeOK, roundVars, claimVars, currentRound
  <2> QED BY <2>2, <2>3 DEF RoundsInv
<1>7. CASE UNCHANGED roundsVars
  <2>1. UNCHANGED <<claimVars, wallet, roundVars>>
    BY <1>7 DEF roundsVars, airdropVars, paid
  <2>2. PaidByLastClaim'
    BY <2>1, UnclaimedKept DEF roundVars
  <2>3. RoundsTypeOK'
    BY <1>7 DEF roundsVars, RoundsTypeOK, AirdropTypeOK, airdropVars, pausing, paid, roundVars,
                claimVars, currentRound
  <2> QED BY <2>2, <2>3 DEF RoundsInv
<1> QED BY <1>1, <1>3, <1>4, <1>5, <1>6, <1>7 DEF RoundsNext, OwnerAction

\* In every behaviour of each of the three contracts, the contract has paid a
\* user in all exactly the amount of the last leaf it claimed with, and no
\* more than the maximum of that round: no repeated, missed or lowered round
\* pays anything twice.
THEOREM PaidOnce == RoundsSpec => []PaidByLastClaim
<1>1. RoundsInv => PaidByLastClaim
  BY DEF RoundsInv
<1> QED BY <1>1, RoundsFirst, RoundsStep, PTL DEF RoundsSpec
-----------------------------------------------------------------------------
(* The trees of MultiRewardsDistributor *)

\* A nonempty set of positions of a list has a last one.
LEMMA LastPosition ==
  ASSUME NEW n \in Nat, NEW T, T \subseteq 1..n, T # {}
  PROVE  \E i \in T : \A k \in T : k <= i
<1> DEFINE Mirror == {m \in Nat : n - m \in T}
<1>1. ASSUME NEW k \in T PROVE k \in Nat /\ n - k \in Mirror
  <2>1. k \in 1..n
    OBVIOUS
  <2>2. n - k \in Nat /\ n - (n - k) = k
    BY <2>1
  <2> QED BY <2>1, <2>2
<1>2. Mirror \subseteq Nat /\ Mirror # {}
  BY <1>1
<1>3. PICK m \in Mirror : \A k \in Mirror : m <= k
  BY <1>2, LeastNat
<1>4. n - m \in T /\ m \in Nat
  OBVIOUS
<1>5. ASSUME NEW k \in T PROVE k <= n - m
  BY <1>1, <1>3, <1>4
<1> QED BY <1>4, <1>5

\* The lists of a call have positions 1 to their length.
LEMMA ListPositions ==
  ASSUME NEW S, NEW list \in BoundedSeq(S, MaxList)
  PROVE  \E n \in Nat : DOMAIN list = 1..n /\ list \in [1..n -> S]
BY DistributorAssumption DEF BoundedSeq, SeqOf

\* What a claim leaves noted for a tree is what was noted, or the amount of
\* one of its rounds for that tree.
LEMMA ClaimedAfterOne ==
  ASSUME NEW u \in User, NEW list \in ClaimList, NEW t \in TreeId
  PROVE  \/ ClaimedAfter(u, list, t) = amountClaimedByUserPerTreeId[u][t]
         \/ \E i \in DOMAIN list : /\ list[i].treeId = t
                                   /\ ClaimedAfter(u, list, t) = list[i].amount
<1> DEFINE rounds == {i \in DOMAIN list : list[i].treeId = t}
<1>1. CASE rounds = {}
  BY <1>1 DEF ClaimedAfter
<1>2. CASE rounds # {}
  <2>1. PICK n \in Nat : DOMAIN list = 1..n
    BY ListPositions DEF ClaimList
  <2>2. \E i \in rounds : \A k \in rounds : k <= i
    BY <1>2, <2>1, LastPosition
  <2>3. (CHOOSE i \in rounds : \A k \in rounds : k <= i) \in rounds
    BY <2>2
  <2> HIDE DEF rounds
  <2>4. ClaimedAfter(u, list, t) = list[CHOOSE i \in rounds : \A k \in rounds : k <= i].amount
    BY <1>2 DEF ClaimedAfter, rounds
  <2> QED BY <2>3, <2>4 DEF rounds
<1> QED BY <1>1, <1>2

\* The root and the maximum in force are among those published.
CurrentPublished ==
  \A t \in TreeId :
    merkleRoot[t] # NoRoot => <<merkleRoot[t], maxAmountPerUserInCurrentTree[t]>> \in published[t]

ClaimedTypeOK == amountClaimedByUserPerTreeId \in [User -> [TreeId -> Nat]]

\* In every behaviour of MultiRewardsDistributor, what a user has had from a
\* tree is nothing or one amount published for it in that tree, under the
\* maximum published with it.
THEOREM OnlyPublished == DistributorSpec => []ClaimsPublished
<1> DEFINE Inv == ClaimedTypeOK /\ ClaimsPublished /\ CurrentPublished
<1>1. DistributorInit => Inv
  BY DEF DistributorInit, ClaimedTypeOK, ClaimsPublished, CurrentPublished
<1>2. Inv /\ [DistributorNext]_distributorVars => Inv'
  <2> SUFFICES ASSUME ClaimedTypeOK, ClaimsPublished, CurrentPublished,
                      [DistributorNext]_distributorVars
               PROVE  Inv'
    OBVIOUS
  <2>1. ASSUME NEW u \in User, NEW list \in ClaimList, Claim(u, list) PROVE Inv'
    <3>1. /\ \A i \in DOMAIN list : Claimable(u, list[i])
          /\ amountClaimedByUserPerTreeId' =
               [amountClaimedByUserPerTreeId EXCEPT
                  ![u] = [t \in TreeId |-> ClaimedAfter(u, list, t)]]
          /\ UNCHANGED trees
      BY <2>1 DEF Claim
    <3>2. ASSUME NEW t \in TreeId
          PROVE  LET total == ClaimedAfter(u, list, t) IN
                 /\ total \in Nat
                 /\ total # 0 => \E p \in published[t] : IsLeaf(p[1], u, total) /\ total <= p[2]
      <4>1. CASE ClaimedAfter(u, list, t) = amountClaimedByUserPerTreeId[u][t]
        BY <4>1 DEF ClaimedTypeOK, ClaimsPublished
      <4>2. ASSUME NEW i \in DOMAIN list, list[i].treeId = t,
                   ClaimedAfter(u, list, t) = list[i].amount
            PROVE  /\ list[i].amount \in Nat
                   /\ \E p \in published[t] :
                        IsLeaf(p[1], u, list[i].amount) /\ list[i].amount <= p[2]
        <5>1. list[i].amount \in Nat
          <6>1. PICK n \in Nat : list \in [1..n -> [treeId : TreeId, amount : LeafAmount]]
            BY ListPositions DEF ClaimList
          <6>2. list[i] \in [treeId : TreeId, amount : LeafAmount]
            BY <6>1
          <6> QED BY <6>2, AmountTypes
        <5>2. /\ IsLeaf(merkleRoot[t], u, list[i].amount)
              /\ list[i].amount <= maxAmountPerUserInCurrentTree[t]
          BY <3>1, <4>2 DEF Claimable
        <5>3. <<merkleRoot[t], maxAmountPerUserInCurrentTree[t]>> \in published[t]
          BY <5>2 DEF CurrentPublished, IsLeaf
        <5> QED BY <5>1, <5>2, <5>3
      <4> QED BY <4>1, <4>2, ClaimedAfterOne
    <3>3. /\ amountClaimedByUserPerTreeId'[u] = [t \in TreeId |-> ClaimedAfter(u, list, t)]
          /\ \A v \in User \ {u} :
               amountClaimedByUserPerTreeId'[v] = amountClaimedByUserPerTreeId[v]
      BY <3>1 DEF ClaimedTypeOK
    <3>4. ClaimedTypeOK'
      BY <3>1, <3>2 DEF ClaimedTypeOK
    <3>5. UNCHANGED published
      BY <3>1 DEF trees
    <3>6. ASSUME NEW v \in User, NEW t \in TreeId, amountClaimedByUserPerTreeId'[v][t] # 0
          PROVE  \E p \in published[t] : /\ IsLeaf(p[1], v, amountClaimedByUserPerTreeId'[v][t])
                                         /\ amountClaimedByUserPerTreeId'[v][t] <= p[2]
      <4>1. CASE v = u
        BY <3>2, <3>3, <3>6, <4>1
      <4>2. CASE v # u
        BY <3>3, <3>6, <4>2 DEF ClaimsPublished
      <4> QED BY <4>1, <4>2
    <3>7. ClaimsPublished'
      BY <3>5, <3>6 DEF ClaimsPublished, IsLeaf
    <3>8. CurrentPublished'
      BY <3>1 DEF CurrentPublished, trees
    <3> QED BY <3>4, <3>7, <3>8
  <2>2. ASSUME NEW list \in UpdateList, UpdateTradingRewards(list) PROVE Inv'
    <3> DEFINE updated == {list[i].treeId : i \in DOMAIN list}
               LastOf(t) == list[LastFor(list, t)]
    <3>1. /\ UNCHANGED amountClaimedByUserPerTreeId
          /\ \A t \in TreeId :
               /\ published[t] \subseteq published'[t]
               /\ t \in updated => /\ merkleRoot'[t] = LastOf(t).root
                                   /\ maxAmountPerUserInCurrentTree'[t] = LastOf(t).max
                                   /\ <<LastOf(t).root, LastOf(t).max>> \in published'[t]
               /\ t \notin updated =>
                    /\ merkleRoot'[t] = merkleRoot[t]
                    /\ maxAmountPerUserInCurrentTree'[t] = maxAmountPerUserInCurrentTree[t]
      BY <2>2, Zenon DEF UpdateTradingRewards
    <3> HIDE DEF updated, LastOf
    <3>2. ClaimedTypeOK'
      BY <3>1 DEF ClaimedTypeOK
    <3>3. ClaimsPublished'
      BY <3>1 DEF ClaimsPublished, IsLeaf
    <3>4. CurrentPublished'
      BY <3>1 DEF CurrentPublished
    <3> QED BY <3>2, <3>3, <3>4
  <2>3. CASE UNCHANGED <<trees, amountClaimedByUserPerTreeId>>
    BY <2>3 DEF trees, ClaimedTypeOK, ClaimsPublished, CurrentPublished, IsLeaf
  <2>4. ASSUME NEW guard \in SafeGuard, AddNewTree(guard) PROVE Inv'
    BY <2>3, <2>4 DEF AddNewTree
  <2>5. CASE UNCHANGED treeVars
    BY <2>3, <2>5 DEF treeVars
  <2> QED BY <2>1, <2>2, <2>4, <2>5
          DEF DistributorNext, ClaimNext, UpdateNext, distributorVars
<1>3. Inv => ClaimsPublished
  OBVIOUS
<1> QED BY <1>1, <1>2, <1>3, PTL DEF DistributorSpec
\* No root has the leaf of two safe guards: the operator puts one into each.
GuardsApart ==
  \A root \in Root, g, h \in SafeGuard :
    IsLeaf(root, g, SAFE_GUARD_AMOUNT) /\ IsLeaf(root, h, SAFE_GUARD_AMOUNT) => g = h

\* The guards differ, and every root a tree was given has the leaf of its guard.
GuardsHold ==
  /\ numberTrees \in 0..MaxTrees
  /\ safeGuard \in Seq(SafeGuard) /\ Len(safeGuard) = numberTrees
  /\ \A i, j \in 1..numberTrees : safeGuard[i] = safeGuard[j] => i = j
  /\ \A t \in TreeId : \A p \in published[t] :
       /\ t < numberTrees
       /\ p[1] \in Root
       /\ IsLeaf(p[1], safeGuard[t + 1], SAFE_GUARD_AMOUNT)

\* The last round of an update for a tree is one of its rounds for that tree.
LEMMA LastForOne ==
  ASSUME NEW list \in UpdateList, NEW i \in DOMAIN list
  PROVE  LET last == LastFor(list, list[i].treeId) IN
         last \in DOMAIN list /\ list[last].treeId = list[i].treeId
<1> DEFINE t == list[i].treeId
           rounds == {j \in DOMAIN list : list[j].treeId = t}
<1>1. PICK n \in Nat : DOMAIN list = 1..n
  BY ListPositions DEF UpdateList
<1>2. PICK m \in rounds : \A k \in rounds : k <= m
  BY <1>1, LastPosition
<1>3. \E j \in DOMAIN list : /\ list[j].treeId = t
                             /\ \A k \in DOMAIN list : list[k].treeId = t => k <= j
  BY <1>2
<1> QED BY <1>3 DEF LastFor

\* As long as no root has the leaf of two safe guards, in every behaviour of
\* MultiRewardsDistributor no root with the leaf of one tree's guard is ever
\* in force in another tree.
THEOREM TreesKeptApart ==
  ASSUME GuardsApart
  PROVE  DistributorSpec => []TreesApart
<1>1. DistributorInit => GuardsHold
  BY DistributorAssumption DEF DistributorInit, GuardsHold
<1>2. GuardsHold /\ [DistributorNext]_distributorVars => GuardsHold'
  <2> SUFFICES ASSUME GuardsHold, [DistributorNext]_distributorVars PROVE GuardsHold'
    OBVIOUS
  <2>1. CASE UNCHANGED <<guards, published>>
    BY <2>1 DEF guards, GuardsHold, IsLeaf
  <2>2. ASSUME NEW u \in User, NEW list \in ClaimList, Claim(u, list) PROVE GuardsHold'
    BY <2>1, <2>2 DEF Claim, trees
  <2>3. ASSUME NEW list \in UpdateList, UpdateTradingRewards(list) PROVE GuardsHold'
    <3> DEFINE updated == {list[i].treeId : i \in DOMAIN list}
               LastOf(t) == list[LastFor(list, t)]
    <3>1. /\ UNCHANGED guards
          /\ \A i \in DOMAIN list : Accepted(list, i)
          /\ published' = [t \in TreeId |-> published[t] \union
                (IF t \in updated THEN {<<LastOf(t).root, LastOf(t).max>>} ELSE {})]
      BY <2>3, Zenon DEF UpdateTradingRewards
    <3>2. ASSUME NEW t \in TreeId, t \in updated
          PROVE  /\ t < numberTrees
                 /\ LastOf(t).root \in Root
                 /\ IsLeaf(LastOf(t).root, safeGuard[t + 1], SAFE_GUARD_AMOUNT)
      <4>1. LastFor(list, t) \in DOMAIN list /\ LastOf(t).treeId = t
        BY <3>2, LastForOne
      <4>2. PICK n \in Nat :
              list \in [1..n -> [treeId : TreeId, root : Root \union {NoRoot}, max : MaxAmounts]]
        BY ListPositions DEF UpdateList
      <4>3. LastOf(t).root \in Root \union {NoRoot}
        BY <4>1, <4>2
      <4> QED BY <3>1, <4>1, <4>3 DEF Accepted, IsLeaf
    <3>3. ASSUME NEW t \in TreeId, NEW p \in published'[t]
          PROVE  /\ t < numberTrees
                 /\ p[1] \in Root
                 /\ IsLeaf(p[1], safeGuard[t + 1], SAFE_GUARD_AMOUNT)
      <4>1. p \in published[t] \/ (t \in updated /\ p = <<LastOf(t).root, LastOf(t).max>>)
        BY <3>1, <3>3
      <4>2. CASE p \in published[t]
        BY <4>2 DEF GuardsHold
      <4>3. CASE t \in updated /\ p = <<LastOf(t).root, LastOf(t).max>>
        <5>1. p[1] = LastOf(t).root
          BY <4>3
        <5> QED BY <4>3, <5>1, <3>2
      <4> QED BY <4>1, <4>2, <4>3
    <3> QED BY <3>1, <3>3 DEF GuardsHold, guards, IsLeaf
  <2>4. ASSUME NEW guard \in SafeGuard, AddNewTree(guard) PROVE GuardsHold'
    <3>1. /\ safeGuard' = Append(safeGuard, guard)
          /\ numberTrees < MaxTrees /\ numberTrees' = numberTrees + 1
          /\ \A i \in 1..numberTrees : safeGuard[i] # guard
          /\ UNCHANGED published
      BY <2>4 DEF AddNewTree, ToSet, trees, GuardsHold
    <3>2. /\ numberTrees \in Nat
          /\ safeGuard \in Seq(SafeGuard) /\ Len(safeGuard) = numberTrees
      BY DEF GuardsHold
    <3>3. /\ safeGuard' \in Seq(SafeGuard) /\ Len(safeGuard') = numberTrees'
          /\ safeGuard'[numberTrees'] = guard
          /\ \A i \in 1..numberTrees : safeGuard'[i] = safeGuard[i]
      BY <3>1, <3>2
    <3>4. \A i, j \in 1..numberTrees' : safeGuard'[i] = safeGuard'[j] => i = j
      <4>1. \A i \in 1..numberTrees' : i \in 1..numberTrees \/ i = numberTrees'
        BY <3>1, <3>2
      <4>2. \A i, j \in 1..numberTrees : safeGuard[i] = safeGuard[j] => i = j
        BY DEF GuardsHold
      <4> QED BY <3>1, <3>3, <4>1, <4>2
    <3>5. ASSUME NEW t \in TreeId, NEW p \in published[t]
          PROVE  /\ t < numberTrees'
                 /\ p[1] \in Root
                 /\ IsLeaf(p[1], safeGuard'[t + 1], SAFE_GUARD_AMOUNT)
      <4>1. /\ t < numberTrees /\ p[1] \in Root
            /\ IsLeaf(p[1], safeGuard[t + 1], SAFE_GUARD_AMOUNT)
        BY <3>5 DEF GuardsHold
      <4>2. t \in Nat /\ t + 1 \in 1..numberTrees
        BY <4>1, <3>2, DistributorAssumption DEF TreeId
      <4> QED BY <3>1, <3>2, <3>3, <4>1, <4>2
    <3>6. numberTrees' \in 0..MaxTrees
      BY <3>1, <3>2, DistributorAssumption
    <3> QED BY <3>1, <3>3, <3>4, <3>5, <3>6 DEF GuardsHold, IsLeaf
  <2>5. CASE UNCHANGED treeVars
    BY <2>1, <2>5 DEF treeVars, trees
  <2> QED BY <2>2, <2>3, <2>4, <2>5
          DEF DistributorNext, ClaimNext, UpdateNext, distributorVars
<1>3. GuardsHold => TreesApart
  <2> SUFFICES ASSUME GuardsHold, NEW s \in 0..(numberTrees - 1), NEW t \in 0..(numberTrees - 1),
                      s # t, NEW p \in published[t],
                      IsLeaf(p[1], safeGuard[s + 1], SAFE_GUARD_AMOUNT)
               PROVE  FALSE
    BY DEF TreesApart
  <2>1. /\ s \in Nat /\ t \in Nat /\ t \in TreeId
        /\ s + 1 \in 1..numberTrees /\ t + 1 \in 1..numberTrees
    BY DistributorAssumption DEF GuardsHold, TreeId
  <2>2. /\ p[1] \in Root /\ IsLeaf(p[1], safeGuard[t + 1], SAFE_GUARD_AMOUNT)
        /\ safeGuard[s + 1] \in SafeGuard /\ safeGuard[t + 1] \in SafeGuard
    BY <2>1 DEF GuardsHold
  <2>3. safeGuard[s + 1] = safeGuard[t + 1]
    BY <2>2 DEF GuardsApart
  <2> QED BY <2>1, <2>3 DEF GuardsHold
<1> QED BY <1>1, <1>2, <1>3, PTL DEF DistributorSpec
-----------------------------------------------------------------------------
(* A claim over several trees *)

\* What is noted for tree t after the first k rounds of a claim of u.
NotedAfter(u, list, k, t) ==
  LET rounds == {i \in 1..k : list[i].treeId = t} IN
  IF rounds = {}
  THEN amountClaimedByUserPerTreeId[u][t]
  ELSE list[CHOOSE i \in rounds : \A j \in rounds : j <= i].amount

\* Before the first round that is what was noted before the claim.
LEMMA NotedFirst ==
  ASSUME NEW u, NEW list, NEW t
  PROVE  NotedAfter(u, list, 0, t) = amountClaimedByUserPerTreeId[u][t]
<1>1. {i \in 1..0 : list[i].treeId = t} = {}
  OBVIOUS
<1> QED BY <1>1 DEF NotedAfter

\* Every round notes its amount for its own tree.
LEMMA NotedNext ==
  ASSUME NEW u, NEW list, NEW t, NEW k \in Nat
  PROVE  /\ list[k + 1].treeId = t => NotedAfter(u, list, k + 1, t) = list[k + 1].amount
         /\ list[k + 1].treeId # t => NotedAfter(u, list, k + 1, t) = NotedAfter(u, list, k, t)
<1> DEFINE rounds == {i \in 1..k : list[i].treeId = t}
           more == {i \in 1..(k + 1) : list[i].treeId = t}
<1>1. ASSUME list[k + 1].treeId = t
      PROVE  NotedAfter(u, list, k + 1, t) = list[k + 1].amount
  <2> DEFINE last == CHOOSE i \in more : \A j \in more : j <= i
  <2>1. k + 1 \in more /\ \A j \in more : j \in Int /\ j <= k + 1
    BY <1>1
  <2>2. last \in more /\ \A j \in more : j <= last
    BY <2>1
  <2>3. last = k + 1
    BY <2>1, <2>2
  <2>4. NotedAfter(u, list, k + 1, t) = list[last].amount
    BY <2>1 DEF NotedAfter
  <2> QED BY <2>3, <2>4
<1>2. ASSUME list[k + 1].treeId # t
      PROVE  NotedAfter(u, list, k + 1, t) = NotedAfter(u, list, k, t)
  <2>1. more = rounds
    <3>1. \A i : i \in 1..(k + 1) <=> i \in 1..k \/ i = k + 1
      OBVIOUS
    <3> QED BY <1>2, <3>1
  <2> DEFINE LastOf(R) == IF R = {} THEN amountClaimedByUserPerTreeId[u][t]
                        ELSE list[CHOOSE i \in R : \A j \in R : j <= i].amount
  <2>2. NotedAfter(u, list, k + 1, t) = LastOf(more) /\ NotedAfter(u, list, k, t) = LastOf(rounds)
    BY DEF NotedAfter
  <2> HIDE DEF more, rounds, LastOf
  <2> QED BY <2>1, <2>2
<1> QED BY <1>1, <1>2

\* A claim pays what its rounds add to the amounts noted, all trees together.
LEMMA TransferIsNoted ==
  ASSUME ClaimedTypeOK, NEW u \in User, NEW list \in ClaimList,
         \A i \in DOMAIN list : list[i].amount > ClaimedBefore(u, list, i)
  PROVE  /\ AmountToTransfer(u, list) \in Nat
         /\ [t \in TreeId |-> ClaimedAfter(u, list, t)] \in [TreeId -> Nat]
         /\ AmountToTransfer(u, list) + SumOver(amountClaimedByUserPerTreeId[u], TreeId)
              = SumOver([t \in TreeId |-> ClaimedAfter(u, list, t)], TreeId)
<1> DEFINE n == Len(list)
           Noted(k) == [t \in TreeId |-> NotedAfter(u, list, k, t)]
           f == [i \in 0..(n - 1) |-> AdjustedAmount(u, list, i + 1)]
           sums == PartialSum(f, n)
           Good == {k \in Nat : k <= n =>
                      sums[k] + SumOver(Noted(0), TreeId) = SumOver(Noted(k), TreeId)}
<1>1. /\ n \in Nat /\ DOMAIN list = 1..n
      /\ list \in [1..n -> [treeId : TreeId, amount : LeafAmount]]
  <2>1. PICK m \in Nat : DOMAIN list = 1..m /\ list \in [1..m -> [treeId : TreeId, amount : LeafAmount]]
    BY ListPositions DEF ClaimList
  <2>2. Len(list) = m
    BY <2>1
  <2> QED BY <2>1, <2>2
<1>2. \A i \in 1..n : list[i].treeId \in TreeId /\ list[i].amount \in Nat
  <2>1. \A i \in 1..n : list[i] \in [treeId : TreeId, amount : LeafAmount]
    BY <1>1
  <2> QED BY <2>1, AmountTypes
<1>3. IsFiniteSet(TreeId)
  BY DistributorAssumption, FS_Interval DEF TreeId
<1> HIDE DEF n
<1>4. \A k \in 0..n : Noted(k) \in [TreeId -> Nat]
  <2> DEFINE Typed == {k \in Nat : k <= n => Noted(k) \in [TreeId -> Nat]}
  <2>1. 0 \in Typed
    BY NotedFirst DEF ClaimedTypeOK
  <2>2. \A k \in Nat : k \in Typed => k + 1 \in Typed
    <3> SUFFICES ASSUME NEW k \in Nat, k \in Typed, k + 1 <= n
                 PROVE  Noted(k + 1) \in [TreeId -> Nat]
      OBVIOUS
    <3>1. \A t \in TreeId : NotedAfter(u, list, k, t) \in Nat
      BY <1>1
    <3>2. list[k + 1].amount \in Nat
      BY <1>1, <1>2
    <3>3. \A t \in TreeId : NotedAfter(u, list, k + 1, t) \in Nat
      BY <3>1, <3>2, NotedNext
    <3> QED BY <3>3
  <2>3. Nat \subseteq Typed
    <3> HIDE DEF Typed
    <3> QED BY <2>1, <2>2, SetInduction
  <2> QED BY <2>3, <1>1
<1>5. \A i \in 1..n : ClaimedBefore(u, list, i) = NotedAfter(u, list, i - 1, list[i].treeId)
  BY DEF ClaimedBefore, NotedAfter
<1>6. f \in [0..(n - 1) -> Nat]
  <2>1. ASSUME NEW i \in 0..(n - 1) PROVE AdjustedAmount(u, list, i + 1) \in Nat
    <3>1. i + 1 \in 1..n /\ (i + 1) - 1 = i /\ i \in 0..n
      BY <1>1
    <3>2. list[i + 1].treeId \in TreeId /\ list[i + 1].amount \in Nat
      BY <1>2, <3>1
    <3>3. NotedAfter(u, list, i, list[i + 1].treeId) \in Nat
      BY <1>4, <3>1, <3>2
    <3>4. list[i + 1].amount > ClaimedBefore(u, list, i + 1)
      BY <1>1, <3>1
    <3> QED BY <1>5, <3>1, <3>2, <3>3, <3>4 DEF AdjustedAmount
  <2> QED BY <2>1
<1> HIDE DEF f
<1>7. /\ sums \in [0..n -> Nat] /\ sums[0] = 0
      /\ \A k \in 0..(n - 1) : sums[k + 1] = sums[k] + f[k]
  BY <1>1, <1>6, PartialSumRec
<1> HIDE DEF sums
<1>8. 0 \in Good
  <2>1. SumOver(Noted(0), TreeId) \in Nat
    BY <1>1, <1>3, <1>4, UnitsFinite
  <2> QED BY <1>7, <2>1
<1>9. \A k \in Nat : k \in Good => k + 1 \in Good
  <2> SUFFICES ASSUME NEW k \in Nat, k \in Good, k + 1 <= n
               PROVE  sums[k + 1] + SumOver(Noted(0), TreeId) = SumOver(Noted(k + 1), TreeId)
    OBVIOUS
  <2> DEFINE t == list[k + 1].treeId
             F == Noted(k)
             G == Noted(k + 1)
  <2>1. k \in 0..n /\ k + 1 \in 0..n /\ k \in 0..(n - 1) /\ k + 1 \in 1..n /\ (k + 1) - 1 = k
    BY <1>1
  <2>2. t \in TreeId /\ F \in [TreeId -> Nat] /\ G \in [TreeId -> Nat]
    BY <1>2, <1>4, <2>1
  <2>3. G[t] = list[k + 1].amount /\ \A v \in TreeId \ {t} : G[v] = F[v]
    BY <2>2, NotedNext
  <2>4. f[k] = G[t] - F[t]
    <3>1. f[k] = list[k + 1].amount - NotedAfter(u, list, k, t)
      BY <1>5, <2>1 DEF f, AdjustedAmount
    <3> QED BY <2>2, <2>3, <3>1
  <2>5. sums[k] + SumOver(Noted(0), TreeId) = SumOver(F, TreeId)
    BY <1>1, <2>1
  <2>6. F[t] \in Nat /\ G[t] \in Nat /\ sums[k] \in Nat
    BY <1>7, <2>1, <2>2
  <2>7. sums[k + 1] = sums[k] + f[k]
    BY <1>7, <2>1
  <2>8. SumOver(F, TreeId) \in Nat /\ SumOver(Noted(0), TreeId) \in Nat
    <3>1. Noted(0) \in [TreeId -> Nat]
      BY <1>1, <1>4
    <3> HIDE DEF F, Noted
    <3> QED BY <1>3, <2>2, <3>1, UnitsFinite
  <2> HIDE DEF F, G, t
  <2>9. SumOver(G, TreeId) = SumOver(F, TreeId) - F[t] + G[t]
    BY <1>3, <2>2, <2>3, SumUpdate
  <2>10. sums[k + 1] + SumOver(Noted(0), TreeId) = SumOver(G, TreeId)
    <3> HIDE DEF Noted
    <3> QED BY <2>4, <2>5, <2>6, <2>7, <2>8, <2>9
  <2> QED BY <2>10 DEF G
<1>10. Nat \subseteq Good
  <2> HIDE DEF Good
  <2> QED BY <1>8, <1>9, SetInduction
<1>11. sums[n] + SumOver(Noted(0), TreeId) = SumOver(Noted(n), TreeId)
  <2>1. n \in Good
    <3> HIDE DEF Good
    <3> QED BY <1>1, <1>10
  <2>2. n <= n
    BY <1>1
  <2> HIDE DEF Noted
  <2> QED BY <2>1, <2>2
<1>12. Noted(0) = amountClaimedByUserPerTreeId[u]
  BY NotedFirst DEF ClaimedTypeOK
<1>13. Noted(n) = [t \in TreeId |-> ClaimedAfter(u, list, t)]
  BY <1>1 DEF ClaimedAfter, NotedAfter
<1>14. AmountToTransfer(u, list) = sums[n]
  BY DEF AmountToTransfer, sums, f, n
<1>15. sums[n] \in Nat /\ n \in 0..n
  BY <1>1, <1>7
<1> QED BY <1>4, <1>11, <1>12, <1>13, <1>14, <1>15

\* The inductive invariant of MultiRewardsDistributor.
TreesInv == AirdropTypeOK /\ ClaimedTypeOK /\ PaidAsNoted

LEMMA TreesFirst == DistributorInit => TreesInv
<1> SUFFICES ASSUME DistributorInit PROVE TreesInv
  OBVIOUS
<1>1. /\ wallet = [u \in User |-> 0]
      /\ amountClaimedByUserPerTreeId = [u \in User |-> [t \in TreeId |-> 0]]
  BY DEF DistributorInit, AirdropInit
<1>2. AirdropTypeOK
  BY AirdropAssumption DEF DistributorInit, AirdropInit, AirdropTypeOK
<1>3. ClaimedTypeOK
  BY <1>1 DEF ClaimedTypeOK
<1>4. PaidAsNoted
  <2> SUFFICES ASSUME NEW u \in User
               PROVE  wallet[u] = SumOver(amountClaimedByUserPerTreeId[u], TreeId)
    BY DEF PaidAsNoted
  <2> DEFINE none == [t \in TreeId |-> 0]
  <2>1. none \in [TreeId -> Nat] /\ \A t \in TreeId : none[t] = 0
    OBVIOUS
  <2>2. wallet[u] = 0 /\ amountClaimedByUserPerTreeId[u] = none
    BY <1>1
  <2> HIDE DEF none
  <2> QED BY <2>1, <2>2, SumZero
<1> QED BY <1>2, <1>3, <1>4 DEF TreesInv

\* A claim pays a user what it notes for it.
LEMMA TreesClaim ==
  ASSUME TreesInv, NEW u \in User, NEW list \in ClaimList, Claim(u, list)
  PROVE  TreesInv' /\ AmountToTransfer(u, list) \in Nat
<1> DEFINE n == AmountToTransfer(u, list)
           noted == [t \in TreeId |-> ClaimedAfter(u, list, t)]
<1>1. AirdropTypeOK /\ ClaimedTypeOK /\ PaidAsNoted
  BY DEF TreesInv
<1>2. /\ \A i \in DOMAIN list : list[i].amount > ClaimedBefore(u, list, i)
      /\ Pay(u, n)
      /\ amountClaimedByUserPerTreeId' = [amountClaimedByUserPerTreeId EXCEPT ![u] = noted]
      /\ UNCHANGED <<now, paused, lastPausedTimestamp, merkleRootUsed>>
  BY DEF Claim, pausing
<1>3. /\ n \in Nat /\ noted \in [TreeId -> Nat]
      /\ n + SumOver(amountClaimedByUserPerTreeId[u], TreeId) = SumOver(noted, TreeId)
  BY <1>1, <1>2, TransferIsNoted
<1> HIDE DEF n, noted
<1>4. /\ wallet \in [User -> Nat] /\ held \in Nat
      /\ amountClaimedByUserPerTreeId \in [User -> [TreeId -> Nat]]
  BY <1>1 DEF AirdropTypeOK, ClaimedTypeOK
<1>5. /\ held' \in Nat
      /\ wallet' = [wallet EXCEPT ![u] = @ + n]
      /\ lastClaim' = now
      /\ UNCHANGED received
  BY <1>2, <1>3, <1>4 DEF Pay
<1>6. AirdropTypeOK'
  <2>1. wallet' \in [User -> Nat] /\ lastClaim' \in Int
    BY <1>1, <1>3, <1>4, <1>5 DEF AirdropTypeOK
  <2> QED BY <1>1, <1>2, <1>5, <2>1 DEF AirdropTypeOK
<1>7. ClaimedTypeOK'
  BY <1>2, <1>3, <1>4 DEF ClaimedTypeOK
<1>8. PaidAsNoted'
  <2> SUFFICES ASSUME NEW v \in User
               PROVE  wallet'[v] = SumOver(amountClaimedByUserPerTreeId'[v], TreeId)
    BY DEF PaidAsNoted, SumOver, Units
  <2>1. wallet[v] = SumOver(amountClaimedByUserPerTreeId[v], TreeId)
    BY <1>1 DEF PaidAsNoted
  <2>2. CASE v = u
    <3>1. wallet'[v] = wallet[v] + n /\ amountClaimedByUserPerTreeId'[v] = noted
      BY <1>2, <1>4, <1>5, <2>2
    <3>2. wallet[v] \in Nat
      BY <1>4
    <3> QED BY <1>3, <2>1, <2>2, <3>1, <3>2
  <2>3. CASE v # u
    BY <1>2, <1>4, <1>5, <2>1, <2>3
  <2> QED BY <2>2, <2>3
<1> QED BY <1>3, <1>6, <1>7, <1>8 DEF TreesInv, n

\* So does every other transaction, which notes nothing and pays no user.
LEMMA TreesStep ==
  ASSUME contract # "ProtocolFees", TreesInv, [DistributorNext]_distributorVars
  PROVE  TreesInv'
<1>1. AirdropTypeOK /\ ClaimedTypeOK /\ PaidAsNoted
  BY DEF TreesInv
<1>2. ASSUME AirdropTypeOK', UNCHANGED <<wallet, amountClaimedByUserPerTreeId>>
      PROVE  TreesInv'
  BY <1>1, <1>2 DEF TreesInv, ClaimedTypeOK, PaidAsNoted, SumOver, Units
<1>3. ASSUME NEW u \in User, NEW list \in ClaimList, Claim(u, list) PROVE TreesInv'
  BY <1>3, TreesClaim
<1>4. ASSUME NEW list \in UpdateList, UpdateTradingRewards(list) PROVE TreesInv'
  <2>1. /\ merkleRootUsed' = merkleRootUsed \union {list[i].root : i \in DOMAIN list}
        /\ UNCHANGED <<now, pausing, paid, guards, amountClaimedByUserPerTreeId>>
    BY <1>4, Zenon DEF UpdateTradingRewards
  <2>2. \A i \in DOMAIN list : list[i].root \in Root \union {NoRoot}
    <3>1. PICK n \in Nat :
            list \in [1..n -> [treeId : TreeId, root : Root \union {NoRoot}, max : MaxAmounts]]
      BY ListPositions DEF UpdateList
    <3> QED BY <3>1
  <2>3. merkleRootUsed' \subseteq Root \union {NoRoot}
    BY <1>1, <2>1, <2>2 DEF AirdropTypeOK
  <2>4. AirdropTypeOK' /\ UNCHANGED wallet
    BY <1>1, <2>1, <2>3 DEF AirdropTypeOK, pausing, paid
  <2> QED BY <1>2, <2>1, <2>4
<1>5. CASE UNCHANGED <<airdropVars, amountClaimedByUserPerTreeId>>
  <2>1. AirdropTypeOK' /\ UNCHANGED wallet
    BY <1>1, <1>5 DEF AirdropTypeOK, airdropVars, pausing, paid
  <2> QED BY <1>2, <1>5, <2>1
<1>6. ASSUME NEW guard \in SafeGuard, AddNewTree(guard) PROVE TreesInv'
  BY <1>5, <1>6 DEF AddNewTree
<1>7. CASE DistributorAction /\ UNCHANGED treeVars
  <2>1. AirdropTypeOK' /\ UNCHANGED wallet
    BY <1>1, <1>7, SharedTypes DEF CommonAction
  <2> QED BY <1>2, <1>7, <2>1 DEF treeVars
<1>8. CASE UNCHANGED distributorVars
  BY <1>5, <1>8 DEF distributorVars, treeVars
<1> QED BY <1>3, <1>4, <1>6, <1>7, <1>8 DEF DistributorNext, ClaimNext, UpdateNext
-----------------------------------------------------------------------------
(* The four contracts side by side *)

MerkleInv == IF contract = "MultiRewards" THEN TreesInv ELSE RoundsInv

LEMMA MerkleFirst == Init => MerkleInv
<1> SUFFICES ASSUME Init PROVE MerkleInv
  OBVIOUS
<1>1. CASE RoundsInit
  BY <1>1, RoundsFirst DEF RoundsInit, Rounds, MerkleInv
<1>2. CASE contract = "MultiRewards" /\ DistributorInit
  BY <1>2, TreesFirst DEF MerkleInv
<1> QED BY <1>1, <1>2 DEF Init

LEMMA MerkleStep == MerkleInv /\ [Next]_vars => MerkleInv'
<1> SUFFICES ASSUME MerkleInv, [Next]_vars PROVE MerkleInv'
  OBVIOUS
<1>1. CASE contract = "MultiRewards"
  <2>1. [DistributorNext]_distributorVars /\ contract' = contract
    BY <1>1 DEF Next, vars, roundsVars, distributorVars
  <2> QED BY <1>1, <2>1, TreesStep DEF MerkleInv
<1>2. CASE contract # "MultiRewards"
  <2>1. [RoundsNext]_roundsVars
    BY <1>2 DEF Next, vars
  <2>2. contract # "MultiRewards" /\ RoundsInv
    BY <1>2 DEF MerkleInv
  <2>3. RoundsInv'
    BY <2>1, <2>2, RoundsStep
  <2>4. contract' # "MultiRewards"
    BY <2>3 DEF RoundsInv, RoundsTypeOK, Rounds
  <2> QED BY <2>3, <2>4 DEF MerkleInv
<1> QED BY <1>1, <1>2

\* In every behaviour of each of the four contracts, what a user was paid in
\* all is exactly what the contract has noted for it: over all its trees, or
\* in the last round it claimed in.
THEOREM PaidAsPublished == Spec => []PaidInAll
<1>1. MerkleInv => PaidInAll
  BY DEF MerkleInv, TreesInv, RoundsInv, PaidInAll
<1> QED BY <1>1, MerkleFirst, MerkleStep, PTL DEF Spec

\* Every claim is before the last pause, if the contract is paused.
ClaimedBeforePause ==
  contract # "ProtocolFees" =>
    lastClaim <= now /\ (paused => lastClaim <= lastPausedTimestamp)

\* A transaction that takes tokens which no user gets comes late enough.
TakenLate ==
  contract # "ProtocolFees" /\ held' < held /\ wallet' = wallet
    => now > lastClaim + BUFFER_ADMIN_WITHDRAW

\* A claim is made when there is no pause, and a user gets what it takes.
LEMMA ClaimInTime ==
  ASSUME AirdropTypeOK, NEW u \in User, NEW n \in Nat, Pay(u, n), ~paused,
         UNCHANGED <<contract, now, pausing>>
  PROVE  ClaimedBeforePause' /\ TakenLate
<1>1. /\ held \in Nat /\ now \in Nat /\ wallet \in [User -> Nat]
      /\ held' = held - n
      /\ wallet' = [wallet EXCEPT ![u] = @ + n]
      /\ lastClaim' = now
      /\ now' = now /\ paused' = paused /\ contract' = contract
  BY DEF AirdropTypeOK, Pay, pausing
<1>2. ClaimedBeforePause'
  BY <1>1 DEF ClaimedBeforePause
<1>3. ASSUME wallet' = wallet PROVE n = 0
  <2>1. wallet'[u] = wallet[u] + n /\ wallet[u] \in Nat
    BY <1>1
  <2> QED BY <1>3, <2>1
<1>4. TakenLate
  BY <1>1, <1>3 DEF TakenLate
<1> QED BY <1>2, <1>4

\* What the owner and time do to the contracts that pay LOOKS.
LEMMA OwnerInTime ==
  ASSUME AirdropTypeOK, ClaimedBeforePause, contract # "ProtocolFees", DistributorAction,
         contract' = contract
  PROVE  ClaimedBeforePause' /\ TakenLate
<1> USE DEF ClaimedBeforePause, TakenLate
<1>1. /\ held \in Nat /\ now \in Nat /\ lastPausedTimestamp \in Nat /\ lastClaim \in Int
      /\ BUFFER_ADMIN_WITHDRAW \in Nat
  BY AirdropAssumption DEF AirdropTypeOK
<1>2. CASE PauseDistribution
  BY <1>1, <1>2 DEF PauseDistribution, paid
<1>3. CASE UnpauseDistribution
  BY <1>1, <1>3 DEF UnpauseDistribution, paid
<1>4. ASSUME NEW n \in Receipts, WithdrawTokenRewards(n)
      PROVE  ClaimedBeforePause' /\ TakenLate
  BY <1>1, <1>4 DEF WithdrawTokenRewards, TakeBack, pausing
<1>5. ASSUME NEW n \in Receipts, Receive(n)
      PROVE  ClaimedBeforePause' /\ TakenLate
  <2>1. n \in Nat
    BY AmountTypes
  <2> QED BY <1>1, <1>5, <2>1 DEF Receive, Funded, pausing
<1>6. CASE Tick
  BY <1>1, <1>6 DEF Tick, pausing, paid
<1> QED BY <1>2, <1>3, <1>4, <1>5, <1>6 DEF DistributorAction

LEMMA InTime ==
  ASSUME MerkleInv, ClaimedBeforePause, [Next]_vars
  PROVE  ClaimedBeforePause' /\ TakenLate
<1>t. AirdropTypeOK
  BY DEF MerkleInv, TreesInv, RoundsInv, RoundsTypeOK
<1>u. held \in Nat
  BY <1>t DEF AirdropTypeOK
<1>1. CASE contract = "ProtocolFees" /\ contract' = contract
  BY <1>1 DEF ClaimedBeforePause, TakenLate
<1>2. CASE UNCHANGED <<contract, now, pausing, paid>>
  BY <1>2, <1>u DEF ClaimedBeforePause, TakenLate, pausing, paid
<1>3. CASE UNCHANGED vars
  BY <1>2, <1>3 DEF vars, roundsVars, airdropVars
<1>4. CASE contract = "MultiRewards" /\ DistributorNext /\ UNCHANGED contract
  <2>1. TreesInv
    BY <1>4 DEF MerkleInv
  <2>2. ASSUME NEW u \in User, NEW list \in ClaimList, Claim(u, list)
        PROVE  ClaimedBeforePause' /\ TakenLate
    <3>1. AmountToTransfer(u, list) \in Nat
      BY <2>1, <2>2, TreesClaim
    <3>2. ~paused /\ Pay(u, AmountToTransfer(u, list)) /\ UNCHANGED <<now, pausing>>
      BY <2>2 DEF Claim
    <3> QED BY <1>t, <1>4, <3>1, <3>2, ClaimInTime
  <2>3. ASSUME NEW list \in UpdateList, UpdateTradingRewards(list)
        PROVE  ClaimedBeforePause' /\ TakenLate
    <3>1. UNCHANGED <<now, pausing, paid>>
      BY <2>3, Zenon DEF UpdateTradingRewards
    <3> QED BY <1>2, <1>4, <3>1
  <2>4. ASSUME NEW guard \in SafeGuard, AddNewTree(guard)
        PROVE  ClaimedBeforePause' /\ TakenLate
    BY <1>2, <1>4, <2>4 DEF AddNewTree, airdropVars
  <2>5. CASE DistributorAction
    BY <1>t, <1>4, <2>5, OwnerInTime
  <2> QED BY <1>4, <2>2, <2>3, <2>4, <2>5 DEF DistributorNext, ClaimNext, UpdateNext
<1>5. CASE contract # "MultiRewards" /\ contract # "ProtocolFees" /\ RoundsNext
  <2>1. ASSUME NEW u \in User, NEW amount \in LeafAmount, ClaimRound(u, amount)
        PROVE  ClaimedBeforePause' /\ TakenLate
    <3> DEFINE n == Adjusted(u, amount)
    <3>1. n \in Nat
      <4>1. amountClaimedByUser[u] \in Nat /\ amount \in Nat
        BY <1>5, AmountTypes DEF MerkleInv, RoundsInv, RoundsTypeOK
      <4>2. n >= 0
        BY <2>1 DEF ClaimRound
      <4> QED BY <4>1, <4>2 DEF Adjusted
    <3>2. ~paused /\ Pay(u, n) /\ UNCHANGED <<contract, now, pausing>>
      BY <2>1 DEF ClaimRound
    <3> HIDE DEF n
    <3> QED BY <1>t, <3>1, <3>2, ClaimInTime
  <2>2. ASSUME NEW root \in Root \union {NoRoot}, NEW max \in MaxAmounts, UpdateRewards(root, max)
        PROVE  ClaimedBeforePause' /\ TakenLate
    BY <1>2, <2>2 DEF UpdateRewards, NewRound
  <2>3. CASE CommonAction /\ UNCHANGED contract
    BY <1>t, <1>5, <2>3, OwnerInTime DEF CommonAction
  <2> QED BY <1>5, <2>1, <2>2, <2>3
          DEF RoundsNext, OwnerAction, UpdateProtocolFeesDistribution, UpdateCanClaimUntil
<1>6. CASE contract = "ProtocolFees" /\ RoundsNext
  <2>1. contract' = contract
    BY <1>6 DEF RoundsNext, ClaimRound, OwnerAction, UpdateRewards, UpdateProtocolFeesDistribution,
                NewRound, UpdateCanClaimUntil
  <2> QED BY <1>1, <1>6, <2>1
<1> QED BY <1>3, <1>4, <1>5, <1>6 DEF Next

\* In every behaviour of the three distributors of LOOKS, the owner takes
\* tokens back only when for the whole buffer no one has been able to claim.
THEOREM OwnerWaits == Spec => AdminWaits
<1>1. Init => ClaimedBeforePause
  BY AirdropAssumption
     DEF Init, ClaimedBeforePause, RoundsInit, DistributorInit, AirdropInit
<1>2. MerkleInv /\ ClaimedBeforePause /\ [Next]_vars => ClaimedBeforePause'
  BY InTime
<1>3. MerkleInv /\ ClaimedBeforePause /\ [Next]_vars
        => [contract # "ProtocolFees" /\ held' < held /\ wallet' = wallet
              => now > lastClaim + BUFFER_ADMIN_WITHDRAW]_vars
  BY InTime DEF TakenLate
<1> QED BY <1>1, <1>2, <1>3, MerkleFirst, MerkleStep, PTL DEF Spec, AdminWaits
=============================================================================

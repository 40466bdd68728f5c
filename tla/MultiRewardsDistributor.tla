----------------------- MODULE MultiRewardsDistributor -----------------------
(***************************************************************************)
(* MultiRewardsDistributor.sol: several Merkle airdrops run side by side.   *)
(* The owner replaces the root of a tree each round; its leaves are the     *)
(* users with the amounts they may have claimed in all, so that a claim     *)
(* pays what is new.  Each tree has a safe guard, an account nobody can     *)
(* act for that is a leaf of every root made for the tree, so that a root   *)
(* meant for another tree is refused.                                       *)
(***************************************************************************)
EXTENDS MerkleAirdrop, Sums, Sequences, SequencesExt

CONSTANTS
  SafeGuard,              \* the accounts of the safe guards
  SAFE_GUARD_AMOUNT,
  MaxTrees,               \* bound on the number of trees
  MaxList                 \* bound on the arrays of a call

ASSUME DistributorAssumption ==
  /\ SafeGuard \subseteq Account \ User
  /\ SAFE_GUARD_AMOUNT \in Nat
  /\ MaxTrees \in Nat
  /\ MaxList \in Nat

TreeId == 0..(MaxTrees - 1)

VARIABLES
  numberTrees,
  safeGuard,                      \* treeParameters[t].safeGuard, for t < numberTrees
  merkleRoot,                     \* treeParameters[t].merkleRoot
  maxAmountPerUserInCurrentTree,  \* treeParameters[t].maxAmountPerUserInCurrentTree
  amountClaimedByUserPerTreeId,
  published                       \* history: the <<root, maximum>> pairs each tree was given

guards   == <<numberTrees, safeGuard>>
trees    == <<merkleRoot, maxAmountPerUserInCurrentTree, published>>
treeVars == <<guards, trees, amountClaimedByUserPerTreeId>>
distributorVars == <<airdropVars, treeVars>>

\* The constructor pauses the contract.
DistributorInit ==
  /\ AirdropInit
  /\ paused = TRUE
  /\ merkleRootUsed = {}
  /\ numberTrees = 0
  /\ safeGuard = <<>>
  /\ merkleRoot = [t \in TreeId |-> NoRoot]
  /\ maxAmountPerUserInCurrentTree = [t \in TreeId |-> 0]
  /\ amountClaimedByUserPerTreeId = [u \in User |-> [t \in TreeId |-> 0]]
  /\ published = [t \in TreeId |-> {}]
-----------------------------------------------------------------------------
(* claim *)

\* What u has claimed from the tree of round i when the loop reaches it: the
\* amount of the last round before for the same tree, if there is one.
ClaimedBefore(u, list, i) ==
  LET earlier == {j \in 1..(i - 1) : list[j].treeId = list[i].treeId} IN
  IF earlier = {}
  THEN amountClaimedByUserPerTreeId[u][list[i].treeId]
  ELSE list[CHOOSE j \in earlier : \A k \in earlier : k <= j].amount

AdjustedAmount(u, list, i) == list[i].amount - ClaimedBefore(u, list, i)

\* amountToTransfer after the rounds of the loop.
AmountToTransfer(u, list) ==
  LET n == Len(list) IN
  PartialSum([i \in 0..(n - 1) |-> AdjustedAmount(u, list, i + 1)], n)[n]

\* What the loop leaves in amountClaimedByUserPerTreeId for tree t.
ClaimedAfter(u, list, t) ==
  LET rounds == {i \in DOMAIN list : list[i].treeId = t} IN
  IF rounds = {}
  THEN amountClaimedByUserPerTreeId[u][t]
  ELSE list[CHOOSE i \in rounds : \A k \in rounds : k <= i].amount

\* Mutant: the maximum is not checked.
ClaimableBeyondMax(u, c) ==
  /\ c.treeId < numberTrees
  /\ IsLeaf(merkleRoot[c.treeId], u, c.amount)

Claimable(u, c) ==
  /\ c.treeId < numberTrees
  /\ IsLeaf(merkleRoot[c.treeId], u, c.amount)
  /\ c.amount <= maxAmountPerUserInCurrentTree[c.treeId]

\* list holds the treeIds and the amounts of the call.
Claim(u, list) ==
  /\ ~paused
  /\ list # <<>>
  /\ \A i \in DOMAIN list : Claimable(u, list[i]) /\ list[i].amount > ClaimedBefore(u, list, i)
  /\ Pay(u, AmountToTransfer(u, list))
  /\ amountClaimedByUserPerTreeId' =
       [amountClaimedByUserPerTreeId EXCEPT ![u] = [t \in TreeId |-> ClaimedAfter(u, list, t)]]
  /\ UNCHANGED <<now, pausing, merkleRootUsed, guards, trees>>
-----------------------------------------------------------------------------
(* The owner *)

\* The last round of an update that concerns tree t.
LastFor(list, t) == CHOOSE i \in DOMAIN list :
  /\ list[i].treeId = t
  /\ \A j \in DOMAIN list : list[j].treeId = t => j <= i

\* What the loop of updateTradingRewards requires of its round i.  (The safe
\* guard has never claimed, so the subtraction of _canClaim does not fail.)
Accepted(list, i) ==
  /\ list[i].treeId < numberTrees
  /\ list[i].root \notin merkleRootUsed \union {list[j].root : j \in 1..(i - 1)}
  /\ IsLeaf(list[i].root, safeGuard[list[i].treeId + 1], SAFE_GUARD_AMOUNT)

\* list holds the treeIds, the merkleRoots and the maxAmountsPerUser.
UpdateTradingRewards(list) ==
  LET updated == {list[i].treeId : i \in DOMAIN list}
      LastOf(t) == list[LastFor(list, t)]
  IN
  /\ list # <<>>
  /\ \A i \in DOMAIN list : Accepted(list, i)
  /\ merkleRoot' = [t \in TreeId |-> IF t \in updated THEN LastOf(t).root ELSE merkleRoot[t]]
  /\ maxAmountPerUserInCurrentTree' =
       [t \in TreeId |-> IF t \in updated THEN LastOf(t).max ELSE maxAmountPerUserInCurrentTree[t]]
  /\ published' =
       [t \in TreeId |->
          published[t] \union (IF t \in updated THEN {<<LastOf(t).root, LastOf(t).max>>} ELSE {})]
  /\ merkleRootUsed' = merkleRootUsed \union {list[i].root : i \in DOMAIN list}
  /\ UNCHANGED <<now, pausing, paid, guards, amountClaimedByUserPerTreeId>>

\* Mutant: two trees may have the same safe guard.
AddNewTreeSameGuard(guard) ==
  /\ numberTrees < MaxTrees
  /\ safeGuard' = Append(safeGuard, guard)
  /\ numberTrees' = numberTrees + 1
  /\ UNCHANGED <<airdropVars, trees, amountClaimedByUserPerTreeId>>

AddNewTree(guard) ==
  /\ numberTrees < MaxTrees
  /\ guard \notin ToSet(safeGuard)
  /\ safeGuard' = Append(safeGuard, guard)
  /\ numberTrees' = numberTrees + 1
  /\ UNCHANGED <<airdropVars, trees, amountClaimedByUserPerTreeId>>
-----------------------------------------------------------------------------
\* The arrays a call may be made with.
ClaimList == BoundedSeq([treeId : TreeId, amount : LeafAmount], MaxList)
UpdateList == BoundedSeq([treeId : TreeId, root : Root \union {NoRoot}, max : MaxAmounts], MaxList)

ClaimNext == \E u \in User, list \in ClaimList : Claim(u, list)
UpdateNext == \E list \in UpdateList : UpdateTradingRewards(list)

DistributorNext ==
  \/ ClaimNext
  \/ UpdateNext
  \/ \E guard \in SafeGuard : AddNewTree(guard)
  \/ DistributorAction /\ UNCHANGED treeVars

DistributorSpec == DistributorInit /\ [][DistributorNext]_distributorVars
-----------------------------------------------------------------------------
(* Properties *)

\* The type of every variable.
DistributorTypeOK ==
  /\ AirdropTypeOK
  /\ numberTrees \in 0..MaxTrees
  /\ safeGuard \in Seq(SafeGuard) /\ Len(safeGuard) = numberTrees
  /\ merkleRoot \in [TreeId -> Root \union {NoRoot}]
  /\ maxAmountPerUserInCurrentTree \in [TreeId -> Nat]
  /\ amountClaimedByUserPerTreeId \in [User -> [TreeId -> Nat]]
  /\ published \in [TreeId -> SUBSET (Root \X Nat)]

\* Every user has got exactly what the contract has noted, tree by tree: no
\* list of claims, with trees named twice and roots replaced in between,
\* pays one part of an airdrop again.
PaidAsNoted ==
  \A u \in User : wallet[u] = SumOver(amountClaimedByUserPerTreeId[u], TreeId)

\* What a user has had from a tree is nothing or one amount the owner once
\* published for that user in that tree, under the maximum published with
\* it: it is never a mix of amounts of different roots or trees.
ClaimsPublished ==
  \A u \in User, t \in TreeId :
    LET total == amountClaimedByUserPerTreeId[u][t] IN
    total # 0 => \E p \in published[t] : IsLeaf(p[1], u, total) /\ total <= p[2]

\* A root made for one tree, that is with the leaf of its safe guard and of no
\* other, is never in force in another tree: the owner cannot mix up the
\* trees, in whatever order roots and trees are added.
TreesApart ==
  \A s, t \in 0..(numberTrees - 1) :
    s # t => \A p \in published[t] : ~IsLeaf(p[1], safeGuard[s + 1], SAFE_GUARD_AMOUNT)
=============================================================================

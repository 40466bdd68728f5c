------------------------- MODULE MerkleDistributors -------------------------
(***************************************************************************)
(* The four Merkle distributors side by side, for what holds of all of      *)
(* them.  In a behaviour only the contract that `contract` names is used.   *)
(***************************************************************************)
EXTENDS MultiRewardsDistributor, RoundsDistributors

vars == <<roundsVars, treeVars>>

\* What the contract that is not used is left with.
NoTrees  == numberTrees = 0 /\ safeGuard = <<>>
            /\ merkleRoot = [t \in TreeId |-> NoRoot]
            /\ maxAmountPerUserInCurrentTree = [t \in TreeId |-> 0]
            /\ amountClaimedByUserPerTreeId = [u \in User |-> [t \in TreeId |-> 0]]
            /\ published = [t \in TreeId |-> {}]
NoRounds == merkleRootOfRound = <<>> /\ maxima = <<>>
            /\ amountClaimedByUser = [u \in User |-> 0]
            /\ hasUserClaimedForRound = [u \in User |-> {}]
            /\ canClaimUntil = 0

Init ==
  \/ contract = "MultiRewards" /\ DistributorInit /\ NoRounds
  \/ RoundsInit /\ NoTrees

Next ==
  \/ /\ contract = "MultiRewards"
     /\ DistributorNext
     /\ UNCHANGED <<contract, roundVars, claimVars, canClaimUntil>>
  \/ /\ contract # "MultiRewards"
     /\ RoundsNext
     /\ UNCHANGED treeVars

Spec == Init /\ [][Next]_vars
-----------------------------------------------------------------------------
\* The owner takes LOOKS back only when for the whole buffer no one has been
\* able to claim: the last claim is further back than that.  (The owner of
\* ProtocolFeesDistributor has no buffer to wait for.)
AdminWaits ==
  [][contract # "ProtocolFees" /\ held' < held /\ wallet' = wallet
       => now > lastClaim + BUFFER_ADMIN_WITHDRAW]_vars

\* PaidByLastClaim where there are rounds, PaidAsNoted where there are trees.
PaidInAll == IF contract = "MultiRewards" THEN PaidAsNoted ELSE PaidByLastClaim
=============================================================================

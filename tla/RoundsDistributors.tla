-------------------------- MODULE RoundsDistributors --------------------------
(***************************************************************************)
(* The distributors with one Merkle tree: TradingRewardsDistributor.sol,    *)
(* SeasonRewardsDistributor.sol and ProtocolFeesDistributor.sol.  A new     *)
(* root starts a new round; a user claims at most once in a round, and only *)
(* with the root of the current one, whose leaves hold what the users may   *)
(* have claimed in all rounds together.                                     *)
(*                                                                          *)
(* The three differ in how they start, in which roots they accept, and in   *)
(* what ProtocolFeesDistributor adds: roots change only while it is paused, *)
(* ETH may come with them, claims have a deadline, and the owner takes ETH  *)
(* back at any time.                                                        *)
(***************************************************************************)
EXTENDS MerkleAirdrop, Sequences

CONSTANT MaxRounds          \* bound on the number of rounds

ASSUME RoundsAssumption == MaxRounds \in Nat

Rounds == {"TradingRewards", "SeasonRewards", "ProtocolFees"}

VARIABLES
  contract,                           \* the one of the three this is
  merkleRootOfRound,                  \* the roots of rounds 1, 2, ...
  maxima,                             \* history: the maximum of every round; the
                                      \* contract keeps that of the current one
  amountClaimedByUser,
  hasUserClaimedForRound,             \* for every user, the rounds it claimed in
  canClaimUntil

roundVars == <<merkleRootOfRound, maxima>>
claimVars == <<amountClaimedByUser, hasUserClaimedForRound>>
roundsVars == <<contract, airdropVars, roundVars, claimVars, canClaimUntil>>

\* Only TradingRewardsDistributor starts paused; SeasonRewardsDistributor
\* marks the root bytes32(0) as used.
RoundsInit ==
  /\ contract \in Rounds
  /\ AirdropInit
  /\ paused = (contract = "TradingRewards")
  /\ merkleRootUsed = (IF contract = "SeasonRewards" THEN {NoRoot} ELSE {})
  /\ merkleRootOfRound = <<>>
  /\ maxima = <<>>
  /\ amountClaimedByUser = [u \in User |-> 0]
  /\ hasUserClaimedForRound = [u \in User |-> {}]
  /\ canClaimUntil = 0

currentRound == Len(merkleRootOfRound)
-----------------------------------------------------------------------------
(* claim *)

\* Round 0 has the root bytes32(0).
CurrentRoot == IF currentRound = 0 THEN NoRoot ELSE merkleRootOfRound[currentRound]
maximumAmountPerUserInCurrentTree == IF currentRound = 0 THEN 0 ELSE maxima[currentRound]

\* The first result of _canClaim.
CanUserClaim(u, amount) ==
  /\ IsLeaf(CurrentRoot, u, amount)
  /\ currentRound \notin hasUserClaimedForRound[u]

\* Mutant: every round pays the whole amount.
AdjustedWhole(u, amount) == amount

\* The second result of _canClaim, where the subtraction does not fail.
Adjusted(u, amount) == amount - amountClaimedByUser[u]

ClaimRound(u, amount) ==
  LET adjustedAmount == Adjusted(u, amount) IN
  /\ ~paused
  /\ contract = "ProtocolFees" => now < canClaimUntil
  /\ CanUserClaim(u, amount)
  /\ adjustedAmount >= 0
  /\ amount <= maximumAmountPerUserInCurrentTree
  /\ hasUserClaimedForRound' = [hasUserClaimedForRound EXCEPT ![u] = @ \union {currentRound}]
  /\ amountClaimedByUser' = [amountClaimedByUser EXCEPT ![u] = @ + adjustedAmount]
  /\ Pay(u, adjustedAmount)
  /\ UNCHANGED <<contract, now, pausing, merkleRootUsed, roundVars, canClaimUntil>>
-----------------------------------------------------------------------------
(* The owner and the operator *)

NewRound(root, max) ==
  /\ currentRound < MaxRounds
  /\ merkleRootOfRound' = Append(merkleRootOfRound, root)
  /\ maxima' = Append(maxima, max)
  /\ UNCHANGED <<contract, now, pausing, claimVars, canClaimUntil>>

\* updateTradingRewards and updateSeasonRewards.
UpdateRewards(root, max) ==
  /\ contract # "ProtocolFees"
  /\ root \notin merkleRootUsed
  /\ merkleRootUsed' = merkleRootUsed \union {root}
  /\ NewRound(root, max)
  /\ UNCHANGED paid

\* Called with `value` ETH; the same root may come again.
UpdateProtocolFeesDistribution(root, max, value) ==
  /\ contract = "ProtocolFees"
  /\ paused
  /\ NewRound(root, max)
  /\ Funded(value)
  /\ UNCHANGED merkleRootUsed

UpdateCanClaimUntil(timestamp) ==
  /\ contract = "ProtocolFees"
  /\ canClaimUntil' = timestamp
  /\ UNCHANGED <<contract, airdropVars, roundVars, claimVars>>

WithdrawETH(n) == contract = "ProtocolFees" /\ TakeBack(n)
-----------------------------------------------------------------------------
OwnerAction ==
  \E root \in Root \union {NoRoot}, max \in MaxAmounts :
    \/ UpdateRewards(root, max)
    \/ \E value \in Receipts \union {0} : UpdateProtocolFeesDistribution(root, max, value)

ProtocolFeesAction ==
  \/ Pause
  \/ UnpauseDistribution
  \/ \E n \in Receipts : WithdrawETH(n) \/ Receive(n)
  \/ Tick

CommonAction == IF contract = "ProtocolFees" THEN ProtocolFeesAction ELSE DistributorAction

RoundsNext ==
  \/ \E u \in User, amount \in LeafAmount : ClaimRound(u, amount)
  \/ OwnerAction
  \/ \E timestamp \in 0..(MaxTime + 1) : UpdateCanClaimUntil(timestamp)
  \/ CommonAction /\ UNCHANGED <<contract, roundVars, claimVars, canClaimUntil>>

RoundsSpec == RoundsInit /\ [][RoundsNext]_roundsVars
-----------------------------------------------------------------------------
(* Properties *)

\* The type of every variable.
RoundsTypeOK ==
  /\ contract \in Rounds
  /\ AirdropTypeOK
  /\ merkleRootOfRound \in Seq(Root \union {NoRoot})
  /\ maxima \in Seq(Nat) /\ Len(maxima) = currentRound
  /\ amountClaimedByUser \in [User -> Nat]
  /\ hasUserClaimedForRound \in [User -> SUBSET (1..currentRound)]
  /\ canClaimUntil \in Nat

\* However many rounds a user claimed in or skipped, and whatever amounts and
\* roots (also the same root again) the rounds had, the contract has paid it
\* in all exactly the amount the last of its rounds published for it, under
\* the maximum of that round.
PaidByLastClaim ==
  \A u \in User :
    /\ wallet[u] = amountClaimedByUser[u]
    /\ hasUserClaimedForRound[u] = {} => wallet[u] = 0
    /\ \A r \in hasUserClaimedForRound[u] :
         (\A s \in hasUserClaimedForRound[u] : s <= r)
           => IsLeaf(merkleRootOfRound[r], u, wallet[u]) /\ wallet[u] <= maxima[r]
=============================================================================

---------------------------- MODULE MerkleAirdrop ----------------------------
(***************************************************************************)
(* What the Merkle distributors share: MultiRewardsDistributor.sol,         *)
(* TradingRewardsDistributor.sol, SeasonRewardsDistributor.sol and          *)
(* ProtocolFeesDistributor.sol.  Users claim against a published root while *)
(* the contract is not paused; the owner takes tokens back while it is.     *)
(* The first three pay LOOKS, the fourth ETH.                               *)
(*                                                                          *)
(* A root stands for the set of its leaves: a Merkle proof exists for a     *)
(* leaf exactly if it belongs to the root's set.                            *)
(***************************************************************************)
EXTENDS Integers, FiniteSets

CONSTANTS
  Account,                \* the accounts leaves are made for
  User,                   \* those of them that claim
  Root,                   \* the Merkle roots the operator has computed
  NoRoot,                 \* bytes32(0)
  Leaves,                 \* the <<account, amount>> pairs of each root
  BUFFER_ADMIN_WITHDRAW,
  MaxAmounts,             \* maximum amounts per user the owner may set
  Receipts,               \* amounts in which tokens arrive and are taken back
  MaxReceived,            \* bound on the tokens that arrive
  MaxTime                 \* bound on block.timestamp

ASSUME AirdropAssumption ==
  /\ IsFiniteSet(Account)
  /\ User \subseteq Account
  /\ NoRoot \notin Root
  /\ Leaves \in [Root -> SUBSET (Account \X Nat)]
  /\ BUFFER_ADMIN_WITHDRAW \in Nat
  /\ MaxAmounts \subseteq Nat
  /\ Receipts \subseteq Nat
  /\ MaxReceived \in Nat
  /\ MaxTime \in Nat

VARIABLES
  now,                  \* block.timestamp
  paused,
  lastPausedTimestamp,
  merkleRootUsed,       \* the roots for which merkleRootUsed is set
  held,                 \* the tokens the contract holds
  received,             \* the tokens that arrived
  wallet,               \* the tokens each user has claimed
  lastClaim             \* history: the time of the last claim, if there was one

pausing     == <<paused, lastPausedTimestamp>>
paid        == <<held, received, wallet, lastClaim>>
airdropVars == <<now, pausing, merkleRootUsed, paid>>

\* The constructors that pause the contract note no time.
AirdropInit ==
  /\ now = 0
  /\ paused \in BOOLEAN
  /\ lastPausedTimestamp = 0
  /\ merkleRootUsed \in {{}, {NoRoot}}
  /\ held = 0
  /\ received = 0
  /\ wallet = [u \in User |-> 0]
  /\ lastClaim = -(BUFFER_ADMIN_WITHDRAW + 1)

\* The proof of _canClaim: <<account, n>> is a leaf of the root.
IsLeaf(root, account, n) == root # NoRoot /\ <<account, n>> \in Leaves[root]

\* The end of a claim: n tokens go to u.
Pay(u, n) ==
  /\ n <= held
  /\ held' = held - n
  /\ wallet' = [wallet EXCEPT ![u] = @ + n]
  /\ lastClaim' = now
  /\ UNCHANGED received

\* pause of ProtocolFeesDistributor.
Pause ==
  /\ ~paused
  /\ paused' = TRUE
  /\ UNCHANGED <<now, lastPausedTimestamp, merkleRootUsed, paid>>

PauseDistribution ==
  /\ ~paused
  /\ paused' = TRUE
  /\ lastPausedTimestamp' = now
  /\ UNCHANGED <<now, merkleRootUsed, paid>>

\* unpause of ProtocolFeesDistributor.
UnpauseDistribution ==
  /\ paused
  /\ paused' = FALSE
  /\ UNCHANGED <<now, lastPausedTimestamp, merkleRootUsed, paid>>

TakeBack(n) ==
  /\ n <= held
  /\ held' = held - n
  /\ UNCHANGED <<now, pausing, merkleRootUsed, received, wallet, lastClaim>>

\* Mutant: the time is counted from the deployment.
WithdrawTokenRewardsEarly(n) ==
  /\ paused
  /\ now > BUFFER_ADMIN_WITHDRAW
  /\ TakeBack(n)

WithdrawTokenRewards(n) ==
  /\ paused
  /\ now > lastPausedTimestamp + BUFFER_ADMIN_WITHDRAW
  /\ TakeBack(n)

\* n tokens arrive, with a transfer or with a call.
Funded(n) ==
  /\ received + n <= MaxReceived
  /\ received' = received + n
  /\ held' = held + n
  /\ UNCHANGED <<wallet, lastClaim>>

Receive(n) == Funded(n) /\ UNCHANGED <<now, pausing, merkleRootUsed>>

Tick ==
  /\ now < MaxTime
  /\ now' = now + 1
  /\ UNCHANGED <<pausing, merkleRootUsed, paid>>

\* What is the same in every contract but ProtocolFeesDistributor.
DistributorAction ==
  \/ PauseDistribution
  \/ UnpauseDistribution
  \/ \E n \in Receipts : WithdrawTokenRewards(n) \/ Receive(n)
  \/ Tick

\* The amounts the leaves hold.
LeafAmount == UNION {{leaf[2] : leaf \in Leaves[r]} : r \in Root}
-----------------------------------------------------------------------------
(* Properties *)

\* The type of every variable.
AirdropTypeOK ==
  /\ now \in Nat
  /\ paused \in BOOLEAN
  /\ lastPausedTimestamp \in 0..now
  /\ merkleRootUsed \subseteq Root \union {NoRoot}
  /\ held \in Nat
  /\ received \in Nat
  /\ wallet \in [User -> Nat]
  /\ lastClaim \in Int
=============================================================================

-------------------- MODULE OperatorControllerForRewardsV2 --------------------
(***************************************************************************)
(* OperatorControllerForRewardsV2.sol composed with what it operates: the   *)
(* TokenSplitter and, as the only holder of the operator role, the          *)
(* FeeSharingSetter and its FeeSharingSystem.  Its one transaction releases *)
(* LOOKS to three accounts, any of which may have nothing to release, and   *)
(* then starts the next period of fee sharing.                              *)
(***************************************************************************)
EXTENDS FeeSharingSetter, TokenSplitter

CONSTANTS teamVesting, treasuryVesting, tradingRewardsDistributor

ASSUME OperatorAssumption ==
  {teamVesting, treasuryVesting, tradingRewardsDistributor} \subseteq Account

operatorVars == <<systemVars, setterVars, splitterVars>>

OperatorInit == SetterInit /\ SplitterInit

\* Mutant: the period being over is enough.
CanReleaseAfterEnd == block > periodEndBlock

\* Mutant: what the comment of canRelease says.
CanReleaseGreater == lastUpdateBlock > periodEndBlock

\* The last checkpoint of the system is at the end of its period.
CanRelease == lastUpdateBlock = periodEndBlock

\* try tokenSplitter.releaseTokens(a) {} catch {}
TryRelease(s, a) == IF Releasable(s, a) THEN Released(s, a) ELSE s

\* Mutant: one try around the three releases.
ReleaseAllStopping(s) ==
  IF Releasable(s, teamVesting)
  THEN TryRelease(TryRelease(Released(s, teamVesting), treasuryVesting),
                  tradingRewardsDistributor)
  ELSE s

ReleaseAll(s) ==
  TryRelease(TryRelease(TryRelease(s, teamVesting), treasuryVesting),
             tradingRewardsDistributor)

ReleaseTokensAndUpdateRewards ==
  /\ CanRelease
  /\ splitter' = ReleaseAll(splitter)
  /\ UNCHANGED accountShares
  /\ SetterUpdateRewards

OperatorNext ==
  \/ ReleaseTokensAndUpdateRewards
  \/ OthersNext /\ UNCHANGED splitterVars
  \/ SplitterNext /\ UNCHANGED <<systemVars, setterVars>>

OperatorSpec == OperatorInit /\ [][OperatorNext]_operatorVars

\* A user of the system transacts after the end of a period that was not
\* checkpointed there.
LateCheckpoint ==
  /\ lastUpdateBlock < periodEndBlock
  /\ periodEndBlock < block
  /\ UserNext
  /\ UNCHANGED <<setterVars, splitterVars>>

\* Blocks pass, the owner of the controller calls it as long as that succeeds,
\* and once a period is over some user does not stay away for good.
OperatorFairness ==
  /\ WF_operatorVars(NextBlock /\ UNCHANGED <<setterVars, splitterVars>>)
  /\ WF_operatorVars(LateCheckpoint)
  /\ WF_operatorVars(ReleaseTokensAndUpdateRewards)

FairOperatorSpec == OperatorSpec /\ OperatorFairness
-----------------------------------------------------------------------------
(* Properties *)

\* No user loses what accrued: the reward a user may claim never falls but by
\* that user's own claim.  updateRewards of the system moves the clock without
\* storing the accumulator, so a period renewed before its last blocks were
\* checkpointed would drop what they accrued.
AccrualKept ==
  [][\A u \in User :
       \/ CalculatePendingRewards(u)' >= CalculatePendingRewards(u)
       \/ rewards'[u] = 0 /\ weth' = weth - CalculatePendingRewards(u)]_operatorVars

\* One release after the other leaves each of the three accounts nothing to
\* release, however the roundings fell and whichever of them reverted.
AllReleased ==
  [][ReleaseTokensAndUpdateRewards =>
       \A a \in {teamVesting, treasuryVesting, tradingRewardsDistributor} :
         CalculatePendingLooks(a)' = 0]_operatorVars

\* Fees never wait for ever behind a period that is over.  The controller
\* cannot make the checkpoint canRelease waits for, which it demands to be at
\* the end block exactly; any transaction of any user makes it, however late
\* and in whichever block.
RenewalReached ==
  block > periodEndBlock /\ pendingFees # 0 ~> block <= periodEndBlock
=============================================================================

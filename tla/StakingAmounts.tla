--------------------------- MODULE StakingAmounts ---------------------------
(***************************************************************************)
(* The two contracts whose users stake amounts: Staking1155 and Staking20.  *)
(* They share nothing but the clock; in a behaviour only the one that       *)
(* `contract` names is used.                                                *)
(***************************************************************************)
EXTENDS Staking1155

CONSTANTS
  InitialWallet, Received, InitialCondition, Ratios,   \* of Staking20
  REWARD_UNIT, STAKING_UNIT, MaxConditions20

ASSUME Staking20Assumption ==
  /\ InitialWallet \in [User -> Nat]
  /\ Received \in [StakeAmounts -> Nat]
  /\ \A n \in StakeAmounts \ {0} : Received[n] \in 1..n
  /\ InitialCondition \in (Nat \ {0}) \X (Nat \X (Nat \ {0}))
  /\ Ratios \subseteq Nat \X Nat
  /\ \A d \in (TimeUnits \ {0}) \cup {InitialCondition[1]} :
       \A ratio \in Ratios \cup {InitialCondition[2]} :
         ratio[2] # 0 => SCALE % (d * ratio[2]) = 0
  /\ REWARD_UNIT \in Nat \ {0} /\ STAKING_UNIT \in Nat \ {0}
  /\ MaxConditions20 \in Nat

VARIABLES
  contract,
  conditions20, stakingTokenBalance, stakersArray20, stakers20, heldStakes, wallet, owed20,
  rewardTokenBalance20, heldRewards20

Erc20 == INSTANCE Staking20 WITH
  stakingConditions <- conditions20, stakersArray <- stakersArray20,
  stakers <- stakers20, owed <- owed20, rewardTokenBalance <- rewardTokenBalance20,
  heldRewards <- heldRewards20, MaxConditions <- MaxConditions20

Only1155 == <<conditionVars, stakeVars, stakers, pot, owed>>
Only20   == <<conditions20, stakingTokenBalance, stakersArray20, stakers20, heldStakes, wallet,
              owed20, rewardTokenBalance20, heldRewards20>>

Init ==
  /\ contract \in {"Staking1155", "Staking20"}
  /\ Init1155
  /\ Erc20!Init20

Next ==
  /\ \/ contract = "Staking1155" /\ Next1155 /\ UNCHANGED Only20
     \/ contract = "Staking20" /\ Erc20!Next20 /\ UNCHANGED Only1155
  /\ UNCHANGED contract

Spec == Init /\ [][Next]_<<contract, now, Only1155, Only20>>

\* Stakes are there and accounted for: in either contract each staker is
\* listed once, with a record in range of the conditions, and Staking20 holds
\* what it counts as staked.
StakesAccounted == RecordsAgree /\ Erc20!RecordsAgree

\* Neither contract pays a second twice or at a rate that was not in force.
RewardsEarned == PaidByTheSecond /\ Erc20!PaidByTheSecond
=============================================================================

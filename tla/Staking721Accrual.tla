------------------------- MODULE Staking721Accrual --------------------------
(***************************************************************************)
(* What a staker of Staking721Base should get, counted by the second: each  *)
(* token earns rewardsPerUnitTime / timeUnit under the condition then in    *)
(* force.  The contract only computes it when somebody settles, over every  *)
(* condition passed since.                                                  *)
(***************************************************************************)
EXTENDS Staking721Base

CONSTANT SCALE     \* a common multiple of the time units

ASSUME ScaleAssumption ==
  SCALE \in Nat \ {0} /\ \A d \in (TimeUnits \ {0}) \cup {ctorTimeUnit} : SCALE % d = 0

VARIABLES
  owed,              \* SCALE times what u has earned and was not paid
  divisions          \* the divisions with a remainder that went into the
                     \* rewards of u

accrualVars == <<baseVars, owed, divisions>>

PerSecond(u) ==
  LET condition == Condition(nextConditionId - 1)
  IN amountStaked[u] * condition.rewardsPerUnitTime * (SCALE \div condition.timeUnit)

\* The divisions of a settlement of u that leave a remainder.
OpenDivisions(u) ==
  Cardinality({i \in conditionIdOflastUpdate[u]..(nextConditionId - 1) :
    ((EndTime(i) - StartTime(u, i)) * amountStaked[u] * Condition(i).rewardsPerUnitTime)
      % Condition(i).timeUnit # 0})

AccrualInit ==
  /\ BaseInit
  /\ owed = [u \in User |-> 0]
  /\ divisions = [u \in User |-> 0]

\* Staking again or withdrawing settles, with a division for every condition.
Settles(u) ==
  /\ divisions' = [divisions EXCEPT ![u] = @ + OpenDivisions(u)]
  /\ UNCHANGED owed

Paid(u) ==
  /\ owed' = [owed EXCEPT ![u] = @ - SCALE * (unclaimedRewards[u] + CalculateRewards(u))]
  /\ divisions' = [divisions EXCEPT ![u] = @ + OpenDivisions(u)]

AccrualNext ==
  \/ /\ Tick /\ UNCHANGED pot
     /\ owed' = [u \in User |-> owed[u] + PerSecond(u)]
     /\ UNCHANGED divisions
  \/ OwnerNext /\ UNCHANGED <<owed, divisions>>
  \/ \E u \in User :
       \/ StakeOrWithdraw(u) /\ Settles(u)
       \/ ClaimFromPot(u) /\ Paid(u)
       \/ TransferAround(u) /\ UNCHANGED <<owed, divisions>>

AccrualSpec == AccrualInit /\ [][AccrualNext]_accrualVars
-----------------------------------------------------------------------------
\* Whatever the changes of the time unit and of the rewards between two
\* settlements, no second is paid twice, or at a rate that was not in force.
NeverOverpaid == \A u \in User : SCALE * AvailableRewards(u) <= owed[u]

\* No second is lost either: what a staker misses is less than one unit for
\* every division that left a remainder, one per condition of a settlement.
LossBounded ==
  \A u \in User :
    owed[u] - SCALE * AvailableRewards(u) <= (SCALE - 1) * (divisions[u] + OpenDivisions(u))
=============================================================================

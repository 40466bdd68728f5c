--------------------------- MODULE VestingSchedule ---------------------------
(***************************************************************************)
(* How far VestingContractWithFeeSharing keeps to a linear schedule.  Two   *)
(* history variables note that the last unlock found less than its maximum, *)
(* and that this happened twice in a row.                                   *)
(***************************************************************************)
EXTENDS VestingContractWithFeeSharing

VARIABLES
  lastShort,
  twiceShort

ScheduleInit ==
  /\ VestingInit
  /\ lastShort = FALSE
  /\ twiceShort = FALSE

NotePeriod ==
  /\ UnlockPeriod
  /\ lastShort' = Short
  /\ twiceShort' = (twiceShort \/ (lastShort /\ Short))

\* The steps that leave the history as it is.
NoteNothing(A) == A /\ UNCHANGED <<lastShort, twiceShort>>

ScheduleNext ==
  \/ NotePeriod
  \/ NoteNothing(UnlockRest)
  \/ NoteNothing(WithdrawOtherCurrency)
  \/ \E n \in Receipts : NoteNothing(Receive(n) \/ ReceiveOther(n))
  \/ NoteNothing(VestingBlock)

scheduleVars == <<vestingVars, lastShort, twiceShort>>

ScheduleSpec == ScheduleInit /\ [][ScheduleNext]_scheduleVars

\* Blocks pass, and the owner unlocks whenever that gives something or ends a
\* period.
ScheduleFairness ==
  /\ WF_scheduleVars(NoteNothing(VestingBlock))
  /\ WF_scheduleVars(NotePeriod)
  /\ WF_scheduleVars(NoteNothing(UnlockRest))

FairScheduleSpec == ScheduleSpec /\ ScheduleFairness
-----------------------------------------------------------------------------
\* Unless two unlocks in a row found too little, the maximum of the next
\* period is exactly what brings the owner to the linear schedule.
ScheduleMet ==
  ~twiceShort /\ numberPastUnlocks < NUMBER_UNLOCK_PERIODS
    => unlocked + maxAmountToWithdrawForNextPeriod = LinearBy(numberPastUnlocks + 1)

\* No LOOKS stay in the contract for good, whether they came in excess of the
\* schedule, during the last period or after it.
AllUnlocked == balance > 0 ~> balance = 0
=============================================================================

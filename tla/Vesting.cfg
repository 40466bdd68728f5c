\* Four periods: two in a row that find too little, a third that finds enough,
\* and the last.
SPECIFICATION FairScheduleSpec
CONSTANTS
  VESTING_BETWEEN_PERIODS_IN_BLOCKS = 2
  START_BLOCK = 1
  NUMBER_UNLOCK_PERIODS = 4
  STANDARD_AMOUNT_UNLOCKED_AT_EACH_UNLOCK = 2
  Receipts = {1, 3}
  MaxReceived = 12
  MaxOther = 1
  MaxBlock = 10
INVARIANTS OnSchedule ScheduleMet
PROPERTY AllUnlocked

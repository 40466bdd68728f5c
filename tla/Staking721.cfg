SPECIFICATION AccrualSpec
CONSTANTS
  u1 = u1
  u2 = u2
  t1 = t1
  t2 = t2
  Nobody = Nobody
  Contract = Contract
  User <- MCUser
  Token <- MCToken
  InitialOwner <- MCInitialOwner
  ctorTimeUnit = 2
  ctorRewardsPerUnitTime = 1
  TimeUnits <- MCTimeUnits
  Rewards <- MCRewards
  Amounts <- MCAmounts
  UINT_MAX = 1000
  MaxConditions = 3
  MaxTime = 3
  MaxHeld = 1
  SCALE = 2
INVARIANTS IndexesAgree AlwaysSettleable NeverOverpaid LossBounded
CHECK_DEADLOCK FALSE
SYMMETRY Swap

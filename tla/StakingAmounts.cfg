SPECIFICATION Spec
CONSTANTS
  u1 = u1
  u2 = u2
  t1 = t1
  User <- MCUser
  Id <- MCId
  InitialHolding <- MCInitialHolding
  StakeAmounts = {1, 2}
  defaultTimeUnit = 2
  defaultRewardsPerUnitTime = 1
  TimeUnits = {0, 1, 2}
  Rewards = {1, 2}
  UINT_MAX = 1000
  SCALE = 2
  Amounts = {1}
  InitialWallet <- MCInitialWallet
  Received <- MCReceived
  InitialCondition <- MCInitialCondition
  Ratios <- MCRatios
  REWARD_UNIT = 1
  STAKING_UNIT = 2
  MaxConditions20 = 2
  MaxHeld = 1
  MaxConditions = 3
  MaxTime = 3
INVARIANTS SettleableAcrossDefaults RewardsEarned StakesAccounted
SYMMETRY Symmetry
CHECK_DEADLOCK FALSE

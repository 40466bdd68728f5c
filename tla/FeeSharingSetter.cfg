SPECIFICATION SetterSpec
CONSTANTS
  u1 = u1
  u2 = u2
  User <- MCUser
  PRECISION_FACTOR = 2
  InitialWallet <- MCInitialWallet
  Compounds = {0}
  LOOKS_SUPPLY = 3
  OwnerRewards = {1}
  OwnerDurations = {2}
  WETH_SUPPLY = 3
  MaxBlock = 4
  MIN_REWARD_DURATION_IN_BLOCKS = 1
  MAX_REWARD_DURATION_IN_BLOCKS = 2
  InitialDuration = 1
  Fees = {1, 2}
INVARIANTS ClocksAgree ClaimsFunded

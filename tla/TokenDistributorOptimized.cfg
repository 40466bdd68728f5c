SPECIFICATION OptimizedSpec
CONSTANTS
  User = {u1, u2}
  PRECISION_FACTOR = 1
  START_BLOCK = 0
  NUMBER_PERIODS = 3
  stakingPeriod <- MCStakingPeriod
  Premint = 4
  SUPPLY_CAP = 10
  InitialWallet <- MCInitialWallet
  DeployerMints = {1}
  MaxBlock = 4
  UINT_MAX = 14
SYMMETRY Users
INVARIANT SamePreview
PROPERTY ImplementsOriginal

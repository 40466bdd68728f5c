SPECIFICATION BackingSpec
CONSTANTS
  User = {u1, u2}
  PRECISION_FACTOR = 3
  START_BLOCK = 1
  NUMBER_PERIODS = 3
  stakingPeriod <- MCStakingPeriod
  Premint = 4
  SUPPLY_CAP = 12
  InitialWallet <- MCInitialWallet
  DeployerMints = {1}
  MaxBlock = 6
  MaxSettlements = 4
SYMMETRY Users
INVARIANTS StakesSound PreviewExact BackedUpToRounding
PROPERTY EmissionSpec

SPECIFICATION FairOperatorSpec
CONSTANTS
  u1 = u1
  u2 = u2
  User <- MCUser
  PRECISION_FACTOR = 2
  InitialWallet <- MCInitialWallet
  Compounds = {0}
  LOOKS_SUPPLY = 3
  OwnerRewards = {}
  OwnerDurations = {}
  WETH_SUPPLY = 2
  MaxBlock = 3
  MIN_REWARD_DURATION_IN_BLOCKS = 1
  MAX_REWARD_DURATION_IN_BLOCKS = 1
  InitialDuration = 1
  Fees = {1}
  a1 = a1
  a2 = a2
  a3 = a3
  Account <- MCAccount
  ctorAccounts <- MCAccounts
  ctorShares <- MCShares
  NUMBER_ACCOUNTS = 2
  Receipts = {1, 2}
  MaxReceived = 2
  teamVesting = a1
  treasuryVesting = a2
  tradingRewardsDistributor = a3
INVARIANT ReleasesCovered
PROPERTIES DueKept AccrualKept AllReleased RenewalReached

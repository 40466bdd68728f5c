\* Three users and two tiers, so that a list may be changed, a listed user may
\* stay away, and the WETH does not divide evenly.
SPECIFICATION SaleSpec
CONSTANTS
  User = {u1, u2, u3}
  NUMBER_TIERS = 2
  MAX_BLOCK_FOR_WITHDRAWAL = 2
  TOTAL_LOOKS_DISTRIBUTED = 4
  Costs = {1, 2}
  Prices = {1, 2}
  LooksReceipts = {4}
  WethReceipts = {1, 3}
  MaxLooks = 4
  MaxWeth = 4
  MaxBlock = 3
INVARIANTS LooksCovered RewardsCovered

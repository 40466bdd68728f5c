SPECIFICATION AggregatorSpec
CONSTANTS
  User = {u1, u2, agg, market}
  Aggregator = agg
  Market = market
  Direct = {u1}
  PRECISION_FACTOR = 2
  InitialWallet <- MCInitialWallet
  Compounds = {0, 1}
  LOOKS_SUPPLY = 7
  OwnerRewards = {2}
  OwnerDurations = {2}
  WETH_SUPPLY = 2
  MaxBlock = 3
  DepositAmounts = {2}
  RedeemAmounts = {1}
  AmountsOut = {1}
  MAXIMUM_HARVEST_BUFFER_BLOCKS = 1
  Buffers = {0}
  Thresholds = {0}
  MaxPrices = {0}
  TradingFees = {3000}
INVARIANTS SharesSound NoCheckpointReverts SecondarySharesBacked WithdrawalsOpen
PROPERTIES SharePriceNeverFalls EarnedOrSold NobodyElsePays

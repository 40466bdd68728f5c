SPECIFICATION BudgetSpec
CONSTANTS
  User = {u1, u2}
  PRECISION_FACTOR = 3
  START_BLOCK = 1
  FirstEndBlock = 2
  Rates = {1, 2}
  FirstRate = 2
  InitialWallet <- MCInitialWallet
  Fundings = {4}
  MaxLooks = 4
  MaxBlock = 5
  MaxSettlements = 3
SYMMETRY Users
INVARIANT CreditedWithinGrant

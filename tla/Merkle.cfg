SPECIFICATION Spec
CONSTANTS
  u1 = u1
  u2 = u2
  g1 = g1
  g2 = g2
  a1 = a1
  a2 = a2
  b1 = b1
  b2 = b2
  Account = {u1, u2, g1, g2}
  User = {u1, u2}
  SafeGuard = {g1, g2}
  Root = {a1, a2, b1, b2}
  NoRoot = NoRoot
  Leaves <- MCLeaves
  SAFE_GUARD_AMOUNT = 1
  BUFFER_ADMIN_WITHDRAW = 1
  MaxAmounts = {1, 2}
  Receipts = {1}
  MaxTrees = 2
  MaxList = 2
  MaxRounds = 3
  MaxReceived = 2
  MaxTime = 2
INVARIANTS ClaimsPublished TreesApart PaidInAll
PROPERTY AdminWaits

CONSTANTS
  mm1 = mm1
  mm2 = mm2
  u1 = u1
  Users <- MCUsers
  Prices <- MCPrices
  Quantities <- MCQuantities
  Amounts <- MCAmounts
  InitUsers <- MCInitUsers
  InitAsks <- MCInitAsks
  InitBids <- MCInitBids
  MaxCalls = 2


SPECIFICATION Spec
INVARIANT FundsConserved

CONSTANTS
  mm1 = mm1
  mm2 = mm2
  u1 = u1
  Users <- MCUsers
  Prices <- MCPrices
  Quantities <- MCQuantities
  Amounts <- MCAmounts
  InitUsers <- MCInitUsers
  InitAsks <- MCInitAsks
  InitBids <- MCInitBids
  MaxCalls = 3

SPECIFICATION Spec
INVARIANT TypeOK
INVARIANT BookNotCrossed
PROPERTY SettlementConserves
PROPERTY FifoLimitMatching

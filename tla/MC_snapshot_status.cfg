CONSTANTS
  c1 = c1
  c2 = c2
  anon = anon
  Anonymous = anon
  Prices <- MCPrices
  Quantities <- MCQuantities
  Clients <- OneClient
  OrderTypes <- LimitMarket
  SnapshotOps = TRUE
  MaxSubmissions = 3

SPECIFICATION Spec
INVARIANT StatusReflectsFill

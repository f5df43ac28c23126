CONSTANTS
  c1 = c1
  c2 = c2
  anon = anon
  Anonymous = anon
  Prices <- MCPrices
  Quantities <- OneLot
  Clients <- OneClient
  OrderTypes <- StopTypes
  SnapshotOps = FALSE
  MaxSubmissions = 4

SPECIFICATION Spec
INVARIANT BookUncrossed
INVARIANT LiveOrdersRest
PROPERTY CascadeTerminates

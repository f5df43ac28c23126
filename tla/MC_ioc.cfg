CONSTANTS
  c1 = c1
  c2 = c2
  anon = anon
  Anonymous = anon
  Prices <- MCPrices
  Quantities <- MCQuantities
  Clients <- OneClient
  OrderTypes <- IocTypes
  SnapshotOps = FALSE
  MaxSubmissions = 2

SPECIFICATION Spec
INVARIANT IocNeverRests

CONSTANTS
  c1 = c1
  c2 = c2
  anon = anon
  Anonymous = anon
  Prices <- MCPrices
  Quantities <- MCQuantities
  Clients <- LedgerClients
  OrderTypes <- LimitMarket
  SnapshotOps = FALSE
  MaxSubmissions = 4

SPECIFICATION Spec
PROPERTY PositionAvgKeptOnReduce

CONSTANTS
  c1 = c1
  c2 = c2
  anon = anon
  Anonymous = anon
  Prices <- MCPrices
  PriceInputs <- ValidStopPriceInputs
  Quantities <- MCQuantities
  Clients <- OneClient
  OrderTypes <- StopTypes
  SnapshotOps = FALSE
  MaxSubmissions = 4

SPECIFICATION Spec
PROPERTY StopFiresAtLatestPrice

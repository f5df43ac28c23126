CONSTANTS
  c1 = c1
  c2 = c2
  anon = anon
  Anonymous = anon
  Prices <- MCPrices
  Quantities <- MCQuantities
  Clients <- LedgerClients
  OrderTypes <- CoreTypes
  SnapshotOps = FALSE
  MaxSubmissions = 3

SPECIFICATION Spec
INVARIANT TypeOK
INVARIANT BookUncrossed
INVARIANT LiveOrdersRest
INVARIANT StatusReflectsFill
INVARIANT FillsMatchTrades
INVARIANT MarketDataFresh
INVARIANT NetPositionsMatchTrades
PROPERTY TerminalStaysTerminal

\* A limit below the number of clients, and one that is not.
CONSTANTS
  Clients = {a, b}
  AuthToken = "right"
  MaxClientChoices = {1, 2}
  Closes = {1}
  MaxSnapshots = 2
  MaxCandles = 1
  MaxVisits = 2
  Connections = {c1, c2, c3}
  ProxyAnswers = TRUE
  ExchangeEnds = TRUE
  o1 = o1
  o2 = o2
  o3 = o3
  Orders = {o1, o2, o3}
  OrderId <- MCOrderId
  MarketOf <- MCMarketOf
  StrategyOf <- MCStrategyOf
  Pnls <- MCPnls
  MaxTime = 3
  kNsPerDay = 2
SPECIFICATION ServicesSpec
INVARIANTS ClientsGetTheLatest RecordsMatchTheGuard QueriesAgree
PROPERTIES StopEnds TunnelStops
\* Each component stops in the end.
CHECK_DEADLOCK FALSE

\* Complete frames, and a connection that drops once.
CONSTANTS
  BTC = BTC
  ETH = ETH
  BookSymbols = {BTC, ETH}
  symbols <- MCSymbols
  Levels = {bid, ask}
  BookQuantities = {0, 1}
  MayLackFields = FALSE
  MaxUpdates = 4
  MaxWire = 2
  MaxDrops = 1
  m_capacity = 1
  Readers = {}
  MaxPushes = 0
  Symbols = {BTC}
  Sides = {"Buy"}
  Quantities = {0, 1, 2}
  FillPrices = {1}
  m_marketType = "Spot"
  Pollers = {p1}
  IoThread = io
  EventHasResult = TRUE
  MayDisconnect = TRUE
  MaxOrders = 0
SPECIFICATION MarketSpec
INVARIANT BooksAreRight
CHECK_DEADLOCK FALSE

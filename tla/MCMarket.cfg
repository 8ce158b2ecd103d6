\* The feed: two symbols of one bid and one ask level, three changes of them,
\* two frames on the way, a connection that drops once.
\* The ring: three slots and seven pushes: it wraps around twice while one reader
\* copies.  Readers write nothing, so one shows what any of them can see.
\* The tracker: two orders of up to two lots; a poller races the pushed updates.  Symbols,
\* sides and prices are only copied, so one of each is enough.
CONSTANTS
  BTC = BTC
  ETH = ETH
  BookSymbols = {BTC, ETH}
  symbols <- MCSymbols
  Levels = {bid, ask}
  BookQuantities = {0, 1}
  MayLackFields = TRUE
  MaxUpdates = 4
  MaxWire = 2
  MaxDrops = 1
  m_capacity = 3
  Readers = {r1}
  MaxPushes = 7
  Symbols = {BTC}
  Sides = {"Buy"}
  Quantities = {0, 1, 2}
  FillPrices = {1}
  m_marketType = "Spot"
  Pollers = {p1}
  IoThread = io
  EventHasResult = TRUE
  MayDisconnect = TRUE
  MaxOrders = 2
SPECIFICATION MarketSpec
INVARIANTS SnapshotsAreConsistent BooksFollowTheExchange ReportIsFinal
PROPERTIES SnapshotsReturn ImplementsLifecycle
CHECK_DEADLOCK FALSE

\* Two buys in flight at once.
CONSTANTS
  Symbols = {BTC}
  Sides = {"Buy"}
  Quantities = {0, 1}
  FillPrices = {1}
  SignalPrices = {1}
  m_marketType = "Spot"
  Pollers = {}
  IoThread = io
  EventHasResult = TRUE
  MayDisconnect = FALSE
  MaxOrders = 2
  maxPositionNotional = 3
  maxSymbolNotional = 3
  maxOpenPositions = 3
  maxRetries = 0
  MaxIds = 3
SPECIFICATION PipelineSpec
INVARIANT InFlightOrdersStayReserved
CHECK_DEADLOCK FALSE

\* One symbol, three evaluations, two orders of one lot each and two slots, so
\* that a third evaluation finds them taken or released.  A request may be sent
\* twice, and so accepted twice.  A poller races the client's thread, and each
\* runs completion handlers.  Orders fill above the quoted price, so that a fill
\* may be refused.
CONSTANTS
  Symbols = {BTC}
  Sides = {"Buy", "Sell"}
  Quantities = {0, 1}
  FillPrices = {2}
  SignalPrices = {1}
  m_marketType = "Spot"
  Pollers = {p1}
  IoThread = io
  EventHasResult = TRUE
  MayDisconnect = TRUE
  MaxOrders = 2
  maxPositionNotional = 3
  maxSymbolNotional = 3
  maxOpenPositions = 2
  maxRetries = 1
  MaxIds = 3
SPECIFICATION PipelineSpec
INVARIANTS ReservationsHaveOneOwner CompletedOrdersHoldNothing FillsAreBookedOnce PositionsAreBacked
PROPERTY ImplementsTracker
CHECK_DEADLOCK FALSE

\* The value the channel callback gets is the one GateWsChannels::dispatch passes:
\* the content of "result", which has no "result" field of its own.
CONSTANTS
  Symbols = {BTC}
  Sides = {"Buy"}
  Quantities = {0, 1}
  FillPrices = {1}
  SignalPrices = {1}
  m_marketType = "Spot"
  Pollers = {}
  IoThread = io
  EventHasResult = FALSE
  MayDisconnect = FALSE
  MaxOrders = 1
  maxPositionNotional = 3
  maxSymbolNotional = 3
  maxOpenPositions = 3
  maxRetries = 0
  MaxIds = 3
SPECIFICATION PipelineSpec
PROPERTY EndingUpdatesAreApplied
CHECK_DEADLOCK FALSE

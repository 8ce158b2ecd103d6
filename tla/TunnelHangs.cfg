\* The proxy answers every CONNECT; the exchange need not end a connection.
CONSTANTS
  Connections = {c1}
  ProxyAnswers = TRUE
  ExchangeEnds = FALSE
SPECIFICATION TunnelSpec
PROPERTY TunnelStops
CHECK_DEADLOCK FALSE

\* Two callers, three calls, a removable channel, a reconnection, a stop.
CONSTANTS
  feed = feed
  tracker = tracker
  tickers = tickers
  books = books
  orders = orders
  IO = io
  Callers <- MCCallers
  Channels <- MCChannels
  Private <- MCPrivate
  Removable <- MCRemovable
  MaxCalls = 3
  MaxAttempts = 2
SPECIFICATION FairWsSpec
INVARIANTS KeptChannelsAreSent StateFollowsConnection
PROPERTIES KeptChannelsArrive
CHECK_DEADLOCK FALSE

\* Two strategies with a feed, one of them disabled, one without feed; two starts.
CONSTANTS
  Strategies = {momentum, books, orphan}
  Disabled = {books}
  WithoutFeed = {orphan}
  MaxMinutes = 2
  MaxVersions = 2
  MaxStarts = 2
SPECIFICATION ManagerSpec
INVARIANTS ManagerTypeOK
CHECK_DEADLOCK FALSE

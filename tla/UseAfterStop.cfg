\* The poll thread pushes while the server is stopped.
CONSTANTS
  Clients = {a}
  AuthToken = "right"
  MaxClientChoices = {1}
  Closes = {1}
  MaxSnapshots = 2
  MaxCandles = 0
  MaxVisits = 1
SPECIFICATION WebSpec
INVARIANT PublishFnIsAlive
CHECK_DEADLOCK FALSE

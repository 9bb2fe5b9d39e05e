CONSTANTS
  Clients = {c1}
  MAX_WINDOW_SIZE = 10
  MaxSockets = 2
SPECIFICATION FairSpec
INVARIANTS TypeOK ConnectedMeansAnswered TransferCanStart
PROPERTIES ClientConnects NothingWaitsForever
CHECK_DEADLOCK FALSE

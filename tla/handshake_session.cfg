CONSTANTS
  Clients = {c1}
  MAX_WINDOW_SIZE = 10
  MaxSockets = 2
SPECIFICATION Spec
INVARIANT CommandsReachSession
CHECK_DEADLOCK FALSE

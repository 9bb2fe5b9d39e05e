SPECIFICATION FairSpec
CONSTANTS
  FirstPort = 30206
  TypedPorts = {30207, 21}
  MaxCommands = 6
  MaxTimeouts = 1
INVARIANTS
  TypeOK
  LagBounded
PROPERTY PromptReturns
CHECK_DEADLOCK FALSE

SPECIFICATION FairSpec
CONSTANT Clients = {c1, c2}
INVARIANTS
  TypeOK
  ListenerStays
PROPERTIES
  GoodbyeBeforeClose
  
  ImplementsShutdown
CHECK_DEADLOCK FALSE

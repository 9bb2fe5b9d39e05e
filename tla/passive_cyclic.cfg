SPECIFICATION FairCyclicSpec
CONSTANTS
  Sessions = {s1, s2, s3}
  Ports = {30080, 30081}
  NoPort = NoPort
  Nobody = Nobody
INVARIANTS
  UniquePort
  PoolAgreesWithSessions
PROPERTY ImplementsAllocator PortsRecycled

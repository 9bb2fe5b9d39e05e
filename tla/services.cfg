SPECIFICATION ServicesSpec
CONSTANTS
  Clients = {c1, dns}
  DnsHost = dns
  Addresses = {2, 3}
  None = None
  MaxRuns = 3
  Askers = {a1}
  Foreign = {a1}
  MaxAsked = 1
INVARIANTS
  ServicesTypeOK
  PoolExact
  LeaseIsGenuine
  AnswersBounded
  ServesWithLease
PROPERTIES
  AckedOnce
CHECK_DEADLOCK FALSE

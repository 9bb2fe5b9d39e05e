SPECIFICATION Spec
CONSTANTS
  Sessions = {s1, s2}
  Ports = {30080, 30081}
  NoPort = NoPort
  Nobody = Nobody
INVARIANT UniquePort

SPECIFICATION Spec
CONSTANTS
  Sessions = {s1, s2, s3}
  Ports = {30080, 30081}
  NoPort = NoPort
  Nobody = Nobody
SYMMETRY Symmetry
INVARIANTS
  TypeOK
  QuietBetweenCommands
  NothingBeforeLogin
  ModeMatchesSocket

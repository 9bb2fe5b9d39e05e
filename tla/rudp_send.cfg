SPECIFICATION FairSpec
CONSTANTS
  MTU = 4
  HEADER_LENGTH = 1
  Slots = 2
  MAX_WINDOW_SIZE = 4
  MAX_SEND_RETRIES = 1
  MaxSequenceNumber = 65535
  StartNumbers = {1, 65534}
  MessageLengths = {9}
  MaxMessages = 1
  MaxFaults = 1
  MaxRounds = 1
  MaxTimeouts = 1
INVARIANTS
  TypeOK
  OkMeansStored
  WindowRespected
  WindowEarned
PROPERTIES
  RoundIsStable
  SendAdvances
  SendTerminates
CHECK_DEADLOCK FALSE

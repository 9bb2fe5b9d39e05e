SPECIFICATION TurnSpec
CONSTANTS
  MTU = 4
  HEADER_LENGTH = 1
  Slots = 5
  MAX_WINDOW_SIZE = 4
  MAX_SEND_RETRIES = 4
  MaxSequenceNumber = 65535
  StartNumbers = {1}
  MessageLengths = {1}
  MaxMessages = 2
  MaxFaults = 0
  MaxRounds = 0
  MaxTimeouts = 0
INVARIANTS
  AllDelivered
CHECK_DEADLOCK FALSE

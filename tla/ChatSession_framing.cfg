\* A line of 255 characters, the longest that message.h allows.
SPECIFICATION Spec
CONSTANTS
  RoomNames = {lobby}
  NoRoom = NoRoom
  DataLengths = {1, 247}
  NamesLength = 16
  MAX_LEN = 255
  Limits = {3}
  MaxRequests = 3
CHECK_DEADLOCK FALSE
INVARIANTS LegalLinesKeepStep

\* A line that is read whole and, with the names in front, cannot be delivered.
SPECIFICATION Spec
CONSTANTS
  RoomNames = {lobby}
  NoRoom = NoRoom
  DataLengths = {1, 246}
  NamesLength = 16
  MAX_LEN = 255
  Limits = {3}
  MaxRequests = 3
CHECK_DEADLOCK FALSE
PROPERTIES QueuedIsPrinted

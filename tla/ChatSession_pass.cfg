\* Lines of one character, of the longest a delivery can carry, and too long.
SPECIFICATION Spec
CONSTANTS
  RoomNames = {lobby, den}
  NoRoom = NoRoom
  DataLengths = {1, 229, 256}
  NamesLength = 16
  MAX_LEN = 255
  Limits = {1, 3}
  MaxRequests = 3
CHECK_DEADLOCK FALSE
INVARIANTS TypeOK InStep AckedIsBroadcast HearsTheRoom
PROPERTIES RequestAnswered ServerEndIsNoticed QueuedIsPrinted WorkerEnds

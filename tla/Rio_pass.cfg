CONSTANTS
  RIO_BUFSIZE = 3
  MAX_LEN = 4
  MessageLists <- Messages
  MaxLength = 8
SPECIFICATION Spec
INVARIANTS TypeOK EveryCharOnce
PROPERTIES ImplementsLineStream MessageIsReceived
CHECK_DEADLOCK FALSE

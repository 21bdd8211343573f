\* Two senders of two requests and two receivers meet in one room name.
SPECIFICATION Spec
CONSTANTS
  Senders = {s1, s2}
  Receivers = {r1, r2}
  RoomNames = {lobby}
  Rooms = {rm1, rm2}
  MaxRequests = 2
  NoThread = NoThread
  NoRoom = NoRoom
  NoName = NoName
  NoMessage = NoMessage
CHECK_DEADLOCK FALSE
INVARIANTS TypeOK PendingIsLog
PROPERTIES MembersStable ImplementsRoomLog BroadcastEnds QueueDrains

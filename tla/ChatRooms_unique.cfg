\* The race of find_or_create_room on the map of rooms.
SPECIFICATION Spec
CONSTANTS
  Senders = {s1}
  Receivers = {r1, r2}
  RoomNames = {lobby}
  Rooms = {rm1, rm2}
  MaxRequests = 2
  NoThread = NoThread
  NoRoom = NoRoom
  NoName = NoName
  NoMessage = NoMessage
CHECK_DEADLOCK FALSE
PROPERTIES ReturnsUniqueRoom

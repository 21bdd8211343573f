------------------------------ MODULE ChatRooms ------------------------------
(***************************************************************************)
(* The rooms of the chat server (csf_assign05): Server's map of rooms,     *)
(* class Room, and the loops of the worker threads that use them, one      *)
(* worker for each connected sender and receiver.                          *)
(*                                                                         *)
(* A worker is cut where another can run: at the calls of                  *)
(* find_or_create_room, which takes no lock, at every operation on a room's*)
(* mutex, at each enqueue of a broadcast, and at each dequeue and send of a*)
(* receiver.  The queue of a User is the FIFO that MessageQueue implements.*)
(***************************************************************************)
EXTENDS Naturals, Sequences, FiniteSets, SequencesExt

CONSTANTS Senders,      \* workers of clients that logged in with slogin
          Receivers,    \* workers of clients that logged in with rlogin
          RoomNames,    \* the names clients join
          Rooms,        \* bound: the addresses `new Room` can return
          MaxRequests,  \* bound: requests of one sender
          NoThread,     \* the mutex of a room is free
          NoRoom,       \* nullptr, for a Room
          NoName,       \* no name asked for
          NoMessage     \* nullptr, for a Message

Threads == Senders \cup Receivers

(* <<s, n>> is the text that request n of sender s broadcasts *)
Messages == Senders \X (1..MaxRequests)

ASSUME ThreadsAssumption ==
  Senders \cap Receivers = {} /\ NoThread \notin Threads

ASSUME NullAssumption ==
  /\ MaxRequests \in Nat
  /\ NoRoom \notin Rooms
  /\ NoName \notin RoomNames
  /\ NoMessage \notin Messages

VARIABLES
  up,         \* the server process is running
  m_rooms,    \* m_rooms[n]: the room the map holds for name n, or NoRoom
  view,       \* view[t]: the map as the insertion of t found it
  created,    \* the rooms allocated
  lock,       \* lock[rm]: the thread that holds the mutex of rm
  members,    \* members[rm]: the receivers whose User is in rm
  mqueue,     \* mqueue[r]: messages waiting for r, oldest first
  pc,         \* pc[t]: where worker t is
  name,       \* name[t]: the room name t is looking up
  room,       \* room[t]: the variable rm of worker t
  requests,   \* requests[s]: requests s has read
  current,    \* current[s]: the message s broadcasts
  visited,    \* visited[s]: the members its loop has passed
  out,        \* out[r]: the message r has dequeued and is sending
  log,        \* history: log[rm], the messages broadcast to rm
  start,      \* history: start[r], length of the log when r was added
  delivered   \* history: delivered[r], the messages r's client was sent

mapVars == <<m_rooms, view, created>>
roomVars == <<lock, members, log, start>>
senderVars == <<requests, current, visited>>
receiverVars == <<out, delivered>>
vars == <<up, mapVars, roomVars, mqueue, pc, name, room, senderVars, receiverVars>>

NoRooms == [n \in RoomNames |-> NoRoom]

Init ==
  /\ up = TRUE
  /\ m_rooms = NoRooms
  /\ view = [t \in Threads |-> NoRooms]
  /\ created = {}
  /\ lock = [rm \in Rooms |-> NoThread]
  /\ members = [rm \in Rooms |-> {}]
  /\ mqueue = [r \in Receivers |-> << >>]
  /\ pc = [t \in Threads |-> "receive"]
  /\ name = [t \in Threads |-> NoName]
  /\ room = [t \in Threads |-> NoRoom]
  /\ requests = [s \in Senders |-> 0]
  /\ current = [s \in Senders |-> NoMessage]
  /\ visited = [s \in Senders |-> {}]
  /\ out = [r \in Receivers |-> NoMessage]
  /\ log = [rm \in Rooms |-> << >>]
  /\ start = [r \in Receivers |-> 0]
  /\ delivered = [r \in Receivers |-> << >>]

Goto(t, label) == pc' = [pc EXCEPT ![t] = label]

At(t, label) == up /\ pc[t] = label
-----------------------------------------------------------------------------
(* Room *Server::find_or_create_room(room_name).  m_lock is initialised but *)
(* never taken, so calls overlap on the std::map.  An insertion spans two   *)
(* steps: it walks the tree ("insert"), then links its node ("link").       *)

(* Another thread is in the middle of changing the tree. *)
Overlapped(t) == \E u \in Threads \ {t} : pc[u] = "link"

AfterLookup(t) == IF t \in Senders THEN "receive" ELSE "add"

FreshRoom == CHOOSE rm \in Rooms : rm \notin created

(* find hit, return it->second *)
FindRoom(t) ==
  /\ At(t, "find")
  /\ m_rooms[name[t]] # NoRoom
  /\ room' = [room EXCEPT ![t] = m_rooms[name[t]]]
  /\ name' = [name EXCEPT ![t] = NoName]
  /\ Goto(t, AfterLookup(t))
  /\ UNCHANGED <<up, mapVars, roomVars, mqueue, senderVars, receiverVars>>

(* find missed, also when a concurrent insertion hides the node: new Room *)
CreateRoom(t) ==
  /\ At(t, "find")
  /\ m_rooms[name[t]] = NoRoom \/ Overlapped(t)
  /\ created # Rooms
  /\ created' = created \cup {FreshRoom}
  /\ room' = [room EXCEPT ![t] = FreshRoom]
  /\ Goto(t, "insert")
  /\ UNCHANGED <<up, m_rooms, view, roomVars, mqueue, name, senderVars, receiverVars>>

(* m_rooms.insert walks to the place of the node *)
InsertWalk(t) ==
  /\ At(t, "insert")
  /\ view' = [view EXCEPT ![t] = m_rooms]
  /\ Goto(t, "link")
  /\ UNCHANGED <<up, m_rooms, created, roomVars, mqueue, name, room, senderVars, receiverVars>>

(* m_rooms.insert links the node, unless it met the key; what was linked    *)
(* since it walked is kept or lost.  Either way new_room is returned.       *)
InsertLink(t) ==
  /\ At(t, "link")
  /\ IF view[t][name[t]] # NoRoom
     THEN UNCHANGED m_rooms
     ELSE \E base \in {m_rooms, view[t]} :
            m_rooms' = [base EXCEPT ![name[t]] = room[t]]
  /\ view' = [view EXCEPT ![t] = NoRooms]
  /\ name' = [name EXCEPT ![t] = NoName]
  /\ Goto(t, AfterLookup(t))
  /\ UNCHANGED <<up, created, roomVars, mqueue, room, senderVars, receiverVars>>

(* Two overlapping accesses corrupt the tree and the process dies. *)
MapCorruption ==
  /\ up
  /\ \E t \in Threads : pc[t] \in {"find", "insert", "link"} /\ Overlapped(t)
  /\ up' = FALSE
  /\ UNCHANGED <<mapVars, roomVars, mqueue, pc, name, room, senderVars, receiverVars>>

FindOrCreateRoom(t) ==
  FindRoom(t) \/ CreateRoom(t) \/ InsertWalk(t) \/ InsertLink(t)
-----------------------------------------------------------------------------
(* chat_with_sender: one request per iteration of its loop *)

(* TAG_JOIN; a sender in a room moves to the new one *)
SenderJoin(s) ==
  /\ At(s, "receive")
  /\ requests[s] < MaxRequests
  /\ requests' = [requests EXCEPT ![s] = @ + 1]
  /\ \E n \in RoomNames : name' = [name EXCEPT ![s] = n]
  /\ Goto(s, "find")
  /\ UNCHANGED <<up, mapVars, roomVars, mqueue, room, current, visited, receiverVars>>

(* TAG_LEAVE; outside a room it is answered with an error *)
SenderLeave(s) ==
  /\ At(s, "receive")
  /\ requests[s] < MaxRequests
  /\ requests' = [requests EXCEPT ![s] = @ + 1]
  /\ room' = [room EXCEPT ![s] = NoRoom]
  /\ UNCHANGED <<up, mapVars, roomVars, mqueue, pc, name, current, visited, receiverVars>>

(* mutant: the message is not built *)
SenderSend_NoMessage(s) ==
  /\ At(s, "receive")
  /\ requests[s] < MaxRequests
  /\ room[s] # NoRoom
  /\ requests' = [requests EXCEPT ![s] = @ + 1]
  /\ Goto(s, "lock")
  /\ UNCHANGED <<up, mapVars, roomVars, mqueue, name, room, current, visited, receiverVars>>

(* any other tag, in a room: rm->broadcast_message *)
SenderSend(s) ==
  /\ At(s, "receive")
  /\ requests[s] < MaxRequests
  /\ room[s] # NoRoom
  /\ requests' = [requests EXCEPT ![s] = @ + 1]
  /\ current' = [current EXCEPT ![s] = <<s, requests[s] + 1>>]
  /\ Goto(s, "lock")
  /\ UNCHANGED <<up, mapVars, roomVars, mqueue, name, room, visited, receiverVars>>

(* TAG_QUIT, or the connection fails in receive or in the reply *)
SenderExit(s) ==
  /\ At(s, "receive")
  /\ Goto(s, "exited")
  /\ UNCHANGED <<up, mapVars, roomVars, mqueue, name, room, senderVars, receiverVars>>

(* void Room::broadcast_message(sender_username, message_text) *)

(* mutant: the mutex is not taken *)
BroadcastLock_NoLock(s) ==
  /\ At(s, "lock")
  /\ log' = [log EXCEPT ![room[s]] = Append(@, current[s])]
  /\ Goto(s, "broadcast")
  /\ UNCHANGED <<up, mapVars, lock, members, start, mqueue, name, room, senderVars, receiverVars>>

BroadcastLock(s) ==
  /\ At(s, "lock")
  /\ lock[room[s]] = NoThread
  /\ lock' = [lock EXCEPT ![room[s]] = s]
  /\ log' = [log EXCEPT ![room[s]] = Append(@, current[s])]
  /\ Goto(s, "broadcast")
  /\ UNCHANGED <<up, mapVars, members, start, mqueue, name, room, senderVars, receiverVars>>

(* the members are visited in the order of their addresses, here any order *)
BroadcastEnqueue(s) ==
  /\ At(s, "broadcast")
  /\ \E r \in members[room[s]] \ visited[s] :
       /\ mqueue' = [mqueue EXCEPT ![r] = Append(@, current[s])]
       /\ visited' = [visited EXCEPT ![s] = @ \cup {r}]
  /\ UNCHANGED <<up, mapVars, roomVars, pc, name, room, requests, current, receiverVars>>

(* mutant: an early return for an empty room keeps the mutex *)
BroadcastUnlock_EmptyReturns(s) ==
  /\ At(s, "broadcast")
  /\ members[room[s]] \subseteq visited[s]
  /\ lock' = IF members[room[s]] = {} THEN lock
             ELSE [lock EXCEPT ![room[s]] = NoThread]
  /\ visited' = [visited EXCEPT ![s] = {}]
  /\ current' = [current EXCEPT ![s] = NoMessage]
  /\ Goto(s, "receive")
  /\ UNCHANGED <<up, mapVars, members, log, start, mqueue, name, room, requests, receiverVars>>

BroadcastUnlock(s) ==
  /\ At(s, "broadcast")
  /\ members[room[s]] \subseteq visited[s]
  /\ lock' = [lock EXCEPT ![room[s]] = NoThread]
  /\ visited' = [visited EXCEPT ![s] = {}]
  /\ current' = [current EXCEPT ![s] = NoMessage]
  /\ Goto(s, "receive")
  /\ UNCHANGED <<up, mapVars, members, log, start, mqueue, name, room, requests, receiverVars>>

Sender(s) ==
  \/ SenderJoin(s) \/ SenderLeave(s) \/ SenderSend(s) \/ SenderExit(s)
  \/ BroadcastLock(s) \/ BroadcastEnqueue(s) \/ BroadcastUnlock(s)
-----------------------------------------------------------------------------
(* worker, of a client that logged in with rlogin, and chat_with_receiver *)

(* TAG_JOIN, answered with ok before the room is looked up *)
ReceiverJoin(r) ==
  /\ At(r, "receive")
  /\ \E n \in RoomNames : name' = [name EXCEPT ![r] = n]
  /\ Goto(r, "find")
  /\ UNCHANGED <<up, mapVars, roomVars, mqueue, room, senderVars, receiverVars>>

(* the login or join fails, or its reply cannot be sent *)
ReceiverRefused(r) ==
  /\ At(r, "receive")
  /\ Goto(r, "exited")
  /\ UNCHANGED <<up, mapVars, roomVars, mqueue, name, room, senderVars, receiverVars>>

(* void Room::add_member(user) *)

(* mutant: the mutex is not taken *)
AddLock_NoLock(r) ==
  /\ At(r, "add")
  /\ Goto(r, "adding")
  /\ UNCHANGED <<up, mapVars, roomVars, mqueue, name, room, senderVars, receiverVars>>

AddLock(r) ==
  /\ At(r, "add")
  /\ lock[room[r]] = NoThread
  /\ lock' = [lock EXCEPT ![room[r]] = r]
  /\ Goto(r, "adding")
  /\ UNCHANGED <<up, mapVars, members, log, start, mqueue, name, room, senderVars, receiverVars>>

AddMember(r) ==
  /\ At(r, "adding")
  /\ members' = [members EXCEPT ![room[r]] = @ \cup {r}]
  /\ start' = [start EXCEPT ![r] = Len(log[room[r]])]
  /\ lock' = [lock EXCEPT ![room[r]] = NoThread]
  /\ Goto(r, "dequeue")
  /\ UNCHANGED <<up, mapVars, log, mqueue, name, room, senderVars, receiverVars>>

(* mutant: the newest message is taken *)
Dequeue_Newest(r) ==
  /\ At(r, "dequeue")
  /\ mqueue[r] # << >>
  /\ out' = [out EXCEPT ![r] = Last(mqueue[r])]
  /\ mqueue' = [mqueue EXCEPT ![r] = Front(@)]
  /\ Goto(r, "send")
  /\ UNCHANGED <<up, mapVars, roomVars, name, room, senderVars, delivered>>

(* mutant: a post of the semaphore was lost, one message always stays *)
Dequeue_LostPost(r) ==
  /\ At(r, "dequeue")
  /\ Len(mqueue[r]) > 1
  /\ out' = [out EXCEPT ![r] = Head(mqueue[r])]
  /\ mqueue' = [mqueue EXCEPT ![r] = Tail(@)]
  /\ Goto(r, "send")
  /\ UNCHANGED <<up, mapVars, roomVars, name, room, senderVars, delivered>>

Dequeue(r) ==
  /\ At(r, "dequeue")
  /\ mqueue[r] # << >>
  /\ out' = [out EXCEPT ![r] = Head(mqueue[r])]
  /\ mqueue' = [mqueue EXCEPT ![r] = Tail(@)]
  /\ Goto(r, "send")
  /\ UNCHANGED <<up, mapVars, roomVars, name, room, senderVars, delivered>>

SendDelivery(r) ==
  /\ At(r, "send")
  /\ delivered' = [delivered EXCEPT ![r] = Append(@, out[r])]
  /\ out' = [out EXCEPT ![r] = NoMessage]
  /\ Goto(r, "dequeue")
  /\ UNCHANGED <<up, mapVars, roomVars, mqueue, name, room, senderVars>>

(* connection->send fails: the client is gone, or "room:sender:text" is     *)
(* longer than Message::MAX_LEN.  The worker ends in pthread_exit, so its   *)
(* User is neither removed from the room nor deleted.                       *)
SendFails(r) ==
  /\ At(r, "send")
  /\ out' = [out EXCEPT ![r] = NoMessage]
  /\ Goto(r, "exited")
  /\ UNCHANGED <<up, mapVars, roomVars, mqueue, name, room, senderVars, delivered>>

Receiver(r) ==
  \/ ReceiverJoin(r) \/ ReceiverRefused(r) \/ AddLock(r) \/ AddMember(r)
  \/ Dequeue(r) \/ SendDelivery(r) \/ SendFails(r)
-----------------------------------------------------------------------------
Next ==
  \/ \E t \in Threads : FindOrCreateRoom(t)
  \/ \E s \in Senders : Sender(s)
  \/ \E r \in Receivers : Receiver(r)
  \/ MapCorruption

(* Every worker thread keeps running; clients are free to send nothing      *)
(* more, so a worker is not owed a request.                                 *)
Fairness ==
  /\ \A t \in Threads : WF_vars(FindOrCreateRoom(t))
  /\ \A s \in Senders :
       WF_vars(BroadcastLock(s) \/ BroadcastEnqueue(s) \/ BroadcastUnlock(s))
  /\ \A r \in Receivers : WF_vars(Receiver(r))

Safety == Init /\ [][Next]_vars
Spec == Safety /\ Fairness
-----------------------------------------------------------------------------
TypeOK ==
  /\ up \in BOOLEAN
  /\ m_rooms \in [RoomNames -> Rooms \cup {NoRoom}]
  /\ view \in [Threads -> [RoomNames -> Rooms \cup {NoRoom}]]
  /\ created \subseteq Rooms
  /\ lock \in [Rooms -> Threads \cup {NoThread}]
  /\ members \in [Rooms -> SUBSET Receivers]
  /\ mqueue \in [Receivers -> Seq(Messages)]
  /\ pc \in [Threads -> {"receive", "find", "insert", "link", "exited"}
               \cup {"lock", "broadcast"} \cup {"add", "adding", "dequeue", "send"}]
  /\ name \in [Threads -> RoomNames \cup {NoName}]
  /\ room \in [Threads -> Rooms \cup {NoRoom}]
  /\ requests \in [Senders -> 0..MaxRequests]
  /\ current \in [Senders -> Messages \cup {NoMessage}]
  /\ visited \in [Senders -> SUBSET Receivers]
  /\ out \in [Receivers -> Messages \cup {NoMessage}]
  /\ log \in [Rooms -> Seq(Messages)]
  /\ start \in [Receivers -> Nat]
  /\ delivered \in [Receivers -> Seq(Messages)]

(* The mutex of a room is held exactly by the worker that is in             *)
(* broadcast_message or add_member of that room: no worker exits with it.   *)
InRoomSection(t) == pc[t] \in {"broadcast", "adding"}
LockHeldInside ==
  \A rm \in Rooms, t \in Threads :
    lock[rm] = t <=> InRoomSection(t) /\ room[t] = rm

(* While a broadcast walks the members of a room, nobody joins that room:   *)
(* the iterator of room.cpp:42 stays valid and no member is missed.         *)
MembersStable ==
  [][\A s \in Senders :
       pc[s] = "broadcast" => members'[room[s]] = members[room[s]]]_vars

IsMember(r) == \E rm \in Rooms : r \in members[rm]

(* The messages of its room that a member has not been given yet, because   *)
(* a broadcast has not reached it.                                          *)
Unreached(r) ==
  IF \E s \in Senders : pc[s] = "broadcast" /\ room[s] = room[r] /\ r \notin visited[s]
  THEN 1 ELSE 0

Sending(r) == IF pc[r] = "send" THEN <<out[r]>> ELSE << >>

(* A member whose worker runs holds, between what it was sent, what it is   *)
(* sending and what waits in its queue, the log of its room from the point  *)
(* where it joined: nothing lost, repeated or out of order.                 *)
PendingIsLog ==
  \A r \in Receivers :
    IsMember(r) /\ pc[r] # "exited" =>
      delivered[r] \o Sending(r) \o mqueue[r]
        = SubSeq(log[room[r]], start[r] + 1, Len(log[room[r]]) - Unreached(r))

Rlog == INSTANCE RoomLog WITH
          joined <- [r \in Receivers |-> IF IsMember(r) THEN room[r] ELSE NoRoom]

(* The room workers implement the log of RoomLog. *)
ImplementsRoomLog == Rlog!Spec

(* A broadcast that starts reaches every member and releases the room. *)
BroadcastEnds ==
  \A s \in Senders : (pc[s] = "lock") ~> (pc[s] = "receive" \/ ~up)

(* What is queued for a receiver is sent, unless its worker ended. *)
QueueDrains ==
  \A r \in Receivers :
    (mqueue[r] # << >>) ~> (mqueue[r] = << >> \/ pc[r] = "exited" \/ ~up)

(* server.cpp:350-351, find_or_create_room returns "a pointer to the unique *)
(* Room object representing the named chat room": what a call returns is    *)
(* the room the map holds for the name.                                     *)
ReturnsUniqueRoom ==
  [][\A t \in Threads :
       name[t] # NoName /\ name'[t] = NoName
         => room'[t] = m_rooms'[name[t]]]_vars
=============================================================================

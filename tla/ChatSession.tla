----------------------------- MODULE ChatSession -----------------------------
(***************************************************************************)
(* One sender and one receiver of the chat system (csf_assign05), from the *)
(* keyboard of one to the screen of the other: the clients sender.cpp and  *)
(* receiver.cpp, their TCP connections, and the two workers of server.cpp  *)
(* that serve them, from the accept loop of the main thread on.  The rooms *)
(* of the server are taken as ChatRooms shows them to be: a broadcast to   *)
(* the room of the receiver joins its queue.                               *)
(***************************************************************************)
EXTENDS Connection, FiniteSets

CONSTANTS RoomNames,    \* the rooms users ask for
          NoRoom,       \* not in a room
          DataLengths,  \* lengths of what the user types, newline included
          NamesLength,  \* of "room:user:", which a delivery puts in front
          Limits,       \* descriptors the server may have for clients
          MaxRequests   \* bound: lines the user types

ASSUME RoomsAssumption == NoRoom \notin RoomNames
ASSUME LengthsAssumption ==
  /\ DataLengths \subseteq Nat /\ NamesLength \in Nat /\ MaxRequests \in Nat
  /\ Limits \subseteq Nat

(* logins, joins and replies fit a line *)
ASSUME LineAssumption == MAX_LEN >= 16

Ends == {"sender", "receiver"}

VARIABLES
  main,      \* the main thread of the server: "accepts"; "left", and the
             \* Server and its rooms with it; or "exited", with the program
  limit,     \* the descriptors it has for clients
  up,        \* up[e]: what client e wrote and the server has not read
  down,      \* down[e]: what the server wrote and client e has not read
  net,       \* net[e]: the connection of e: open, closed, probed or reset
  client,    \* client[e]: where the program of client e is
  worker,    \* worker[e]: where the worker of e is
  answer,    \* the message the worker of the sender is about to send
  rm,        \* the room of the sender, in its worker
  home,      \* the room the receiver asks for
  member,    \* the User of the receiver is in room home
  mqueue,    \* the queue of that User
  out,       \* the message its worker has dequeued
  requests,  \* lines the user of the sender has typed
  asked,     \* the last of them
  told,      \* history: the room the sender was told it is in
  acked,     \* history: <<room, line>> answered ok
  sent,      \* history: <<room, line>> broadcast
  start,     \* history: how many were broadcast before the receiver was added
  printed    \* history: the lines the receiver printed

streams == <<up, down>>
senderVars == <<answer, rm, requests, asked, told, acked>>
receiverVars == <<home, member, out, start, printed>>
chatVars == <<streams, net, client, worker, senderVars, receiverVars, mqueue, sent>>
server == <<main, limit>>
vars == <<server, chatVars>>

NoBody == 0
Short == 8   \* the data of a line whose length does not matter
Ok == Message("ok", 1, NoBody)
Err == Message("err", Short, NoBody)

Init ==
  /\ main = "accepts"
  /\ limit \in Limits
  /\ up = [e \in Ends |-> << >>]
  /\ down = [e \in Ends |-> << >>]
  /\ net = [e \in Ends |-> "open"]
  /\ client = [e \in Ends |-> "login"]
  /\ worker = [e \in Ends |-> "none"]
  /\ answer = Ok
  /\ rm = NoRoom
  /\ home \in RoomNames
  /\ member = FALSE
  /\ mqueue = << >>
  /\ out = Ok
  /\ requests = 0
  /\ asked = Ok
  /\ told = NoRoom
  /\ acked = << >>
  /\ sent = << >>
  /\ start = 0
  /\ printed = << >>

ClientGoto(e, label) == client' = [client EXCEPT ![e] = label]
WorkerGoto(e, label) == worker' = [worker EXCEPT ![e] = label]
-----------------------------------------------------------------------------
(* The ends of a connection.  A client that exits closes it, and resets it  *)
(* when what it had not read is not in its own buffer; a write of the       *)
(* server to a closed connection succeeds and makes the other end answer    *)
(* with a reset.                                                            *)

ClientSends(e, m) == up' = [up EXCEPT ![e] = Written(@, m)]

(* the server's end never goes away: workers exit without closing it *)
ClientReceives(e) ==
  /\ Readable(down[e], FALSE)
  /\ down' = [down EXCEPT ![e] = Remaining(@)]

ClientExits(e, unread) ==
  /\ ClientGoto(e, "exited")
  /\ \/ net' = [net EXCEPT ![e] = "closed"]
     \/ unread # << >> /\ net' = [net EXCEPT ![e] = "reset"]

WorkerSends(e, m) ==
  /\ net[e] # "reset"
  /\ IF net[e] = "open"
     THEN down' = [down EXCEPT ![e] = Written(@, m)] /\ UNCHANGED net
     ELSE net' = [net EXCEPT ![e] = "probed"] /\ UNCHANGED down

CanReceive(e) ==
  \/ Readable(up[e], net[e] # "open")
  \/ up[e] = << >> /\ net[e] \in {"closed", "probed"}

Incoming(e) == IF up[e] = << >> THEN Eof(NoBody) ELSE Received(up[e])

WorkerReceives(e) ==
  /\ CanReceive(e)
  /\ up' = [up EXCEPT ![e] = IF @ = << >> THEN @ ELSE Remaining(@)]

ResetArrives(e) ==
  /\ net[e] = "probed"
  /\ net' = [net EXCEPT ![e] = "reset"]
  /\ UNCHANGED <<streams, client, worker, senderVars, receiverVars, mqueue, sent>>

(* The user ends the program: end of input, or a signal. *)
ClientKilled(e) ==
  /\ client[e] # "exited"
  /\ ClientExits(e, down[e])
  /\ UNCHANGED <<streams, worker, senderVars, receiverVars, mqueue, sent>>

(* the server has closed its end: it exited, or deleted the connection *)
ServerClosed(e) == main = "exited" \/ worker[e] = "refused"

(* mutant: a receiver that listens takes the end of the stream for a message *)
ClientFails_Ignored(e) ==
  /\ ServerClosed(e)
  /\ client[e] \in {"loginReply", "reply", "joinReply"}
  /\ down[e] = << >> \/ up[e] # << >>
  /\ ClientExits(e, down[e])
  /\ UNCHANGED <<streams, worker, senderVars, receiverVars, mqueue, sent>>

(* A client that waits for a message reads the end of the stream, or a      *)
(* reset when the server had not read everything, and exits.                *)
ClientFails(e) ==
  /\ ServerClosed(e)
  /\ client[e] \in {"loginReply", "reply", "joinReply", "listen"}
  /\ down[e] = << >> \/ up[e] # << >>
  /\ ClientExits(e, down[e])
  /\ UNCHANGED <<streams, worker, senderVars, receiverVars, mqueue, sent>>
-----------------------------------------------------------------------------
(* Server::handle_client_requests, the main thread of the server *)

(* workers do not close their connections when they end *)
InUse == Cardinality({e \in Ends : worker[e] \notin {"none", "refused"}})

ClientAccepted(e) ==
  /\ main = "accepts"
  /\ worker[e] = "none"
  /\ InUse < limit

Accept(e) ==
  /\ ClientAccepted(e)
  /\ WorkerGoto(e, "login")
  /\ UNCHANGED <<server, streams, net, client, senderVars, receiverVars, mqueue, sent>>

(* pthread_create fails: the connection is closed, and pthread_exit ends    *)
(* the main thread.  The workers go on; the Server does not: the stack of   *)
(* main is unwound, and ~Server deletes the map and every Room.  The Users  *)
(* and their queues, which workers made, are left.                          *)
ThreadFails(e) ==
  /\ ClientAccepted(e)
  /\ WorkerGoto(e, "refused")
  /\ main' = "left"
  /\ UNCHANGED <<limit, streams, net, client, senderVars, receiverVars, mqueue, sent>>

(* accept fails for want of a descriptor, whether a client waits or not:    *)
(* exit(1) ends every worker                                                *)
AcceptFails ==
  /\ main = "accepts"
  /\ InUse >= limit
  /\ main' = "exited"
  /\ worker' = [e \in Ends |-> "exited"]
  /\ UNCHANGED <<limit, streams, net, client, senderVars, receiverVars, mqueue, sent>>

handle_client_requests ==
  AcceptFails \/ \E e \in Ends : Accept(e) \/ ThreadFails(e)

(* a process without its main thread ends with its last thread *)
LastThreadEnds ==
  /\ main = "left"
  /\ \A e \in Ends : worker[e] \in {"none", "refused", "exited"}
  /\ main' = "exited"
  /\ worker' = [e \in Ends |-> "exited"]
  /\ UNCHANGED <<limit, streams, net, client, senderVars, receiverVars, mqueue, sent>>

(* the map of rooms and the Rooms are the Server's, and end with it *)
RoomsExist == main = "accepts"

(* The next step of the worker of e calls find_or_create_room or a method   *)
(* of a Room.                                                               *)
UsesRooms(e) ==
  \/ worker[e] = "add"
  \/ /\ worker[e] = "receive" /\ CanReceive(e)
     /\ LET m == Incoming(e)
        IN  \/ m.tag = "join"
            \/ m.tag \in {"sendall", "none"} /\ m.len # 0 /\ rm # NoRoom

(* A worker uses rooms that are deleted, which is undefined: beside what    *)
(* AddMember, HandleJoin and HandleText allow, it stops at a mutex or in a  *)
(* tree that is none any more, or the whole program crashes.                *)
UseDestroyed(e) ==
  /\ main = "left"
  /\ UsesRooms(e)
  /\ up' = [up EXCEPT ![e] = IF worker[e] = "add" \/ @ = << >> THEN @ ELSE Remaining(@)]
  /\ \/ main' = main /\ WorkerGoto(e, "stuck")
     \/ main' = "exited" /\ worker' = [f \in Ends |-> "exited"]
  /\ UNCHANGED <<limit, down, net, client, senderVars, receiverVars, mqueue, sent>>
-----------------------------------------------------------------------------
(* sender.cpp *)

SenderLogin ==
  /\ client["sender"] = "login"
  /\ ClientSends("sender", Message("slogin", Short, NoBody))
  /\ ClientGoto("sender", "loginReply")
  /\ UNCHANGED <<down, net, worker, senderVars, receiverVars, mqueue, sent>>

SenderLoggedIn ==
  /\ client["sender"] = "loginReply"
  /\ ClientReceives("sender")
  /\ ClientGoto("sender", "input")
  /\ UNCHANGED <<up, net, worker, senderVars, receiverVars, mqueue, sent>>

Typed ==
  {Message("join", Short, n) : n \in RoomNames}
    \cup {Message("leave", 4, NoBody), Message("quit", 4, NoBody)}
    \cup {Message("sendall", len, requests + 1) : len \in DataLengths}

(* a line is typed and sent; one that fails checkStyle ends the program *)
SenderRequest ==
  /\ client["sender"] = "input"
  /\ requests < MaxRequests
  /\ requests' = requests + 1
  /\ \E m \in Typed :
       /\ asked' = m
       /\ IF checkStyle(m)
          THEN ClientSends("sender", m) /\ ClientGoto("sender", "reply") /\ UNCHANGED net
          ELSE ClientExits("sender", down["sender"]) /\ UNCHANGED up
  /\ UNCHANGED <<down, worker, answer, rm, told, acked, receiverVars, mqueue, sent>>

(* the reply to /quit ends the program whatever it says *)
SenderReply ==
  /\ client["sender"] = "reply"
  /\ ClientReceives("sender")
  /\ LET ok == Received(down["sender"]).tag = "ok"
     IN  /\ told' = CASE ok /\ asked.tag = "join"  -> asked.body
                      [] ok /\ asked.tag = "leave" -> NoRoom
                      [] OTHER                     -> told
         /\ acked' = IF ok /\ asked.tag = "sendall"
                     THEN Append(acked, <<told, asked.body>>) ELSE acked
  /\ IF asked.tag = "quit"
     THEN ClientExits("sender", Remaining(down["sender"]))
     ELSE ClientGoto("sender", "input") /\ UNCHANGED net
  /\ UNCHANGED <<up, worker, answer, rm, requests, asked, receiverVars, mqueue, sent>>

SenderClient == SenderLogin \/ SenderLoggedIn \/ SenderRequest \/ SenderReply
-----------------------------------------------------------------------------
(* worker and chat_with_sender *)

SenderWorkerLogin ==
  /\ worker["sender"] = "login"
  /\ WorkerReceives("sender")
  /\ LET m == Incoming("sender")
     IN  /\ WorkerGoto("sender",
              CASE m.tag = "slogin" -> "reply"
                [] ~checkStyle(m)   -> "lastReply"
                [] OTHER            -> "exited")
         /\ answer' = IF checkStyle(m) THEN Ok ELSE Err
  /\ UNCHANGED <<down, net, client, rm, requests, asked, told, acked, receiverVars, mqueue, sent>>

(* The iteration of chat_with_sender that reads a message of these tags. *)
Handles(tags) ==
  /\ worker["sender"] = "receive"
  /\ WorkerReceives("sender")
  /\ Incoming("sender").tag \in tags
  /\ UNCHANGED <<down, net, client, requests, asked, told, acked, receiverVars>>

HandleJoin ==
  /\ Handles({"join"})
  /\ rm' = Incoming("sender").body
  /\ answer' = Ok
  /\ WorkerGoto("sender", "reply")
  /\ UNCHANGED <<mqueue, sent>>

(* mutant: the room is kept *)
HandleLeave_KeepsRoom ==
  /\ Handles({"leave"})
  /\ answer' = IF rm = NoRoom THEN Err ELSE Ok
  /\ WorkerGoto("sender", "reply")
  /\ UNCHANGED <<rm, mqueue, sent>>

(* mutant: outside a room, no reply *)
HandleLeave_Silent ==
  /\ Handles({"leave"})
  /\ answer' = Ok
  /\ rm' = NoRoom
  /\ WorkerGoto("sender", IF rm = NoRoom THEN "receive" ELSE "reply")
  /\ UNCHANGED <<mqueue, sent>>

HandleLeave ==
  /\ Handles({"leave"})
  /\ answer' = IF rm = NoRoom THEN Err ELSE Ok
  /\ rm' = NoRoom
  /\ WorkerGoto("sender", "reply")
  /\ UNCHANGED <<mqueue, sent>>

(* the worker returns after the reply *)
HandleQuit ==
  /\ Handles({"quit"})
  /\ answer' = Ok
  /\ WorkerGoto("sender", "lastReply")
  /\ UNCHANGED <<rm, mqueue, sent>>

(* mutant: the rooms are not told apart *)
Broadcast_AnyRoom(m) ==
  /\ sent' = Append(sent, <<rm, m.body>>)
  /\ mqueue' = IF member
               THEN Append(mqueue, [m EXCEPT !.tag = "delivery", !.len = NamesLength + m.len])
               ELSE mqueue

(* broadcast_message: the text behind the names goes to the members of rm;  *)
(* a Room that is deleted may have no members left                          *)
Broadcast(m) ==
  /\ sent' = Append(sent, <<rm, m.body>>)
  /\ \/ mqueue' = IF member /\ home = rm
                  THEN Append(mqueue, [m EXCEPT !.tag = "delivery", !.len = NamesLength + m.len])
                  ELSE mqueue
     \/ ~RoomsExist /\ UNCHANGED mqueue

(* mutant: the check for a room is missing *)
HandleText_NoRoomCheck ==
  /\ Handles({"sendall", "none"})
  /\ LET m == Incoming("sender")
     IN  IF m.len = 0
         THEN answer' = Err /\ UNCHANGED <<mqueue, sent>>
         ELSE answer' = (IF checkStyle(m) THEN Ok ELSE Err) /\ Broadcast(m)
  /\ WorkerGoto("sender", "reply")
  /\ UNCHANGED rm

(* mutant: outside a room the message is dropped and err is not set *)
HandleText_OkOutside ==
  /\ Handles({"sendall", "none"})
  /\ LET m == Incoming("sender")
     IN  /\ answer' = IF checkStyle(m) THEN Ok ELSE Err
         /\ IF m.len = 0 \/ rm = NoRoom THEN UNCHANGED <<mqueue, sent>> ELSE Broadcast(m)
  /\ WorkerGoto("sender", "reply")
  /\ UNCHANGED rm

(* mutant: a message without data is skipped, not answered *)
HandleText_SkipsEmpty ==
  /\ Handles({"sendall", "none"})
  /\ LET m == Incoming("sender")
     IN  IF m.len = 0 \/ rm = NoRoom
         THEN answer' = Err /\ UNCHANGED <<mqueue, sent>>
         ELSE answer' = (IF checkStyle(m) THEN Ok ELSE Err) /\ Broadcast(m)
  /\ WorkerGoto("sender", IF Incoming("sender").len = 0 THEN "receive" ELSE "reply")
  /\ UNCHANGED rm

(* any other tag; at the end of the stream the data is empty.  What is      *)
(* malformed is broadcast all the same, and answered with an error.         *)
HandleText ==
  /\ Handles({"sendall", "none"})
  /\ LET m == Incoming("sender")
     IN  IF m.len = 0 \/ rm = NoRoom
         THEN answer' = Err /\ UNCHANGED <<mqueue, sent>>
         ELSE answer' = (IF checkStyle(m) THEN Ok ELSE Err) /\ Broadcast(m)
  /\ WorkerGoto("sender", "reply")
  /\ UNCHANGED rm

SenderWorkerReply ==
  /\ worker["sender"] = "reply"
  /\ WorkerSends("sender", answer)
  /\ WorkerGoto("sender", "receive")
  /\ UNCHANGED <<up, client, senderVars, receiverVars, mqueue, sent>>

(* the reply behind which a worker returns, whether it can be sent or not *)
LastReply(e, m) ==
  /\ worker[e] = "lastReply"
  /\ \/ WorkerSends(e, m)
     \/ net[e] = "reset" /\ UNCHANGED <<down, net>>
  /\ WorkerGoto(e, "exited")
  /\ UNCHANGED <<up, client, senderVars, receiverVars, mqueue, sent>>

(* receive or send fails: the connection was reset *)
SenderWorkerFails ==
  /\ net["sender"] = "reset"
  /\ \/ worker["sender"] = "reply"
     \/ worker["sender"] \in {"login", "receive"} /\ up["sender"] = << >>
  /\ WorkerGoto("sender", "exited")
  /\ UNCHANGED <<streams, net, client, senderVars, receiverVars, mqueue, sent>>

SenderWorker ==
  \/ SenderWorkerLogin \/ HandleJoin \/ HandleLeave \/ HandleQuit \/ HandleText
  \/ SenderWorkerReply \/ LastReply("sender", answer) \/ SenderWorkerFails
-----------------------------------------------------------------------------
(* receiver.cpp *)

ReceiverAsks ==
  /\ client["receiver"] \in {"login", "join"}
  /\ ClientSends("receiver",
       IF client["receiver"] = "login" THEN Message("rlogin", Short, NoBody)
       ELSE Message("join", Short, home))
  /\ ClientGoto("receiver",
       IF client["receiver"] = "login" THEN "loginReply" ELSE "joinReply")
  /\ UNCHANGED <<down, net, worker, senderVars, receiverVars, mqueue, sent>>

ReceiverAnswered ==
  /\ client["receiver"] \in {"loginReply", "joinReply"}
  /\ ClientReceives("receiver")
  /\ ClientGoto("receiver", IF client["receiver"] = "loginReply" THEN "join" ELSE "listen")
  /\ UNCHANGED <<up, net, worker, senderVars, receiverVars, mqueue, sent>>

(* a line that does not parse ends the program *)
ReceiverPrints ==
  /\ client["receiver"] = "listen"
  /\ ClientReceives("receiver")
  /\ LET m == Received(down["receiver"])
     IN  IF checkStyle(m)
         THEN printed' = Append(printed, m.body) /\ UNCHANGED <<client, net>>
         ELSE ClientExits("receiver", Remaining(down["receiver"])) /\ UNCHANGED printed
  /\ UNCHANGED <<up, worker, senderVars, home, member, out, start, mqueue, sent>>

ReceiverClient == ReceiverAsks \/ ReceiverAnswered \/ ReceiverPrints
-----------------------------------------------------------------------------
(* worker, receiver path, and chat_with_receiver *)

ReceiverWorkerReads ==
  /\ worker["receiver"] \in {"login", "join"}
  /\ WorkerReceives("receiver")
  /\ WorkerGoto("receiver",
       CASE Incoming("receiver").tag = "rlogin" -> "loginReply"
         [] Incoming("receiver").tag = "join"   -> "joinReply"
         [] ~checkStyle(Incoming("receiver"))   -> "lastReply"
         [] OTHER                               -> "exited")
  /\ UNCHANGED <<down, net, client, senderVars, receiverVars, mqueue, sent>>

ReceiverWorkerAnswers ==
  /\ worker["receiver"] \in {"loginReply", "joinReply"}
  /\ WorkerSends("receiver", Ok)
  /\ WorkerGoto("receiver", IF worker["receiver"] = "loginReply" THEN "join" ELSE "add")
  /\ UNCHANGED <<up, client, senderVars, receiverVars, mqueue, sent>>

(* find_or_create_room and add_member, after the client was told ok; in the *)
(* room of a Server that is gone no sender need find the User               *)
AddMember ==
  /\ worker["receiver"] = "add"
  /\ \/ member' = TRUE
     \/ ~RoomsExist /\ UNCHANGED member
  /\ start' = Len(sent)
  /\ WorkerGoto("receiver", "dequeue")
  /\ UNCHANGED <<streams, net, client, senderVars, home, out, printed, mqueue, sent>>

Dequeue ==
  /\ worker["receiver"] = "dequeue"
  /\ mqueue # << >>
  /\ out' = Head(mqueue)
  /\ mqueue' = Tail(mqueue)
  /\ WorkerGoto("receiver", "send")
  /\ UNCHANGED <<streams, net, client, senderVars, home, member, start, printed, sent>>

(* mutant: chat_with_receiver returns after one message *)
Deliver_Returns ==
  /\ worker["receiver"] = "send"
  /\ checkStyle(out)
  /\ WorkerSends("receiver", out)
  /\ WorkerGoto("receiver", "exited")
  /\ UNCHANGED <<up, client, senderVars, receiverVars, mqueue, sent>>

Deliver ==
  /\ worker["receiver"] = "send"
  /\ checkStyle(out)
  /\ WorkerSends("receiver", out)
  /\ WorkerGoto("receiver", "dequeue")
  /\ UNCHANGED <<up, client, senderVars, receiverVars, mqueue, sent>>

(* receive or send fails: the connection was reset, or the delivery is too  *)
(* long for checkStyle.  The connection is left open.                       *)
ReceiverWorkerFails ==
  /\ \/ worker["receiver"] = "send" /\ ~checkStyle(out)
     \/ /\ net["receiver"] = "reset"
        /\ \/ worker["receiver"] \in {"loginReply", "joinReply", "send"}
           \/ worker["receiver"] \in {"login", "join"} /\ up["receiver"] = << >>
  /\ WorkerGoto("receiver", "exited")
  /\ UNCHANGED <<streams, net, client, senderVars, receiverVars, mqueue, sent>>

ReceiverWorker ==
  \/ ReceiverWorkerReads \/ ReceiverWorkerAnswers \/ AddMember
  \/ Dequeue \/ Deliver \/ ReceiverWorkerFails \/ LastReply("receiver", Err)
-----------------------------------------------------------------------------
Next ==
  \/ handle_client_requests \/ LastThreadEnds \/ \E e \in Ends : UseDestroyed(e)
  \/ /\ \/ SenderClient \/ SenderWorker \/ ReceiverClient \/ ReceiverWorker
        \/ \E e \in Ends : ResetArrives(e) \/ ClientKilled(e) \/ ClientFails(e)
     /\ UNCHANGED server

(* The programs run and the network delivers; users need not type. *)
Fairness ==
  /\ WF_vars(handle_client_requests \/ LastThreadEnds)
  /\ WF_chatVars(SenderLogin \/ SenderLoggedIn \/ SenderReply)
  /\ WF_chatVars(SenderWorker)
  /\ WF_chatVars(ReceiverClient)
  /\ WF_chatVars(ReceiverWorker)
  /\ \A e \in Ends : WF_chatVars(ResetArrives(e)) /\ WF_chatVars(ClientFails(e))

Spec == Init /\ [][Next]_vars /\ Fairness
-----------------------------------------------------------------------------
Bodies == 0..MaxRequests \cup RoomNames
Tags == DOMAIN TagLength \cup {"none"}
Messages == [tag : Tags, len : Nat, body : Bodies, nl : BOOLEAN]

TypeOK ==
  /\ main \in {"accepts", "left", "exited"} /\ limit \in Limits
  /\ up \in [Ends -> Seq(Messages)] /\ down \in [Ends -> Seq(Messages)]
  /\ net \in [Ends -> {"open", "closed", "probed", "reset"}]
  /\ client \in [Ends -> {"login", "loginReply", "input", "reply", "exited"}
                           \cup {"join", "joinReply", "listen"}]
  /\ worker \in [Ends -> {"none", "refused", "login", "receive", "reply", "lastReply", "exited"}
                           \cup {"loginReply", "join", "joinReply", "add", "dequeue", "send"}
                           \cup {"stuck"}]
  /\ answer \in Messages /\ out \in Messages /\ asked \in Messages
  /\ rm \in RoomNames \cup {NoRoom} /\ told \in RoomNames \cup {NoRoom}
  /\ home \in RoomNames /\ member \in BOOLEAN
  /\ mqueue \in Seq(Messages)
  /\ requests \in 0..MaxRequests /\ start \in Nat
  /\ acked \in Seq((RoomNames \cup {NoRoom}) \X Bodies)
  /\ sent \in Seq(RoomNames \X Bodies)
  /\ printed \in Seq(Bodies)

(* While the server runs and sender.cpp waits for a line, each of its       *)
(* requests has had exactly one reply, and the room it was told it is in is *)
(* the one its worker holds.                                                *)
InStep ==
  client["sender"] = "input" /\ main # "exited" =>
    /\ up["sender"] = << >> /\ down["sender"] = << >>
    /\ worker["sender"] = "receive"
    /\ told = rm

(* message.h:8-9, "An encoded message may have at most this many            *)
(* characters, including the trailing newline": lines within MAX_LEN are    *)
(* messages like any other, and their replies stay in step.                 *)
LegalLinesKeepStep ==
  (\A len \in DataLengths : Size(Message("sendall", len, NoBody)) <= MAX_LEN)
    => InStep

(* What the user was told was sent is what was broadcast, once, to the room *)
(* the user was told about; at most the last line is sent and not yet       *)
(* answered.                                                                *)
AckedIsBroadcast ==
  IsPrefix(acked, sent) /\ Len(sent) <= Len(acked) + 1

BodiesOf(messages) == [i \in DOMAIN messages |-> messages[i].body]

(* the reply to its join may still be in front of what was delivered *)
Deliveries(stream) ==
  IF stream # << >> /\ Head(stream).tag = "ok" THEN Tail(stream) ELSE stream

(* What the receiver printed, followed by what is on its way there. *)
Heard ==
  printed \o BodiesOf(Deliveries(down["receiver"]))
          \o BodiesOf(IF worker["receiver"] = "send" THEN <<out>> ELSE << >>)
          \o BodiesOf(mqueue)

(* What was broadcast to its room since it was added, by position in sent. *)
Due == {k \in start + 1..Len(sent) : sent[k][1] = home}

(* While there are rooms: the n-th line that reaches the receiver is the    *)
(* n-th that was broadcast to its room since it was added, and there is no  *)
(* other.                                                                   *)
HearsTheRoom ==
  member /\ net["receiver"] = "open" /\ RoomsExist =>
    /\ Len(Heard) = Cardinality(Due)
    /\ \A k \in Due : Heard[Cardinality({j \in Due : j <= k})] = sent[k][2]

(* server.cpp:336-339: the main thread has ended; the kernel still          *)
(* completes connections for it, and its clients hear nothing, for ever.    *)
(* So does one whose worker was stopped by rooms that are deleted.          *)
Abandoned(e) == main = "left" /\ worker[e] \in {"none", "stuck"}

(* Otherwise sender.cpp never waits in vain for the reply to a request: it  *)
(* is answered, or finds its connection closed.                             *)
RequestAnswered ==
  (client["sender"] \in {"loginReply", "reply"})
    ~> (client["sender"] \in {"input", "exited"} \/ Abandoned("sender"))

(* server.cpp:324-329: when the server exits, for want of descriptors or    *)
(* with its last thread, every client ends, but for a sender that waits for *)
(* its user.                                                                *)
ServerEndIsNoticed ==
  (main = "exited")
    ~> (client["receiver"] = "exited" /\ client["sender"] \in {"input", "exited"})

(* message.h:33, sendall: "send message to all users in chat room": what    *)
(* is queued for a receiver whose program runs is printed by it.            *)
QueuedIsPrinted ==
  \A i \in 1..MaxRequests :
    (\E k \in DOMAIN mqueue : mqueue[k].body = i)
      ~> ((\E k \in DOMAIN printed : printed[k] = i) \/ client["receiver"] = "exited")

(* server.cpp:170-187: the worker of a sender that is gone ends, though the  *)
(* end of the stream looks to it like one more malformed message.           *)
WorkerEnds ==
  (client["sender"] = "exited")
    ~> (worker["sender"] \in {"exited", "refused"} \/ Abandoned("sender"))
=============================================================================

--------------------------- MODULE ChatRoomsProofs ---------------------------
(***************************************************************************)
(* Proofs about ChatRooms, for any sets of workers, room names and rooms   *)
(* and any bound on the requests: types and locks, then that each receiver *)
(* is given the log of its room.                                           *)
(***************************************************************************)
EXTENDS ChatRooms, SequenceTheorems, TLAPS

(* What each worker's program counter says of its own variables: which      *)
(* function it is in, and which of its pointers are set there.              *)
LocalInv ==
  /\ \A s \in Senders :
       /\ pc[s] \in {"receive", "find", "insert", "link", "lock", "broadcast", "exited"}
       /\ pc[s] \in {"lock", "broadcast"} => room[s] \in Rooms /\ current[s] \in Messages
  /\ \A r \in Receivers :
       /\ pc[r] \in {"receive", "find", "insert", "link", "exited"}
                      \cup {"add", "adding", "dequeue", "send"}
       /\ pc[r] \in {"add", "adding", "dequeue", "send"} => room[r] \in Rooms
       /\ pc[r] = "send" => out[r] \in Messages
  /\ \A t \in Threads :
       /\ pc[t] \in {"find", "insert", "link"} => name[t] \in RoomNames
       /\ pc[t] \in {"insert", "link"} => room[t] \in Rooms

IInv == TypeOK /\ LocalInv /\ LockHeldInside

LEMMA FreshRoomType ==
  ASSUME created \subseteq Rooms, created # Rooms
  PROVE  FreshRoom \in Rooms /\ FreshRoom \notin created
BY DEF FreshRoom

THEOREM RoomsInvariant == Safety => []IInv
<1> USE ThreadsAssumption, NullAssumption
<1>1. Init => IInv
  <2> SUFFICES ASSUME Init PROVE IInv
    OBVIOUS
  <2>1. TypeOK
    BY DEF Init, TypeOK, NoRooms
  <2>2. LocalInv /\ LockHeldInside
    BY DEF Init, LocalInv, LockHeldInside, InRoomSection, Threads
  <2> QED BY <2>1, <2>2 DEF IInv
<1>2. IInv /\ [Next]_vars => IInv'
  <2> SUFFICES ASSUME IInv, [Next]_vars PROVE IInv'
    OBVIOUS
  <2> USE DEF IInv, At, Goto, mapVars, roomVars, senderVars, receiverVars
  <2>1. ASSUME NEW t \in Threads, FindRoom(t) PROVE IInv'
    <3>1. TypeOK'
      BY <2>1 DEF FindRoom, TypeOK, LocalInv, Threads, AfterLookup
    <3>2. LocalInv'
      BY <2>1 DEF FindRoom, TypeOK, LocalInv, Threads, AfterLookup
    <3>3. LockHeldInside'
      BY <2>1
      DEF FindRoom, TypeOK, LocalInv, LockHeldInside, InRoomSection, Threads, AfterLookup
    <3> QED BY <3>1, <3>2, <3>3
  <2>2. ASSUME NEW t \in Threads, CreateRoom(t) PROVE IInv'
    <3>1. TypeOK'
      BY <2>2, FreshRoomType DEF CreateRoom, TypeOK, LocalInv, Threads
    <3>2. LocalInv'
      BY <2>2, FreshRoomType DEF CreateRoom, TypeOK, LocalInv, Threads
    <3>3. LockHeldInside'
      BY <2>2, FreshRoomType
      DEF CreateRoom, TypeOK, LocalInv, LockHeldInside, InRoomSection, Threads
    <3> QED BY <3>1, <3>2, <3>3
  <2>3. ASSUME NEW t \in Threads, InsertWalk(t) PROVE IInv'
    <3>1. TypeOK'
      BY <2>3 DEF InsertWalk, TypeOK, LocalInv, Threads
    <3>2. LocalInv'
      BY <2>3 DEF InsertWalk, TypeOK, LocalInv, Threads
    <3>3. LockHeldInside'
      BY <2>3
      DEF InsertWalk, TypeOK, LocalInv, LockHeldInside, InRoomSection, Threads
    <3> QED BY <3>1, <3>2, <3>3
  <2>4. ASSUME NEW t \in Threads, InsertLink(t) PROVE IInv'
    <3>0. m_rooms' \in [RoomNames -> Rooms \cup {NoRoom}]
      <4>1. name[t] \in RoomNames /\ room[t] \in Rooms
        BY <2>4 DEF InsertLink, LocalInv, At
      <4>2. CASE UNCHANGED m_rooms
        BY <4>2 DEF TypeOK
      <4>3. ASSUME NEW base \in {m_rooms, view[t]},
                   m_rooms' = [base EXCEPT ![name[t]] = room[t]]
            PROVE  m_rooms' \in [RoomNames -> Rooms \cup {NoRoom}]
        <5>1. base \in [RoomNames -> Rooms \cup {NoRoom}]
          BY DEF TypeOK
        <5> QED BY <4>1, <4>3, <5>1
      <4> QED BY <2>4, <4>2, <4>3 DEF InsertLink
    <3>1. TypeOK'
      BY <2>4, <3>0 DEF InsertLink, TypeOK, LocalInv, Threads, AfterLookup, NoRooms
    <3>2. LocalInv'
      BY <2>4 DEF InsertLink, TypeOK, LocalInv, Threads, AfterLookup
    <3>3. LockHeldInside'
      BY <2>4
      DEF InsertLink, TypeOK, LocalInv, LockHeldInside, InRoomSection, Threads, AfterLookup
    <3> QED BY <3>1, <3>2, <3>3
  <2>5. ASSUME NEW s \in Senders, SenderJoin(s) PROVE IInv'
    <3>1. TypeOK'
      BY <2>5 DEF SenderJoin, TypeOK, LocalInv, Threads
    <3>2. LocalInv'
      BY <2>5 DEF SenderJoin, TypeOK, LocalInv, Threads
    <3>3. LockHeldInside'
      BY <2>5
      DEF SenderJoin, TypeOK, LocalInv, LockHeldInside, InRoomSection, Threads
    <3> QED BY <3>1, <3>2, <3>3
  <2>6. ASSUME NEW s \in Senders, SenderLeave(s) PROVE IInv'
    <3>1. TypeOK'
      BY <2>6 DEF SenderLeave, TypeOK, LocalInv, Threads
    <3>2. LocalInv'
      BY <2>6 DEF SenderLeave, TypeOK, LocalInv, Threads
    <3>3. LockHeldInside'
      BY <2>6
      DEF SenderLeave, TypeOK, LocalInv, LockHeldInside, InRoomSection, Threads
    <3> QED BY <3>1, <3>2, <3>3
  <2>7. ASSUME NEW s \in Senders, SenderSend(s) PROVE IInv'
    <3>0. <<s, requests[s] + 1>> \in Messages /\ requests[s] + 1 \in 0..MaxRequests
      BY <2>7 DEF SenderSend, TypeOK, Messages
    <3>1. TypeOK'
      BY <2>7, <3>0 DEF SenderSend, TypeOK, LocalInv, Threads
    <3>2. LocalInv'
      BY <2>7, <3>0 DEF SenderSend, TypeOK, LocalInv, Threads, Messages
    <3>3. LockHeldInside'
      BY <2>7
      DEF SenderSend, TypeOK, LocalInv, LockHeldInside, InRoomSection, Threads
    <3> QED BY <3>1, <3>2, <3>3
  <2>8. ASSUME NEW s \in Senders, SenderExit(s) PROVE IInv'
    <3>1. TypeOK'
      BY <2>8 DEF SenderExit, TypeOK, LocalInv, Threads
    <3>2. LocalInv'
      BY <2>8 DEF SenderExit, TypeOK, LocalInv, Threads
    <3>3. LockHeldInside'
      BY <2>8
      DEF SenderExit, TypeOK, LocalInv, LockHeldInside, InRoomSection, Threads
    <3> QED BY <3>1, <3>2, <3>3
  <2>9. ASSUME NEW s \in Senders, BroadcastLock(s) PROVE IInv'
    <3>1. TypeOK'
      BY <2>9 DEF BroadcastLock, TypeOK, LocalInv, Threads
    <3>2. LocalInv'
      BY <2>9 DEF BroadcastLock, TypeOK, LocalInv, Threads
    <3>3. LockHeldInside'
      BY <2>9
      DEF BroadcastLock, TypeOK, LocalInv, LockHeldInside, InRoomSection, Threads
    <3> QED BY <3>1, <3>2, <3>3
  <2>10. ASSUME NEW s \in Senders, BroadcastEnqueue(s) PROVE IInv'
    <3>1. TypeOK'
      BY <2>10 DEF BroadcastEnqueue, TypeOK, LocalInv, Threads
    <3>2. LocalInv'
      BY <2>10 DEF BroadcastEnqueue, TypeOK, LocalInv, Threads
    <3>3. LockHeldInside'
      BY <2>10
      DEF BroadcastEnqueue, TypeOK, LocalInv, LockHeldInside, InRoomSection, Threads
    <3> QED BY <3>1, <3>2, <3>3
  <2>11. ASSUME NEW s \in Senders, BroadcastUnlock(s) PROVE IInv'
    <3>1. TypeOK'
      BY <2>11 DEF BroadcastUnlock, TypeOK, LocalInv, Threads
    <3>2. LocalInv'
      BY <2>11 DEF BroadcastUnlock, TypeOK, LocalInv, Threads
    <3>3. LockHeldInside'
      BY <2>11
      DEF BroadcastUnlock, TypeOK, LocalInv, LockHeldInside, InRoomSection, Threads
    <3> QED BY <3>1, <3>2, <3>3
  <2>12. ASSUME NEW r \in Receivers, ReceiverJoin(r) PROVE IInv'
    <3>1. TypeOK'
      BY <2>12 DEF ReceiverJoin, TypeOK, LocalInv, Threads
    <3>2. LocalInv'
      BY <2>12 DEF ReceiverJoin, TypeOK, LocalInv, Threads
    <3>3. LockHeldInside'
      BY <2>12
      DEF ReceiverJoin, TypeOK, LocalInv, LockHeldInside, InRoomSection, Threads
    <3> QED BY <3>1, <3>2, <3>3
  <2>13. ASSUME NEW r \in Receivers, ReceiverRefused(r) PROVE IInv'
    <3>1. TypeOK'
      BY <2>13 DEF ReceiverRefused, TypeOK, LocalInv, Threads
    <3>2. LocalInv'
      BY <2>13 DEF ReceiverRefused, TypeOK, LocalInv, Threads
    <3>3. LockHeldInside'
      BY <2>13
      DEF ReceiverRefused, TypeOK, LocalInv, LockHeldInside, InRoomSection, Threads
    <3> QED BY <3>1, <3>2, <3>3
  <2>14. ASSUME NEW r \in Receivers, AddLock(r) PROVE IInv'
    <3>1. TypeOK'
      BY <2>14 DEF AddLock, TypeOK, LocalInv, Threads
    <3>2. LocalInv'
      BY <2>14 DEF AddLock, TypeOK, LocalInv, Threads
    <3>3. LockHeldInside'
      BY <2>14
      DEF AddLock, TypeOK, LocalInv, LockHeldInside, InRoomSection, Threads
    <3> QED BY <3>1, <3>2, <3>3
  <2>15. ASSUME NEW r \in Receivers, AddMember(r) PROVE IInv'
    <3>1. TypeOK'
      BY <2>15 DEF AddMember, TypeOK, LocalInv, Threads
    <3>2. LocalInv'
      BY <2>15 DEF AddMember, TypeOK, LocalInv, Threads
    <3>3. LockHeldInside'
      BY <2>15
      DEF AddMember, TypeOK, LocalInv, LockHeldInside, InRoomSection, Threads
    <3> QED BY <3>1, <3>2, <3>3
  <2>16. ASSUME NEW r \in Receivers, Dequeue(r) PROVE IInv'
    <3>1. TypeOK'
      BY <2>16 DEF Dequeue, TypeOK, LocalInv, Threads
    <3>2. LocalInv'
      BY <2>16 DEF Dequeue, TypeOK, LocalInv, Threads
    <3>3. LockHeldInside'
      BY <2>16
      DEF Dequeue, TypeOK, LocalInv, LockHeldInside, InRoomSection, Threads
    <3> QED BY <3>1, <3>2, <3>3
  <2>17. ASSUME NEW r \in Receivers, SendDelivery(r) PROVE IInv'
    <3>1. TypeOK'
      BY <2>17 DEF SendDelivery, TypeOK, LocalInv, Threads
    <3>2. LocalInv'
      BY <2>17 DEF SendDelivery, TypeOK, LocalInv, Threads
    <3>3. LockHeldInside'
      BY <2>17
      DEF SendDelivery, TypeOK, LocalInv, LockHeldInside, InRoomSection, Threads
    <3> QED BY <3>1, <3>2, <3>3
  <2>18. ASSUME NEW r \in Receivers, SendFails(r) PROVE IInv'
    <3>1. TypeOK'
      BY <2>18 DEF SendFails, TypeOK, LocalInv, Threads
    <3>2. LocalInv'
      BY <2>18 DEF SendFails, TypeOK, LocalInv, Threads
    <3>3. LockHeldInside'
      BY <2>18
      DEF SendFails, TypeOK, LocalInv, LockHeldInside, InRoomSection, Threads
    <3> QED BY <3>1, <3>2, <3>3
  <2>19. CASE MapCorruption
    <3>1. TypeOK'
      BY <2>19 DEF MapCorruption, TypeOK
    <3>2. LocalInv'
      BY <2>19 DEF MapCorruption, LocalInv
    <3>3. LockHeldInside'
      BY <2>19 DEF MapCorruption, LockHeldInside, InRoomSection
    <3> QED BY <3>1, <3>2, <3>3
  <2>20. CASE UNCHANGED vars
    BY <2>20 DEF vars, TypeOK, LocalInv, LockHeldInside, InRoomSection
  <2> QED BY <2>1, <2>2, <2>3, <2>4, <2>5, <2>6, <2>7, <2>8, <2>9, <2>10,
            <2>11, <2>12, <2>13, <2>14, <2>15, <2>16, <2>17, <2>18, <2>19, <2>20
          DEF Next, FindOrCreateRoom, Sender, Receiver
<1> QED BY <1>1, <1>2, PTL DEF Safety

(* Type correctness of the rooms' state. *)
THEOREM RoomsTypeCorrect == Safety => []TypeOK
BY RoomsInvariant, PTL DEF IInv

(* A room's mutex is held exactly by the worker inside one of its sections; *)
(* in particular no worker ends with the mutex of a room.                   *)
THEOREM RoomLocksHeldInside == Safety => []LockHeldInside
BY RoomsInvariant, PTL DEF IInv

(* While a broadcast walks a room, nobody joins that room. *)
THEOREM RoomMembersStable == Safety => MembersStable
<1>1. IInv /\ [Next]_vars
        => [\A s \in Senders :
              pc[s] = "broadcast" => members'[room[s]] = members[room[s]]]_vars
  <2> SUFFICES ASSUME IInv, [Next]_vars, NEW s \in Senders, pc[s] = "broadcast"
               PROVE  members'[room[s]] = members[room[s]]
    OBVIOUS
  <2>1. lock[room[s]] = s /\ room[s] \in Rooms
    BY DEF IInv, LocalInv, LockHeldInside, InRoomSection, Threads
  <2>2. ASSUME NEW r \in Receivers, AddMember(r)
        PROVE  members'[room[s]] = members[room[s]]
    <3>1. lock[room[r]] = r /\ room[r] \in Rooms
      BY <2>2 DEF AddMember, At, IInv, LocalInv, LockHeldInside, InRoomSection, Threads
    <3>2. room[r] # room[s]
      BY <2>1, <3>1, ThreadsAssumption
    <3> QED BY <2>2, <3>2 DEF AddMember, IInv, TypeOK
  <2>3. UNCHANGED members \/ \E r \in Receivers : AddMember(r)
    BY DEF Next, vars, roomVars, FindOrCreateRoom, FindRoom, CreateRoom, InsertWalk,
           InsertLink, Sender, SenderJoin, SenderLeave, SenderSend, SenderExit,
           BroadcastLock, BroadcastEnqueue, BroadcastUnlock, Receiver,
           ReceiverJoin, ReceiverRefused, AddLock, Dequeue, SendDelivery,
           SendFails, MapCorruption
  <2> QED BY <2>2, <2>3
<1> QED BY <1>1, RoomsInvariant, PTL DEF Safety, MembersStable
-----------------------------------------------------------------------------
(***************************************************************************)
(* Each receiver is given the log of its room: no message is lost, repeated *)
(* or reordered between the broadcasts and what its worker sends, whatever *)
(* the workers' interleaving.                                              *)
(***************************************************************************)
(* What the room of a member, its queue and the broadcasts in progress have *)
(* to do with each other, beyond PendingIsLog.                              *)
MemberInv ==
  /\ \A r \in Receivers, rm \in Rooms :
       r \in members[rm] =>
         room[r] = rm /\ pc[r] \in {"dequeue", "send", "exited"}
  /\ \A r \in Receivers : pc[r] \in {"dequeue", "send"} => r \in members[room[r]]
  /\ \A r \in Receivers :
       ~IsMember(r) => delivered[r] = << >> /\ mqueue[r] = << >> /\ start[r] = 0
  /\ \A rm \in Rooms : \A r \in members[rm] : start[r] <= Len(log[rm])
  /\ \A s \in Senders : pc[s] # "broadcast" => visited[s] = {}
  /\ \A s \in Senders : pc[s] = "broadcast" =>
       /\ visited[s] \subseteq members[room[s]]
       /\ log[room[s]] # << >> /\ log[room[s]][Len(log[room[s]])] = current[s]
       /\ \A r \in members[room[s]] : start[r] < Len(log[room[s]])

LogInv == MemberInv /\ PendingIsLog
-----------------------------------------------------------------------------
(* Sequences: a log that grows, and what a receiver holds of it.            *)

LEMMA SubSeqInRange ==
  ASSUME NEW S, NEW l \in Seq(S), NEW a \in Nat, NEW n \in Nat, n <= Len(l)
  PROVE  /\ SubSeq(l, a + 1, n) \in Seq(S)
         /\ Len(SubSeq(l, a + 1, n)) = IF a < n THEN n - a ELSE 0
         /\ \A i \in 1..(n - a) : SubSeq(l, a + 1, n)[i] = l[a + i]
<1>1. a + 1 \in Int /\ n \in Int /\ \A i \in (a + 1)..n : l[i] \in S
  OBVIOUS
<1> DEFINE m == a + 1
<1> HIDE DEF m
<1>2. /\ SubSeq(l, m, n) \in Seq(S)
      /\ Len(SubSeq(l, m, n)) = IF m <= n THEN n - m + 1 ELSE 0
      /\ \A i \in 1..(n - m + 1) : SubSeq(l, m, n)[i] = l[m + i - 1]
  BY <1>1, SubSeqProperties DEF m
<1>3. Len(SubSeq(l, m, n)) = IF a < n THEN n - a ELSE 0
  BY <1>2 DEF m
<1>4. ASSUME NEW i \in 1..(n - a) PROVE SubSeq(l, m, n)[i] = l[a + i]
  <2>1. i \in 1..(n - m + 1) /\ m + i - 1 = a + i
    BY DEF m
  <2> QED BY <1>2, <2>1
<1> QED BY <1>2, <1>3, <1>4 DEF m

(* A message just put in the log is not yet part of what was reached. *)
LEMMA LogGrows ==
  ASSUME NEW S, NEW l \in Seq(S), NEW e \in S, NEW a \in 0..Len(l)
  PROVE  SubSeq(Append(l, e), a + 1, Len(l)) = SubSeq(l, a + 1, Len(l))
<1>1. /\ Append(l, e) \in Seq(S) /\ Len(l) \in Nat /\ a \in Nat
      /\ Len(l) <= Len(Append(l, e))
  OBVIOUS
<1> DEFINE x == SubSeq(Append(l, e), a + 1, Len(l))
           y == SubSeq(l, a + 1, Len(l))
<1>2. /\ x \in Seq(S) /\ y \in Seq(S) /\ Len(x) = Len(y)
      /\ Len(x) = IF a < Len(l) THEN Len(l) - a ELSE 0
  BY <1>1, SubSeqInRange
<1>3. ASSUME NEW i \in 1..(Len(l) - a) PROVE x[i] = y[i]
  <2>1. x[i] = Append(l, e)[a + i] /\ y[i] = l[a + i]
    BY <1>1, SubSeqInRange
  <2>2. a + i \in 1..Len(l)
    BY <1>1
  <2> QED BY <2>1, <2>2
<1>4. \A i \in 1..Len(x) : x[i] = y[i]
  <2> HIDE DEF x, y
  <2> QED BY <1>1, <1>2, <1>3
<1> HIDE DEF x, y
<1>5. x = y
  BY <1>2, <1>4, SeqEqual
<1> QED BY <1>5 DEF x, y

(* Reaching the last message of the log. *)
LEMMA LogReached ==
  ASSUME NEW S, NEW l \in Seq(S), NEW a \in Nat, a < Len(l)
  PROVE  Append(SubSeq(l, a + 1, Len(l) - 1), l[Len(l)]) = SubSeq(l, a + 1, Len(l))
<1>1. Len(l) \in Nat /\ Len(l) - 1 \in Nat /\ l[Len(l)] \in S /\ Len(l) <= Len(l)
  OBVIOUS
<1> DEFINE n == Len(l)
           w == SubSeq(l, a + 1, n - 1)
           y == SubSeq(l, a + 1, n)
<1>2. /\ w \in Seq(S) /\ Len(w) = n - 1 - a
      /\ \A i \in 1..(n - 1 - a) : w[i] = l[a + i]
  <2>1. n - 1 <= n
    BY <1>1
  <2>2. /\ w \in Seq(S) /\ Len(w) = IF a < n - 1 THEN n - 1 - a ELSE 0
        /\ \A i \in 1..(n - 1 - a) : w[i] = l[a + i]
    BY <1>1, <2>1, SubSeqInRange
  <2> QED BY <1>1, <2>2
<1>3. /\ y \in Seq(S) /\ Len(y) = n - a
      /\ \A i \in 1..(n - a) : y[i] = l[a + i]
  BY <1>1, SubSeqInRange
<1>4. Append(w, l[n]) \in Seq(S) /\ Len(Append(w, l[n])) = n - a
  <2> HIDE DEF w
  <2> QED BY <1>1, <1>2
<1>5. ASSUME NEW i \in 1..(n - a) PROVE Append(w, l[n])[i] = y[i]
  <2>1. y[i] = l[a + i]
    BY <1>3
  <2>2. CASE i = n - a
    <3>1. a + i = n /\ i = Len(w) + 1
      BY <1>1, <1>2, <2>2
    <3> HIDE DEF w, y
    <3> QED BY <1>1, <1>2, <2>1, <3>1
  <2>3. CASE i # n - a
    <3>1. i \in 1..(n - 1 - a)
      BY <1>1, <2>3
    <3> HIDE DEF w, y
    <3> QED BY <1>1, <1>2, <2>1, <3>1
  <2> QED BY <2>2, <2>3
<1> HIDE DEF w, y
<1>6. Append(w, l[n]) = y
  BY <1>3, <1>4, <1>5, SeqEqual
<1> QED BY <1>6 DEF w, y

LEMMA LogFromItsEnd ==
  ASSUME NEW S, NEW l \in Seq(S)
  PROVE  SubSeq(l, Len(l) + 1, Len(l)) = << >>
BY SubSeqEmpty

(* Appending to a queue, taking from it, and finishing a delivery.          *)
LEMMA HeldSequences ==
  ASSUME NEW S, NEW d \in Seq(S), NEW q \in Seq(S), NEW x \in S, NEW o \in Seq(S)
  PROVE  /\ (d \o o) \o Append(q, x) = Append((d \o o) \o q, x)
         /\ q # << >> => (d \o <<Head(q)>>) \o Tail(q) = (d \o << >>) \o q
         /\ (Append(d, x) \o << >>) \o q = (d \o <<x>>) \o q
         /\ ((d \o <<x>>) \o q)[Len(d) + 1] = x
         /\ Len((d \o <<x>>) \o q) >= Len(d) + 1
<1>1. (d \o o) \o Append(q, x) = Append((d \o o) \o q, x)
  OBVIOUS
<1>2. ASSUME q # << >>
      PROVE  (d \o <<Head(q)>>) \o Tail(q) = (d \o << >>) \o q
  <2>1. q = <<Head(q)>> \o Tail(q) /\ <<Head(q)>> \in Seq(S) /\ Tail(q) \in Seq(S)
    BY <1>2
  <2>2. (d \o <<Head(q)>>) \o Tail(q) = d \o (<<Head(q)>> \o Tail(q))
    BY <2>1, ConcatAssociative
  <2>3. d \o << >> = d
    BY ConcatEmptySeq
  <2> QED BY <2>1, <2>2, <2>3
<1>3. (Append(d, x) \o << >>) \o q = (d \o <<x>>) \o q
  <2>1. Append(d, x) = d \o <<x>> /\ Append(d, x) \in Seq(S)
    OBVIOUS
  <2>2. Append(d, x) \o << >> = Append(d, x)
    BY <2>1, ConcatEmptySeq
  <2> QED BY <2>1, <2>2
<1>4. ((d \o <<x>>) \o q)[Len(d) + 1] = x /\ Len((d \o <<x>>) \o q) >= Len(d) + 1
  OBVIOUS
<1> QED BY <1>1, <1>2, <1>3, <1>4
-----------------------------------------------------------------------------
Held(r) == delivered[r] \o Sending(r) \o mqueue[r]
Reached(r) == SubSeq(log[room[r]], start[r] + 1, Len(log[room[r]]) - Unreached(r))

(* Only one worker at a time broadcasts in a room or joins it. *)
LEMMA OneInSection ==
  ASSUME IInv, NEW t \in Threads, NEW u \in Threads,
         InRoomSection(t), InRoomSection(u), room[t] = room[u]
  PROVE  t = u
BY ThreadsAssumption
DEF IInv, LockHeldInside, LocalInv, InRoomSection, Threads

(* A step that leaves the rooms, the queues and the deliveries alone, and   *)
(* moves only workers that are outside of them.                             *)
LEMMA OutsideStep ==
  ASSUME IInv, LogInv,
         UNCHANGED <<members, log, start, mqueue, delivered, visited, out>>,
         \A r \in Receivers : pc'[r] # pc[r] \/ room'[r] # room[r] =>
            /\ pc[r] \notin {"dequeue", "send", "exited"}
            /\ pc'[r] \notin {"dequeue", "send"},
         \A s \in Senders :
            pc'[s] # pc[s] \/ room'[s] # room[s] \/ current'[s] # current[s] =>
              pc[s] # "broadcast" /\ pc'[s] # "broadcast"
  PROVE  LogInv'
<1> USE DEF LogInv
<1>1. \A r \in Receivers : IsMember(r)' <=> IsMember(r)
  BY DEF IsMember
<1>2. ASSUME NEW r \in Receivers, IsMember(r)
      PROVE  pc'[r] = pc[r] /\ room'[r] = room[r]
  BY <1>2 DEF MemberInv, IsMember
<1>3. MemberInv'
  <2>1. \A r \in Receivers, rm \in Rooms :
          r \in members'[rm] => room'[r] = rm /\ pc'[r] \in {"dequeue", "send", "exited"}
    BY <1>2 DEF MemberInv, IsMember
  <2>2. \A r \in Receivers :
          pc'[r] \in {"dequeue", "send"} => r \in members'[room'[r]]
    BY DEF MemberInv
  <2>3. \A r \in Receivers :
          ~IsMember(r)' => delivered'[r] = << >> /\ mqueue'[r] = << >> /\ start'[r] = 0
    BY <1>1 DEF MemberInv
  <2>4. \A rm \in Rooms : \A r \in members'[rm] : start'[r] <= Len(log'[rm])
    BY DEF MemberInv
  <2>5. \A s \in Senders : pc'[s] # "broadcast" => visited'[s] = {}
    BY DEF MemberInv
  <2>6. ASSUME NEW s \in Senders, pc'[s] = "broadcast"
        PROVE  /\ visited'[s] \subseteq members'[room'[s]]
               /\ log'[room'[s]] # << >>
               /\ log'[room'[s]][Len(log'[room'[s]])] = current'[s]
               /\ \A r \in members'[room'[s]] : start'[r] < Len(log'[room'[s]])
    BY <2>6 DEF MemberInv
  <2> QED BY <2>1, <2>2, <2>3, <2>4, <2>5, <2>6 DEF MemberInv, IsMember
<1>4. ASSUME NEW r \in Receivers, IsMember(r)' , pc'[r] # "exited"
      PROVE  Held(r)' = Reached(r)'
  <2>1. IsMember(r) /\ pc[r] # "exited" /\ pc'[r] = pc[r] /\ room'[r] = room[r]
    BY <1>1, <1>2, <1>4
  <2>2. \A s \in Senders : /\ (pc'[s] = "broadcast") <=> (pc[s] = "broadcast")
                           /\ pc[s] = "broadcast" => room'[s] = room[s]
    OBVIOUS
  <2>3. Unreached(r)' = Unreached(r)
    BY <2>1, <2>2 DEF Unreached
  <2>4. Sending(r)' = Sending(r)
    BY <2>1 DEF Sending
  <2>5. Held(r) = Reached(r)
    BY <2>1 DEF PendingIsLog, Held, Reached
  <2> QED BY <2>1, <2>3, <2>4, <2>5 DEF Held, Reached
<1> QED BY <1>3, <1>4 DEF PendingIsLog, Held, Reached

(* The worker of a receiver enters the room. *)
LEMMA AddMemberStep ==
  ASSUME IInv, LogInv, NEW a \in Receivers, AddMember(a)
  PROVE  LogInv'
<1> USE DEF LogInv
<1>1. /\ pc[a] = "adding" /\ room[a] \in Rooms /\ pc' = [pc EXCEPT ![a] = "dequeue"]
      /\ members' = [members EXCEPT ![room[a]] = @ \cup {a}]
      /\ start' = [start EXCEPT ![a] = Len(log[room[a]])]
      /\ UNCHANGED <<log, mqueue, room, visited, current, delivered, out>>
  BY DEF AddMember, At, Goto, IInv, LocalInv, senderVars, receiverVars
<1>2. ~IsMember(a) /\ delivered[a] = << >> /\ mqueue[a] = << >>
  BY <1>1 DEF MemberInv, IsMember
<1>3. \A s \in Senders : pc[s] = "broadcast" => room[s] # room[a]
  BY <1>1, OneInSection, ThreadsAssumption DEF InRoomSection, Threads
<1>4. /\ members \in [Rooms -> SUBSET Receivers] /\ start \in [Receivers -> Nat]
      /\ pc[a] = "adding" /\ \A t \in Threads \ {a} : pc'[t] = pc[t]
      /\ pc'[a] = "dequeue" /\ a \notin Senders /\ Receivers \subseteq Threads
      /\ Senders \subseteq Threads
      /\ \A rm \in Rooms : log[rm] \in Seq(Messages)
  BY <1>1, ThreadsAssumption DEF IInv, TypeOK, Threads
<1>5. \A r \in Receivers \ {a} : IsMember(r)' <=> IsMember(r)
  BY <1>1, <1>4 DEF IsMember
<1>6. MemberInv'
  <2>1. \A r \in Receivers, rm \in Rooms :
          r \in members'[rm] => room'[r] = rm /\ pc'[r] \in {"dequeue", "send", "exited"}
    BY <1>1, <1>2, <1>4 DEF MemberInv, IsMember
  <2>2. \A r \in Receivers :
          pc'[r] \in {"dequeue", "send"} => r \in members'[room'[r]]
    BY <1>1, <1>4 DEF MemberInv
  <2>3. \A r \in Receivers :
          ~IsMember(r)' => delivered'[r] = << >> /\ mqueue'[r] = << >> /\ start'[r] = 0
    <3>1. IsMember(a)'
      BY <1>1, <1>4 DEF IsMember
    <3> QED BY <1>1, <1>4, <1>5, <3>1 DEF MemberInv
  <2>4. \A rm \in Rooms : \A r \in members'[rm] : start'[r] <= Len(log'[rm])
    <3>1. \A rm \in Rooms : Len(log[rm]) \in Nat
      BY <1>4
    <3> QED BY <1>1, <1>2, <1>4, <3>1 DEF MemberInv, IsMember
  <2>5. \A s \in Senders : pc'[s] # "broadcast" => visited'[s] = {}
    BY <1>1, <1>4 DEF MemberInv
  <2>6. ASSUME NEW s \in Senders, pc'[s] = "broadcast"
        PROVE  /\ visited'[s] \subseteq members'[room'[s]]
               /\ log'[room'[s]] # << >>
               /\ log'[room'[s]][Len(log'[room'[s]])] = current'[s]
               /\ \A r \in members'[room'[s]] : start'[r] < Len(log'[room'[s]])
    <3>1. pc[s] = "broadcast" /\ room[s] # room[a] /\ room[s] \in Rooms
      BY <1>3, <1>4, <2>6 DEF IInv, LocalInv
    <3>2. members'[room[s]] = members[room[s]] /\ a \notin members[room[s]]
      BY <1>1, <1>2, <1>4, <3>1 DEF IsMember
    <3> QED BY <1>1, <1>4, <3>1, <3>2 DEF MemberInv
  <2> QED BY <2>1, <2>2, <2>3, <2>4, <2>5, <2>6 DEF MemberInv, IsMember
<1>7. ASSUME NEW r \in Receivers, IsMember(r)', pc'[r] # "exited"
      PROVE  Held(r)' = Reached(r)'
  <2>0. \A s \in Senders : (pc'[s] = "broadcast") <=> (pc[s] = "broadcast")
    BY <1>4
  <2>1. CASE r = a
    <3>1. Unreached(a)' = 0
      BY <1>1, <1>3, <2>0 DEF Unreached
    <3>2. Held(a)' = << >>
      BY <1>1, <1>2, <1>4 DEF Held, Sending
    <3>3. start'[a] = Len(log[room[a]]) /\ Len(log[room[a]]) \in Nat
      BY <1>1, <1>4
    <3>4. Reached(a)' = SubSeq(log[room[a]], Len(log[room[a]]) + 1, Len(log[room[a]]) - 0)
      BY <1>1, <3>1, <3>3 DEF Reached
    <3>5. Len(log[room[a]]) - 0 = Len(log[room[a]])
      BY <3>3
    <3> QED BY <1>1, <1>4, <2>1, <3>2, <3>4, <3>5, LogFromItsEnd
  <2>2. CASE r # a
    <3>1. IsMember(r) /\ pc'[r] = pc[r] /\ start'[r] = start[r] /\ pc[r] # "exited"
      BY <1>1, <1>4, <1>5, <1>7, <2>2
    <3>2. Unreached(r)' = Unreached(r) /\ Sending(r)' = Sending(r)
      BY <1>1, <2>0, <3>1 DEF Unreached, Sending
    <3>3. Held(r) = Reached(r)
      BY <3>1 DEF PendingIsLog, Held, Reached
    <3> QED BY <1>1, <3>1, <3>2, <3>3 DEF Held, Reached
  <2> QED BY <2>1, <2>2
<1> QED BY <1>6, <1>7 DEF PendingIsLog, Held, Reached

(* A broadcast starts: the log has a message no member was reached with.    *)
LEMMA BroadcastLockStep ==
  ASSUME IInv, LogInv, NEW b \in Senders, BroadcastLock(b)
  PROVE  LogInv'
<1> USE DEF LogInv
<1>1. /\ pc[b] = "lock" /\ room[b] \in Rooms /\ current[b] \in Messages
      /\ lock[room[b]] = NoThread
      /\ pc' = [pc EXCEPT ![b] = "broadcast"]
      /\ log' = [log EXCEPT ![room[b]] = Append(@, current[b])]
      /\ UNCHANGED <<members, start, mqueue, room, visited, current, delivered, out>>
  BY DEF BroadcastLock, At, Goto, IInv, LocalInv, senderVars, receiverVars
<1>2. /\ members \in [Rooms -> SUBSET Receivers] /\ start \in [Receivers -> Nat]
      /\ \A t \in Threads \ {b} : pc'[t] = pc[t]
      /\ pc'[b] = "broadcast" /\ b \notin Receivers /\ Receivers \subseteq Threads
      /\ Senders \subseteq Threads
      /\ log \in [Rooms -> Seq(Messages)]
  BY <1>1, ThreadsAssumption DEF IInv, TypeOK, Threads
<1>3. \A r \in Receivers : (IsMember(r)' <=> IsMember(r)) /\ pc'[r] = pc[r]
  BY <1>1, <1>2 DEF IsMember
<1>4. \A s \in Senders : pc[s] = "broadcast" => room[s] # room[b]
  BY <1>1, <1>2, ThreadsAssumption
  DEF IInv, LockHeldInside, InRoomSection
<1>5. /\ log'[room[b]] = Append(log[room[b]], current[b])
      /\ log[room[b]] \in Seq(Messages) /\ log'[room[b]] \in Seq(Messages)
      /\ Len(log'[room[b]]) = Len(log[room[b]]) + 1
      /\ log'[room[b]][Len(log[room[b]]) + 1] = current[b]
      /\ \A rm \in Rooms \ {room[b]} : log'[rm] = log[rm]
      /\ \A rm \in Rooms : Len(log[rm]) \in Nat
  BY <1>1, <1>2
<1>6. MemberInv'
  <2>1. \A r \in Receivers, rm \in Rooms :
          r \in members'[rm] => room'[r] = rm /\ pc'[r] \in {"dequeue", "send", "exited"}
    BY <1>1, <1>3 DEF MemberInv
  <2>2. \A r \in Receivers :
          pc'[r] \in {"dequeue", "send"} => r \in members'[room'[r]]
    BY <1>1, <1>3 DEF MemberInv
  <2>3. \A r \in Receivers :
          ~IsMember(r)' => delivered'[r] = << >> /\ mqueue'[r] = << >> /\ start'[r] = 0
    BY <1>1, <1>3 DEF MemberInv
  <2>4. \A rm \in Rooms : \A r \in members'[rm] : start'[r] <= Len(log'[rm])
    <3> SUFFICES ASSUME NEW rm \in Rooms, NEW r \in members[rm]
                 PROVE  start[r] <= Len(log'[rm])
      BY <1>1
    <3>1. start[r] <= Len(log[rm]) /\ start[r] \in Nat
      BY <1>2 DEF MemberInv
    <3> QED BY <1>5, <3>1
  <2>5. \A s \in Senders : pc'[s] # "broadcast" => visited'[s] = {}
    BY <1>1, <1>2 DEF MemberInv
  <2>6. ASSUME NEW s \in Senders, pc'[s] = "broadcast"
        PROVE  /\ visited'[s] \subseteq members'[room'[s]]
               /\ log'[room'[s]] # << >>
               /\ log'[room'[s]][Len(log'[room'[s]])] = current'[s]
               /\ \A r \in members'[room'[s]] : start'[r] < Len(log'[room'[s]])
    <3>1. CASE s = b
      <4>1. visited[b] = {}
        BY <1>1 DEF MemberInv
      <4>2. \A r \in members[room[b]] : start[r] < Len(log'[room[b]])
        <5> SUFFICES ASSUME NEW r \in members[room[b]]
                     PROVE  start[r] < Len(log'[room[b]])
          OBVIOUS
        <5>1. start[r] <= Len(log[room[b]]) /\ start[r] \in Nat
          BY <1>1, <1>2 DEF MemberInv
        <5> QED BY <1>1, <1>5, <5>1
      <4>3. log'[room[b]] # << >>
        BY <1>1, <1>5
      <4> QED BY <1>1, <1>5, <3>1, <4>1, <4>2, <4>3
    <3>2. CASE s # b
      <4>1. pc[s] = "broadcast" /\ room[s] \in Rooms \ {room[b]}
        BY <1>2, <1>4, <2>6, <3>2 DEF IInv, LocalInv
      <4> QED BY <1>1, <1>5, <4>1 DEF MemberInv
    <3> QED BY <3>1, <3>2
  <2> QED BY <2>1, <2>2, <2>3, <2>4, <2>5, <2>6 DEF MemberInv, IsMember
<1>7. ASSUME NEW r \in Receivers, IsMember(r)', pc'[r] # "exited"
      PROVE  Held(r)' = Reached(r)'
  <2>1. IsMember(r) /\ pc[r] # "exited" /\ pc'[r] = pc[r]
    BY <1>3, <1>7
  <2>2. Held(r)' = Held(r)
    BY <1>1, <2>1 DEF Held, Sending
  <2>3. Held(r) = Reached(r)
    BY <2>1 DEF PendingIsLog, Held, Reached
  <2>4. room[r] \in Rooms /\ r \in members[room[r]]
    BY <2>1 DEF MemberInv, IsMember
  <2>5. CASE room[r] = room[b]
    <3>1. Unreached(r) = 0
      BY <1>4, <2>5 DEF Unreached
    <3>2. Unreached(r)' = 1
      <4>1. visited[b] = {}
        BY <1>1 DEF MemberInv
      <4> QED BY <1>1, <1>2, <2>5, <4>1 DEF Unreached
    <3>3. start[r] \in 0..Len(log[room[b]])
      BY <1>1, <1>2, <1>5, <2>4, <2>5 DEF MemberInv
    <3>4. SubSeq(log'[room[b]], start[r] + 1, Len(log[room[b]]))
            = SubSeq(log[room[b]], start[r] + 1, Len(log[room[b]]))
      <4> DEFINE l == log[room[b]]
                 e == current[b]
                 n == start[r]
      <4>1. l \in Seq(Messages) /\ e \in Messages /\ n \in 0..Len(l)
        BY <1>1, <1>5, <3>3
      <4> HIDE DEF l, e, n
      <4>2. SubSeq(Append(l, e), n + 1, Len(l)) = SubSeq(l, n + 1, Len(l))
        BY <4>1, LogGrows
      <4> QED BY <1>5, <4>2 DEF l, e, n
    <3>5. Reached(r)' = SubSeq(log'[room[b]], start[r] + 1, Len(log'[room[b]]) - 1)
      BY <1>1, <2>5, <3>2 DEF Reached
    <3>6. Reached(r) = SubSeq(log[room[b]], start[r] + 1, Len(log[room[b]]) - 0)
      BY <2>5, <3>1 DEF Reached
    <3>7. /\ Len(log'[room[b]]) - 1 = Len(log[room[b]])
          /\ Len(log[room[b]]) - 0 = Len(log[room[b]])
      BY <1>1, <1>5
    <3> QED BY <2>2, <2>3, <3>4, <3>5, <3>6, <3>7
  <2>6. CASE room[r] # room[b]
    <3>1. Unreached(r)' = Unreached(r)
      BY <1>1, <1>2, <2>6 DEF Unreached
    <3>2. log'[room[r]] = log[room[r]]
      BY <1>5, <2>4, <2>6
    <3> QED BY <1>1, <2>2, <2>3, <3>1, <3>2 DEF Reached
  <2> QED BY <2>5, <2>6
<1> QED BY <1>6, <1>7 DEF PendingIsLog, Held, Reached

(* A broadcast reaches one more member. *)
LEMMA BroadcastEnqueueStep ==
  ASSUME IInv, LogInv, NEW b \in Senders, BroadcastEnqueue(b)
  PROVE  LogInv'
<1> USE DEF LogInv
<1>1. PICK a \in members[room[b]] \ visited[b] :
        /\ mqueue' = [mqueue EXCEPT ![a] = Append(@, current[b])]
        /\ visited' = [visited EXCEPT ![b] = @ \cup {a}]
  BY DEF BroadcastEnqueue
<1>2. /\ pc[b] = "broadcast" /\ room[b] \in Rooms /\ current[b] \in Messages
      /\ UNCHANGED <<members, log, start, pc, room, current, delivered, out>>
  BY DEF BroadcastEnqueue, At, IInv, LocalInv, roomVars, receiverVars
<1>3. /\ members \in [Rooms -> SUBSET Receivers] /\ start \in [Receivers -> Nat]
      /\ a \in Receivers /\ Receivers \subseteq Threads /\ Senders \subseteq Threads
      /\ log \in [Rooms -> Seq(Messages)] /\ mqueue \in [Receivers -> Seq(Messages)]
      /\ visited \in [Senders -> SUBSET Receivers]
      /\ delivered \in [Receivers -> Seq(Messages)]
  BY <1>1, <1>2 DEF IInv, TypeOK, Threads
<1>4. /\ \A r \in Receivers \ {a} : mqueue'[r] = mqueue[r]
      /\ mqueue'[a] = Append(mqueue[a], current[b])
      /\ \A s \in Senders \ {b} : visited'[s] = visited[s]
      /\ visited'[b] = visited[b] \cup {a}
  BY <1>1, <1>3
<1>5. \A r \in Receivers : IsMember(r)' <=> IsMember(r)
  BY <1>2 DEF IsMember
<1>6. IsMember(a) /\ room[a] = room[b]
  BY <1>1, <1>2, <1>3 DEF IsMember, MemberInv
<1>7. \A s \in Senders : pc[s] = "broadcast" /\ room[s] = room[b] => s = b
  BY <1>2, <1>3, OneInSection DEF InRoomSection
<1>8. MemberInv'
  BY <1>1, <1>2, <1>3, <1>4, <1>5, <1>6 DEF MemberInv, IsMember
<1>9. ASSUME NEW r \in Receivers, IsMember(r)', pc'[r] # "exited"
      PROVE  Held(r)' = Reached(r)'
  <2>1. IsMember(r) /\ pc[r] # "exited" /\ Held(r) = Reached(r)
    BY <1>2, <1>5, <1>9 DEF PendingIsLog, Held, Reached
  <2>2. CASE r = a
    <3>1. Unreached(a) = 1 /\ Unreached(a)' = 0
      BY <1>1, <1>2, <1>4, <1>6, <1>7 DEF Unreached
    <3> DEFINE l == log[room[b]]
    <3>2. /\ l \in Seq(Messages) /\ start[a] \in Nat /\ start[a] < Len(l)
          /\ l[Len(l)] = current[b] /\ Len(l) \in Nat
      BY <1>1, <1>2, <1>3 DEF MemberInv
    <3>3. Sending(a) \in Seq(Messages)
      BY <2>1, <2>2 DEF Sending, IInv, LocalInv
    <3>4. Held(a)' = Append(Held(a), current[b])
      <4>1. Held(a)' = delivered[a] \o Sending(a) \o Append(mqueue[a], current[b])
        BY <1>2, <1>4 DEF Held, Sending
      <4>2. delivered[a] \in Seq(Messages) /\ mqueue[a] \in Seq(Messages)
        BY <1>3
      <4> DEFINE d == delivered[a]
                 o == Sending(a)
                 q == mqueue[a]
                 x == current[b]
      <4> HIDE DEF d, o, q, x
      <4>3. d \in Seq(Messages) /\ o \in Seq(Messages) /\ q \in Seq(Messages)
        BY <3>3, <4>2 DEF d, o, q
      <4>4. x \in Messages
        BY <1>2 DEF x
      <4>5. (d \o o) \o Append(q, x) = Append((d \o o) \o q, x)
        BY <4>3, <4>4, HeldSequences
      <4> QED BY <4>1, <4>5 DEF Held, d, o, q, x
    <3>5. Held(a) = SubSeq(l, start[a] + 1, Len(l) - 1)
      BY <1>6, <2>1, <2>2, <3>1 DEF Reached
    <3>6. Reached(a)' = SubSeq(l, start[a] + 1, Len(l) - 0)
      BY <1>2, <1>6, <3>1 DEF Reached
    <3>7. Len(l) - 0 = Len(l)
      BY <3>2
    <3>8. Append(SubSeq(l, start[a] + 1, Len(l) - 1), l[Len(l)])
            = SubSeq(l, start[a] + 1, Len(l))
      <4> HIDE DEF l
      <4> QED BY <3>2, LogReached
    <3> HIDE DEF l
    <3> QED BY <2>2, <3>2, <3>4, <3>5, <3>6, <3>7, <3>8
  <2>3. CASE r # a
    <3>1. Unreached(r)' = Unreached(r)
      BY <1>2, <1>4, <2>3 DEF Unreached
    <3>2. Held(r)' = Held(r)
      BY <1>2, <1>4, <2>3 DEF Held, Sending
    <3> QED BY <1>2, <2>1, <3>1, <3>2 DEF Reached
  <2> QED BY <2>2, <2>3
<1> QED BY <1>8, <1>9 DEF PendingIsLog, Held, Reached

(* A broadcast ends: it has reached every member. *)
LEMMA BroadcastUnlockStep ==
  ASSUME IInv, LogInv, NEW b \in Senders, BroadcastUnlock(b)
  PROVE  LogInv'
<1> USE DEF LogInv
<1>1. /\ pc[b] = "broadcast" /\ room[b] \in Rooms
      /\ members[room[b]] \subseteq visited[b]
      /\ pc' = [pc EXCEPT ![b] = "receive"]
      /\ visited' = [visited EXCEPT ![b] = {}]
      /\ current' = [current EXCEPT ![b] = NoMessage]
      /\ UNCHANGED <<members, log, start, mqueue, room, delivered, out>>
  BY DEF BroadcastUnlock, At, Goto, IInv, LocalInv, receiverVars
<1>2. /\ members \in [Rooms -> SUBSET Receivers]
      /\ \A t \in Threads \ {b} : pc'[t] = pc[t]
      /\ pc'[b] = "receive" /\ b \notin Receivers /\ Receivers \subseteq Threads
      /\ Senders \subseteq Threads
      /\ visited'[b] = {} /\ \A s \in Senders \ {b} : visited'[s] = visited[s]
      /\ \A s \in Senders \ {b} : current'[s] = current[s]
  BY <1>1, ThreadsAssumption DEF IInv, TypeOK, Threads
<1>3. \A r \in Receivers : (IsMember(r)' <=> IsMember(r)) /\ pc'[r] = pc[r]
  BY <1>1, <1>2 DEF IsMember
<1>4. MemberInv'
  BY <1>1, <1>2, <1>3 DEF MemberInv, IsMember
<1>5. ASSUME NEW r \in Receivers, IsMember(r)', pc'[r] # "exited"
      PROVE  Held(r)' = Reached(r)'
  <2>1. IsMember(r) /\ pc'[r] = pc[r] /\ Held(r) = Reached(r)
    BY <1>3, <1>5 DEF PendingIsLog, Held, Reached
  <2>2. r \in members[room[r]]
    BY <2>1 DEF MemberInv, IsMember
  <2>3. Unreached(r)' = Unreached(r)
    BY <1>1, <1>2, <2>2 DEF Unreached
  <2>4. Held(r)' = Held(r)
    BY <1>1, <2>1 DEF Held, Sending
  <2> QED BY <1>1, <2>1, <2>3, <2>4 DEF Reached
<1> QED BY <1>4, <1>5 DEF PendingIsLog, Held, Reached

(* A receiver's worker moves a message from its queue to its client; only   *)
(* what worker a holds changes, and not in what order it holds it.          *)
LEMMA ReceiverStep ==
  ASSUME IInv, LogInv, NEW a \in Receivers, IsMember(a),
         pc[a] # "exited", pc'[a] \in {"dequeue", "send", "exited"},
         pc'[a] # "exited" => Held(a)' = Held(a),
         \A t \in Threads \ {a} : pc'[t] = pc[t],
         \A r \in Receivers \ {a} : /\ delivered'[r] = delivered[r]
                                    /\ mqueue'[r] = mqueue[r]
                                    /\ out'[r] = out[r],
         UNCHANGED <<members, log, start, room, visited, current>>
  PROVE  LogInv'
<1> USE DEF LogInv
<1>1. /\ a \notin Senders /\ Receivers \subseteq Threads /\ Senders \subseteq Threads
      /\ a \in members[room[a]]
  BY ThreadsAssumption DEF Threads, MemberInv, IsMember
<1>2. \A r \in Receivers : IsMember(r)' <=> IsMember(r)
  BY DEF IsMember
<1>3. \A s \in Senders : pc'[s] = pc[s]
  BY <1>1
<1>4. MemberInv'
  BY <1>1, <1>2, <1>3 DEF MemberInv, IsMember
<1>5. ASSUME NEW r \in Receivers, IsMember(r)', pc'[r] # "exited"
      PROVE  Held(r)' = Reached(r)'
  <2>1. Unreached(r)' = Unreached(r)
    BY <1>3 DEF Unreached
  <2>2. pc[r] # "exited"
    BY <1>1, <1>5
  <2>3. Held(r) = Reached(r)
    BY <1>2, <1>5, <2>2 DEF PendingIsLog, Held, Reached
  <2>4. Held(r)' = Held(r)
    <3>1. CASE r = a
      BY <1>5, <3>1
    <3>2. CASE r # a
      BY <1>1, <3>2 DEF Held, Sending
    <3> QED BY <3>1, <3>2
  <2> QED BY <2>1, <2>3, <2>4 DEF Reached
<1> QED BY <1>4, <1>5 DEF PendingIsLog, Held, Reached

LEMMA DequeueStep ==
  ASSUME IInv, LogInv, NEW a \in Receivers, Dequeue(a)
  PROVE  LogInv'
<1>1. /\ pc[a] = "dequeue" /\ mqueue[a] # << >>
      /\ pc' = [pc EXCEPT ![a] = "send"]
      /\ out' = [out EXCEPT ![a] = Head(mqueue[a])]
      /\ mqueue' = [mqueue EXCEPT ![a] = Tail(@)]
      /\ UNCHANGED <<members, log, start, room, visited, current, delivered>>
  BY DEF Dequeue, At, Goto, roomVars, senderVars
<1>2. /\ a \in Threads /\ pc'[a] = "send" /\ \A t \in Threads \ {a} : pc'[t] = pc[t]
      /\ out'[a] = Head(mqueue[a]) /\ mqueue'[a] = Tail(mqueue[a])
      /\ \A r \in Receivers \ {a} : mqueue'[r] = mqueue[r] /\ out'[r] = out[r]
      /\ mqueue[a] \in Seq(Messages) /\ delivered[a] \in Seq(Messages)
  BY <1>1 DEF IInv, TypeOK, Threads
<1>3. IsMember(a)
  BY <1>1 DEF LogInv, MemberInv, IsMember, IInv, LocalInv
<1>4. Held(a)' = Held(a)
  <2> DEFINE d == delivered[a]
             q == mqueue[a]
  <2>1. Held(a)' = (d \o <<Head(q)>>) \o Tail(q) /\ Held(a) = (d \o << >>) \o q
    BY <1>1, <1>2 DEF Held, Sending
  <2>2. d \in Seq(Messages) /\ q \in Seq(Messages) /\ q # << >> /\ Head(q) \in Messages
    BY <1>1, <1>2
  <2> HIDE DEF d, q
  <2>3. (d \o <<Head(q)>>) \o Tail(q) = (d \o << >>) \o q
    BY <2>2, HeldSequences
  <2> QED BY <2>1, <2>3
<1> QED BY <1>1, <1>2, <1>3, <1>4, ReceiverStep

(* The message being sent is the next one of the receiver's room. *)
LEMMA SendDeliveryStep ==
  ASSUME IInv, LogInv, NEW a \in Receivers, SendDelivery(a)
  PROVE  /\ LogInv'
         /\ IsMember(a) /\ room[a] \in Rooms /\ start[a] \in Nat
         /\ start[a] + Len(delivered[a]) + 1 <= Len(log[room[a]])
         /\ out[a] = log[room[a]][start[a] + Len(delivered[a]) + 1]
         /\ delivered' = [delivered EXCEPT ![a] = Append(@, out[a])]
         /\ UNCHANGED <<members, log, start, room>>
<1>1. /\ pc[a] = "send"
      /\ pc' = [pc EXCEPT ![a] = "dequeue"]
      /\ delivered' = [delivered EXCEPT ![a] = Append(@, out[a])]
      /\ out' = [out EXCEPT ![a] = NoMessage]
      /\ UNCHANGED <<members, log, start, room, visited, current, mqueue>>
  BY DEF SendDelivery, At, Goto, roomVars, senderVars
<1>2. /\ a \in Threads /\ pc'[a] = "dequeue" /\ \A t \in Threads \ {a} : pc'[t] = pc[t]
      /\ delivered'[a] = Append(delivered[a], out[a])
      /\ \A r \in Receivers \ {a} : delivered'[r] = delivered[r] /\ out'[r] = out[r]
      /\ mqueue[a] \in Seq(Messages) /\ delivered[a] \in Seq(Messages)
      /\ out[a] \in Messages /\ room[a] \in Rooms /\ start[a] \in Nat
      /\ log[room[a]] \in Seq(Messages)
  BY <1>1 DEF IInv, TypeOK, LocalInv, Threads
<1>3. IsMember(a) /\ Held(a) = Reached(a)
  BY <1>1 DEF LogInv, MemberInv, PendingIsLog, IsMember, IInv, LocalInv, Held, Reached
<1> DEFINE d == delivered[a]
           q == mqueue[a]
           x == out[a]
           l == log[room[a]]
           n == start[a]
           k == Len(l) - Unreached(a)
<1>4. Held(a) = (d \o <<x>>) \o q
  BY <1>1 DEF Held, Sending
<1>5. /\ d \in Seq(Messages) /\ q \in Seq(Messages) /\ x \in Messages
      /\ l \in Seq(Messages) /\ n \in Nat
  BY <1>2
<1>6. Held(a)' = Held(a)
  <2>1. Held(a)' = (Append(d, x) \o << >>) \o q
    BY <1>1, <1>2 DEF Held, Sending
  <2> HIDE DEF d, q, x
  <2>2. (Append(d, x) \o << >>) \o q = (d \o <<x>>) \o q
    BY <1>5, HeldSequences
  <2> QED BY <1>4, <2>1, <2>2
<1>7. LogInv'
  BY <1>1, <1>2, <1>3, <1>6, ReceiverStep
<1>8. Held(a) = SubSeq(l, n + 1, k)
  BY <1>3 DEF Reached
<1>9. k \in Int /\ k <= Len(l) /\ Len(l) \in Nat
  <2>1. Unreached(a) \in {0, 1}
    BY DEF Unreached
  <2>2. Len(l) \in Nat
    BY <1>5
  <2> HIDE DEF l
  <2> QED BY <2>1, <2>2
<1>10. Len(d) \in Nat /\ Held(a)[Len(d) + 1] = x /\ Len(Held(a)) >= Len(d) + 1
  <2> HIDE DEF d, q, x, l, n, k
  <2> QED BY <1>4, <1>5, HeldSequences
<1>11. k \in Nat
  <2>1. CASE k < 0
    <3>1. SubSeq(l, n + 1, k) = << >>
      <4> HIDE DEF l, n, k
      <4>1. n + 1 \in Int /\ k \in Int /\ k < n + 1
        BY <1>5, <1>9, <2>1
      <4> QED BY <4>1, SubSeqEmpty
    <3> HIDE DEF d, q, x, l, n, k
    <3>2. Held(a) = << >>
      BY <1>8, <3>1
    <3>3. Len(Held(a)) = 0
      BY <3>2, EmptySeq
    <3> QED BY <1>10, <3>3
  <2> HIDE DEF d, q, x, l, n, k
  <2> QED BY <1>9, <2>1
<1>12. Len(d) + 1 <= k - n /\ x = l[n + (Len(d) + 1)]
  <2> HIDE DEF d, q, x, l, n, k
  <2>1. /\ Len(SubSeq(l, n + 1, k)) = IF n < k THEN k - n ELSE 0
        /\ \A i \in 1..(k - n) : SubSeq(l, n + 1, k)[i] = l[n + i]
    BY <1>5, <1>9, <1>11, SubSeqInRange
  <2>2. Len(d) + 1 <= k - n
    BY <1>5, <1>8, <1>10, <1>11, <2>1
  <2>3. Len(d) + 1 \in 1..(k - n)
    BY <1>5, <1>10, <1>11, <2>2
  <2> QED BY <1>8, <1>10, <2>1, <2>2, <2>3
<1>13. n + Len(d) + 1 <= Len(l) /\ x = l[n + Len(d) + 1]
  <2> HIDE DEF d, q, x, l, n, k
  <2>1. n + (Len(d) + 1) = n + Len(d) + 1
    BY <1>5, <1>10
  <2> QED BY <1>5, <1>9, <1>10, <1>12, <2>1
<1> QED BY <1>1, <1>2, <1>3, <1>7, <1>13

LEMMA SendFailsStep ==
  ASSUME IInv, LogInv, NEW a \in Receivers, SendFails(a)
  PROVE  LogInv'
<1>1. /\ pc[a] = "send"
      /\ pc' = [pc EXCEPT ![a] = "exited"]
      /\ out' = [out EXCEPT ![a] = NoMessage]
      /\ UNCHANGED <<members, log, start, room, visited, current, mqueue, delivered>>
  BY DEF SendFails, At, Goto, roomVars, senderVars
<1>2. /\ a \in Threads /\ pc'[a] = "exited" /\ \A t \in Threads \ {a} : pc'[t] = pc[t]
      /\ \A r \in Receivers \ {a} : out'[r] = out[r]
  BY <1>1 DEF IInv, TypeOK, Threads
<1>3. IsMember(a)
  BY <1>1 DEF LogInv, MemberInv, IsMember, IInv, LocalInv
<1> QED BY <1>1, <1>2, <1>3, ReceiverStep
-----------------------------------------------------------------------------
LEMMA LogInvStep == IInv /\ IInv' /\ LogInv /\ [Next]_vars => LogInv'
<1> SUFFICES ASSUME IInv, IInv', LogInv, [Next]_vars PROVE LogInv'
  OBVIOUS
<1> USE DEF mapVars, roomVars, senderVars, receiverVars, At, Goto
<1> USE ThreadsAssumption
<1>1. ASSUME NEW t \in Threads, FindOrCreateRoom(t) PROVE LogInv'
  <2>1. /\ UNCHANGED <<members, log, start, mqueue, delivered, visited, out, current>>
        /\ pc[t] \in {"find", "insert", "link"}
        /\ \E label \in {"receive", "add", "insert", "link"} :
              pc' = [pc EXCEPT ![t] = label]
        /\ \A u \in Threads \ {t} : room'[u] = room[u]
    BY <1>1 DEF FindOrCreateRoom, FindRoom, CreateRoom, InsertWalk, InsertLink,
                AfterLookup, IInv, TypeOK
  <2>2. /\ \A u \in Threads \ {t} : pc'[u] = pc[u]
        /\ pc'[t] \in {"receive", "add", "insert", "link"}
    BY <2>1 DEF IInv, TypeOK
  <2> QED BY <2>1, <2>2, OutsideStep DEF Threads
<1>2. ASSUME NEW s \in Senders,
             SenderJoin(s) \/ SenderLeave(s) \/ SenderSend(s) \/ SenderExit(s)
      PROVE  LogInv'
  <2>1. /\ UNCHANGED <<members, log, start, mqueue, delivered, visited, out>>
        /\ pc[s] = "receive" /\ pc'[s] \in {"receive", "find", "lock", "exited"}
        /\ \A u \in Threads \ {s} : pc'[u] = pc[u] /\ room'[u] = room[u]
        /\ \A u \in Senders \ {s} : current'[u] = current[u]
    BY <1>2 DEF SenderJoin, SenderLeave, SenderSend, SenderExit, IInv, TypeOK, Threads
  <2> QED BY <2>1, OutsideStep DEF Threads
<1>3. ASSUME NEW r \in Receivers, ReceiverJoin(r) \/ ReceiverRefused(r) \/ AddLock(r)
      PROVE  LogInv'
  <2>1. /\ UNCHANGED <<members, log, start, mqueue, delivered, visited, out, current, room>>
        /\ pc[r] \in {"receive", "add"} /\ pc'[r] \in {"find", "exited", "adding"}
        /\ \A u \in Threads \ {r} : pc'[u] = pc[u]
    BY <1>3 DEF ReceiverJoin, ReceiverRefused, AddLock, IInv, TypeOK, Threads
  <2> QED BY <2>1, OutsideStep DEF Threads
<1>4. CASE MapCorruption
  <2>1. UNCHANGED <<members, log, start, mqueue, delivered, visited, out, current, room, pc>>
    BY <1>4 DEF MapCorruption
  <2> QED BY <2>1, OutsideStep
<1>5. CASE UNCHANGED vars
  <2>1. UNCHANGED <<members, log, start, mqueue, delivered, visited, out, current, room, pc>>
    BY <1>5 DEF vars
  <2> QED BY <2>1, OutsideStep
<1> QED BY <1>1, <1>2, <1>3, <1>4, <1>5, AddMemberStep, BroadcastLockStep,
           BroadcastEnqueueStep, BroadcastUnlockStep, DequeueStep,
           SendDeliveryStep, SendFailsStep
        DEF Next, Sender, Receiver

LEMMA LogInvInit == Init => LogInv
<1> SUFFICES ASSUME Init PROVE LogInv
  OBVIOUS
<1>1. \A r \in Receivers : ~IsMember(r)
  BY DEF Init, IsMember
<1> QED BY <1>1 DEF Init, LogInv, MemberInv, PendingIsLog, Threads, IsMember

(* A member holds, in order and without gap or repetition, the log of its   *)
(* room from where it joined.                                               *)
THEOREM ReceiversHoldTheLog == Safety => []PendingIsLog
<1>1. LogInv => PendingIsLog
  BY DEF LogInv
<1> QED BY <1>1, LogInvInit, LogInvStep, RoomsInvariant, PTL DEF Safety

LEMMA LogInvariant == Safety => []LogInv
BY LogInvInit, LogInvStep, RoomsInvariant, PTL DEF Safety
-----------------------------------------------------------------------------
(* The refinement mapping of Rlog. *)
Joined == [r \in Receivers |-> IF IsMember(r) THEN room[r] ELSE NoRoom]

(* The workers implement RoomLog: a broadcast is Post when it takes the     *)
(* room's mutex, add_member is Join, a delivery sent is Deliver, and every  *)
(* other step is a stutter.                                                 *)
THEOREM RoomsImplementLog == Safety => ImplementsRoomLog
<1>1. Init => Rlog!Init
  BY DEF Init, Rlog!Init, IsMember
<1>2. IInv /\ LogInv /\ [Next]_vars => [Rlog!Next]_(Rlog!vars)
  <2> SUFFICES ASSUME IInv, LogInv, [Next]_vars PROVE [Rlog!Next]_(Rlog!vars)
    OBVIOUS
  <2>1. ASSUME NEW a \in Receivers, AddMember(a) PROVE Rlog!Next
    <3>1. /\ pc[a] = "adding" /\ room[a] \in Rooms
          /\ members' = [members EXCEPT ![room[a]] = @ \cup {a}]
          /\ start' = [start EXCEPT ![a] = Len(log[room[a]])]
          /\ UNCHANGED <<log, room, delivered>>
      BY <2>1 DEF AddMember, At, IInv, LocalInv, receiverVars
    <3>2. ~IsMember(a) /\ members \in [Rooms -> SUBSET Receivers]
      BY <3>1 DEF LogInv, MemberInv, IsMember, IInv, TypeOK
    <3>3. IsMember(a)' /\ \A r \in Receivers \ {a} : IsMember(r)' <=> IsMember(r)
      BY <3>1, <3>2 DEF IsMember
    <3>4. Joined' = [Joined EXCEPT ![a] = room[a]] /\ Joined[a] = NoRoom
      BY <3>1, <3>2, <3>3 DEF Joined
    <3>5. PICK rm \in Rooms : rm = room[a]
      BY <3>1
    <3>6. Rlog!Join(a, rm)
      BY <3>1, <3>4, <3>5 DEF Rlog!Join, Joined
    <3> QED BY <3>6 DEF Rlog!Next
  <2>2. ASSUME NEW b \in Senders, BroadcastLock(b) PROVE Rlog!Next
    <3>1. /\ room[b] \in Rooms /\ current[b] \in Messages
          /\ log' = [log EXCEPT ![room[b]] = Append(@, current[b])]
          /\ UNCHANGED <<members, room, start, delivered>>
      BY <2>2 DEF BroadcastLock, At, IInv, LocalInv, receiverVars
    <3>2. Joined' = Joined
      BY <3>1 DEF Joined, IsMember
    <3>3. Rlog!Post(room[b], current[b])
      BY <3>1, <3>2 DEF Rlog!Post, Joined
    <3> QED BY <3>1, <3>3 DEF Rlog!Next
  <2>3. ASSUME NEW a \in Receivers, SendDelivery(a) PROVE Rlog!Next
    <3>1. /\ IsMember(a) /\ room[a] \in Rooms
          /\ start[a] + Len(delivered[a]) + 1 <= Len(log[room[a]])
          /\ out[a] = log[room[a]][start[a] + Len(delivered[a]) + 1]
          /\ delivered' = [delivered EXCEPT ![a] = Append(@, out[a])]
          /\ UNCHANGED <<members, log, start, room>>
      BY <2>3, SendDeliveryStep
    <3>2. Joined' = Joined /\ Joined[a] = room[a] /\ Joined[a] # NoRoom
      BY <3>1, NullAssumption DEF Joined, IsMember
    <3>3. Rlog!Deliver(a)
      BY <3>1, <3>2 DEF Rlog!Deliver, Rlog!NextIndex, Joined
    <3> QED BY <3>3 DEF Rlog!Next
  <2>4. ASSUME UNCHANGED <<members, log, start, delivered>>,
               \A r \in Receivers : IsMember(r) => room'[r] = room[r]
        PROVE  UNCHANGED Rlog!vars
    <3>1. \A r \in Receivers : IsMember(r)' <=> IsMember(r)
      BY <2>4 DEF IsMember
    <3> QED BY <2>4, <3>1 DEF Rlog!vars
  <2>5. ASSUME NEW t \in Threads, FindOrCreateRoom(t) PROVE UNCHANGED Rlog!vars
    <3>1. /\ pc[t] \in {"find", "insert", "link"}
          /\ \A u \in Threads \ {t} : room'[u] = room[u]
          /\ UNCHANGED <<members, log, start, delivered>>
      BY <2>5 DEF FindOrCreateRoom, FindRoom, CreateRoom, InsertWalk, InsertLink,
                  At, roomVars, receiverVars, IInv, TypeOK
    <3>2. \A r \in Receivers : IsMember(r) => r # t
      BY <3>1 DEF LogInv, MemberInv, IsMember
    <3> QED BY <2>4, <3>1, <3>2 DEF Threads
  <2>6. ASSUME NEW s \in Senders, SenderJoin(s) \/ SenderLeave(s) \/ SenderSend(s)
                 \/ SenderExit(s) \/ BroadcastEnqueue(s) \/ BroadcastUnlock(s)
        PROVE  UNCHANGED Rlog!vars
    <3>1. /\ UNCHANGED <<members, log, start, delivered>>
          /\ \A u \in Threads \ {s} : room'[u] = room[u]
      BY <2>6 DEF SenderJoin, SenderLeave, SenderSend, SenderExit, BroadcastEnqueue,
                  BroadcastUnlock, roomVars, receiverVars, IInv, TypeOK
    <3> QED BY <2>4, <3>1, ThreadsAssumption DEF Threads
  <2>7. ASSUME NEW r \in Receivers, ReceiverJoin(r) \/ ReceiverRefused(r)
                 \/ AddLock(r) \/ Dequeue(r) \/ SendFails(r)
        PROVE  UNCHANGED Rlog!vars
    <3>1. UNCHANGED <<members, log, start, delivered, room>>
      BY <2>7 DEF ReceiverJoin, ReceiverRefused, AddLock, Dequeue, SendFails,
                  roomVars, receiverVars
    <3> QED BY <2>4, <3>1
  <2>8. CASE MapCorruption \/ UNCHANGED vars
    <3>1. UNCHANGED <<members, log, start, delivered, room>>
      BY <2>8 DEF MapCorruption, vars, roomVars, receiverVars
    <3> QED BY <2>4, <3>1
  <2> QED BY <2>1, <2>2, <2>3, <2>5, <2>6, <2>7, <2>8 DEF Next, Sender, Receiver
<1> QED BY <1>1, <1>2, RoomsInvariant, LogInvariant, PTL
        DEF Safety, ImplementsRoomLog, Rlog!Spec
=============================================================================

------------------------------- MODULE RoomLog -------------------------------
(***************************************************************************)
(* What a chat room promises its receivers (csf_assign05): the messages    *)
(* broadcast to a Room object form one log, and a receiver that joined it  *)
(* is delivered a contiguous run of that log, from the point where it      *)
(* joined, in order, without gap, repetition or invention.                 *)
(***************************************************************************)
EXTENDS Naturals, Sequences

CONSTANTS Rooms,      \* the Room objects
          Receivers,  \* the receivers, each with one User object
          Messages,   \* what can be broadcast
          NoRoom      \* not a member of any room

VARIABLES log,        \* log[rm]: the messages broadcast to rm
          joined,     \* joined[r]: the room r is a member of
          start,      \* start[r]: length of the log when r joined
          delivered   \* delivered[r]: the messages sent to r

vars == <<log, joined, start, delivered>>

Init ==
  /\ log = [rm \in Rooms |-> << >>]
  /\ joined = [r \in Receivers |-> NoRoom]
  /\ start = [r \in Receivers |-> 0]
  /\ delivered = [r \in Receivers |-> << >>]

(* broadcast_message *)
Post(rm, m) ==
  /\ log' = [log EXCEPT ![rm] = Append(@, m)]
  /\ UNCHANGED <<joined, start, delivered>>

(* add_member *)
Join(r, rm) ==
  /\ joined[r] = NoRoom
  /\ joined' = [joined EXCEPT ![r] = rm]
  /\ start' = [start EXCEPT ![r] = Len(log[rm])]
  /\ UNCHANGED <<log, delivered>>

NextIndex(r) == start[r] + Len(delivered[r]) + 1

(* one delivery of chat_with_receiver *)
Deliver(r) ==
  /\ joined[r] # NoRoom
  /\ NextIndex(r) <= Len(log[joined[r]])
  /\ delivered' = [delivered EXCEPT ![r] = Append(@, log[joined[r]][NextIndex(r)])]
  /\ UNCHANGED <<log, joined, start>>

Next ==
  \/ \E rm \in Rooms, m \in Messages : Post(rm, m)
  \/ \E r \in Receivers, rm \in Rooms : Join(r, rm)
  \/ \E r \in Receivers : Deliver(r)

Spec == Init /\ [][Next]_vars
=============================================================================

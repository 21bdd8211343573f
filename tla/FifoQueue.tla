------------------------------ MODULE FifoQueue ------------------------------
(***************************************************************************)
(* What class MessageQueue of csf_assign05 promises the rest of the chat   *)
(* server: the messages passed to enqueue are returned by dequeue, each    *)
(* once, none invented, in one order that respects the order in which each *)
(* thread enqueued its own.  A message is <<p, n>>: the n-th of thread p.  *)
(***************************************************************************)
EXTENDS Naturals, Sequences, Functions

CONSTANTS Producers,   \* the threads that call enqueue
          MaxMessages  \* bound: enqueue calls of one thread

VARIABLES sent,        \* the messages accepted by enqueue, in queue order
          received     \* the messages returned by dequeue, in order

vars == <<sent, received>>

Messages == Producers \X (1..MaxMessages)

Init == sent = << >> /\ received = << >>

(* enqueue: the next message of its caller joins the end of the queue. *)
Put(m) ==
  /\ m \notin Range(sent)
  /\ m[2] > 1 => <<m[1], m[2] - 1>> \in Range(sent)
  /\ sent' = Append(sent, m)
  /\ UNCHANGED received

(* dequeue: the oldest message not yet returned is returned. *)
Get ==
  /\ Len(received) < Len(sent)
  /\ received' = Append(received, sent[Len(received) + 1])
  /\ UNCHANGED sent

Next == (\E m \in Messages : Put(m)) \/ Get

Spec == Init /\ [][Next]_vars
=============================================================================

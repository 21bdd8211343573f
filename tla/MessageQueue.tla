---------------------------- MODULE MessageQueue ----------------------------
(***************************************************************************)
(* Class MessageQueue (csf_assign05/message_queue.h and .cpp): a deque of  *)
(* messages guarded by the mutex m_lock, and a semaphore m_avail counting  *)
(* them.  Each call of enqueue and dequeue is cut at every point where     *)
(* another thread can run: the mutex operations, the semaphore operations  *)
(* and the access of the deque in between.                                 *)
(*                                                                         *)
(* The deque is a sequence whose first element is begin(): enqueue inserts *)
(* at begin() and dequeue takes back(), so the oldest message is the last. *)
(***************************************************************************)
EXTENDS Naturals, Sequences, SequencesExt, FiniteSets

CONSTANTS Producers,    \* threads that call enqueue (workers of senders)
          Consumers,    \* threads that call dequeue (workers of receivers)
          MaxMessages,  \* bound: enqueue calls of one producer
          NoThread,     \* m_lock is free
          NullMsg       \* nullptr

ASSUME ThreadsAssumption ==
  /\ IsFiniteSet(Producers) /\ IsFiniteSet(Consumers)
  /\ Producers \cap Consumers = {}
  /\ NoThread \notin Producers \cup Consumers

ASSUME MessagesAssumption ==
  /\ MaxMessages \in Nat
  /\ NullMsg \notin Producers \X (1..MaxMessages)

Threads == Producers \cup Consumers
Messages == Producers \X (1..MaxMessages)

VARIABLES
  m_messages,  \* the deque, begin() first
  m_lock,      \* the thread that holds the mutex, or NoThread
  m_avail,     \* the value of the semaphore
  pc,          \* pc[t]: where thread t is in enqueue or dequeue
  made,        \* made[p]: messages p has put in the deque
  msg,         \* msg[c]: what the last dequeue of c took
  received     \* history: the messages taken, in order

vars == <<m_messages, m_lock, m_avail, pc, made, msg, received>>

Init ==
  /\ m_messages = << >>
  /\ m_lock = NoThread
  /\ m_avail = 0
  /\ pc = [t \in Threads |-> "idle"]
  /\ made = [p \in Producers |-> 0]
  /\ msg = [c \in Consumers |-> NullMsg]
  /\ received = << >>

Goto(t, label) == pc' = [pc EXCEPT ![t] = label]

Lock(t) == m_lock = NoThread /\ m_lock' = t
Unlock(t) == m_lock = t /\ m_lock' = NoThread
-----------------------------------------------------------------------------
(* void MessageQueue::enqueue(Message *msg) *)

(* mutant: the mutex is not taken *)
EnqueueLock_NoLock(p) ==
  /\ pc[p] = "idle"
  /\ made[p] < MaxMessages
  /\ Goto(p, "insert")
  /\ UNCHANGED <<m_messages, m_lock, m_avail, made, msg, received>>

EnqueueLock(p) ==
  /\ pc[p] = "idle"
  /\ made[p] < MaxMessages
  /\ Lock(p)
  /\ Goto(p, "insert")
  /\ UNCHANGED <<m_messages, m_avail, made, msg, received>>

(* mutant: insertion at end(), the end dequeue takes from *)
EnqueueInsert_AtEnd(p) ==
  /\ pc[p] = "insert"
  /\ m_messages' = Append(m_messages, <<p, made[p] + 1>>)
  /\ made' = [made EXCEPT ![p] = @ + 1]
  /\ Goto(p, "inserted")
  /\ UNCHANGED <<m_lock, m_avail, msg, received>>

EnqueueInsert(p) ==
  /\ pc[p] = "insert"
  /\ m_messages' = <<<<p, made[p] + 1>>>> \o m_messages
  /\ made' = [made EXCEPT ![p] = @ + 1]
  /\ Goto(p, "inserted")
  /\ UNCHANGED <<m_lock, m_avail, msg, received>>

EnqueueUnlock(p) ==
  /\ pc[p] = "inserted"
  /\ Unlock(p)
  /\ Goto(p, "post")
  /\ UNCHANGED <<m_messages, m_avail, made, msg, received>>

(* mutant: sem_post is forgotten *)
EnqueuePost_Forgotten(p) ==
  /\ pc[p] = "post"
  /\ Goto(p, "idle")
  /\ UNCHANGED <<m_messages, m_lock, m_avail, made, msg, received>>

EnqueuePost(p) ==
  /\ pc[p] = "post"
  /\ m_avail' = m_avail + 1
  /\ Goto(p, "idle")
  /\ UNCHANGED <<m_messages, m_lock, made, msg, received>>

Enqueue(p) ==
  EnqueueLock(p) \/ EnqueueInsert(p) \/ EnqueueUnlock(p) \/ EnqueuePost(p)
-----------------------------------------------------------------------------
(* Message *MessageQueue::dequeue().  The deadline is computed once, before *)
(* the loop, so a call that timed out retries at once, with the deadline in *)
(* the past, until the semaphore is positive.                               *)

DequeueCall(c) ==
  /\ pc[c] = "idle"
  /\ Goto(c, "wait")
  /\ UNCHANGED <<m_messages, m_lock, m_avail, made, msg, received>>

(* mutant: the semaphore is decremented whether it is positive or not *)
DequeueAcquire_NoWait(c) ==
  /\ pc[c] = "wait"
  /\ m_avail' = m_avail - 1
  /\ Goto(c, "acquired")
  /\ UNCHANGED <<m_messages, m_lock, made, msg, received>>

DequeueAcquire(c) ==
  /\ pc[c] = "wait"
  /\ m_avail > 0
  /\ m_avail' = m_avail - 1
  /\ Goto(c, "acquired")
  /\ UNCHANGED <<m_messages, m_lock, made, msg, received>>

(* mutant: a timeout goes on to take a message, without the loop *)
DequeueTimeout_FallsThrough(c) ==
  /\ pc[c] = "wait"
  /\ m_avail = 0
  /\ Goto(c, "acquired")
  /\ UNCHANGED <<m_messages, m_lock, m_avail, made, msg, received>>

(* sem_timedwait returned -1: the deadline has passed *)
DequeueTimeout(c) ==
  /\ pc[c] = "wait"
  /\ m_avail = 0
  /\ Goto(c, "timedout")
  /\ UNCHANGED <<m_messages, m_lock, m_avail, made, msg, received>>

DequeueRetry(c) ==
  /\ pc[c] = "timedout"
  /\ Goto(c, "wait")
  /\ UNCHANGED <<m_messages, m_lock, m_avail, made, msg, received>>

DequeueLock(c) ==
  /\ pc[c] = "acquired"
  /\ Lock(c)
  /\ Goto(c, "take")
  /\ UNCHANGED <<m_messages, m_avail, made, msg, received>>

DequeueTake(c) ==
  /\ pc[c] = "take"
  /\ IF m_messages = << >>
     THEN /\ msg' = [msg EXCEPT ![c] = NullMsg]
          /\ UNCHANGED <<m_messages, received>>
     ELSE /\ msg' = [msg EXCEPT ![c] = Last(m_messages)]
          /\ received' = Append(received, Last(m_messages))
          /\ m_messages' = Front(m_messages)
  /\ Goto(c, "taken")
  /\ UNCHANGED <<m_lock, m_avail, made>>

(* mutant: the sem_post commented out at message_queue.cpp:69 *)
DequeueUnlock_Posts(c) ==
  /\ pc[c] = "taken"
  /\ Unlock(c)
  /\ m_avail' = m_avail + 1
  /\ Goto(c, "idle")
  /\ UNCHANGED <<m_messages, made, msg, received>>

(* mutant: the mutex is not given back *)
DequeueUnlock_Forgotten(c) ==
  /\ pc[c] = "taken"
  /\ Goto(c, "idle")
  /\ UNCHANGED <<m_messages, m_lock, m_avail, made, msg, received>>

DequeueUnlock(c) ==
  /\ pc[c] = "taken"
  /\ Unlock(c)
  /\ Goto(c, "idle")
  /\ UNCHANGED <<m_messages, m_avail, made, msg, received>>

Dequeue(c) ==
  \/ DequeueCall(c) \/ DequeueAcquire(c) \/ DequeueTimeout(c)
  \/ DequeueRetry(c) \/ DequeueLock(c) \/ DequeueTake(c) \/ DequeueUnlock(c)

Next == (\E p \in Producers : Enqueue(p)) \/ (\E c \in Consumers : Dequeue(c))

(* Every thread keeps running: the kernel schedules each runnable thread,   *)
(* and with finitely many messages a waiter for the mutex is not overtaken  *)
(* for ever.                                                                *)
Fairness ==
  /\ \A p \in Producers : WF_vars(Enqueue(p))
  /\ \A c \in Consumers : WF_vars(Dequeue(c))

Safety == Init /\ [][Next]_vars
Spec == Safety /\ Fairness
-----------------------------------------------------------------------------
Labels == {"idle", "insert", "inserted", "post"}
            \cup {"wait", "timedout", "acquired", "take", "taken"}

(* Each variable has its type: the deque holds messages, and the semaphore  *)
(* is never negative.                                                       *)
TypeOK ==
  /\ m_messages \in Seq(Messages)
  /\ m_lock \in Threads \cup {NoThread}
  /\ m_avail \in Nat
  /\ pc \in [Threads -> Labels]
  /\ \A p \in Producers : pc[p] \in {"idle", "insert", "inserted", "post"}
  /\ \A c \in Consumers :
        pc[c] \in {"idle", "wait", "timedout", "acquired", "take", "taken"}
  /\ made \in [Producers -> 0..MaxMessages]
  /\ \A p \in Producers : pc[p] = "insert" => made[p] < MaxMessages
  /\ msg \in [Consumers -> Messages \cup {NullMsg}]
  /\ received \in Seq(Messages)

InCriticalSection(t) == pc[t] \in {"insert", "inserted", "take", "taken"}

(* message_queue.h:28, the lock "must be held while accessing queue": two   *)
(* threads are never between lock and unlock together, so no access of the  *)
(* deque races with another.                                                *)
MutualExclusion ==
  \A t, u \in Threads : InCriticalSection(t) /\ InCriticalSection(u) => t = u

Posting == {p \in Producers : pc[p] \in {"inserted", "post"}}
Taking == {c \in Consumers : pc[c] \in {"acquired", "take"}}

(* message_queue.h:24-26, the semaphore "keeps a count of how many messages *)
(* are currently in the queue": exactly, the deque also holds the messages  *)
(* inserted but not yet posted and those a consumer was granted but has not *)
(* yet taken.                                                               *)
SemaphoreCounts ==
  Len(m_messages) = m_avail + Cardinality(Posting) + Cardinality(Taking)

(* A dequeue that got past the semaphore finds a message: the nullptr       *)
(* branch of dequeue, and the retry of chat_with_receiver, never run.       *)
TakesAMessage ==
  \A c \in Consumers :
    /\ pc[c] \in {"acquired", "take"} => m_messages # << >>
    /\ pc[c] = "taken" => msg[c] # NullMsg

(* MessageQueue implements FifoQueue: what was accepted is what was taken   *)
(* followed by what is in the deque, oldest first.                          *)
Accepted == received \o Reverse(m_messages)

Fifo == INSTANCE FifoQueue WITH sent <- Accepted
ImplementsFifo == Fifo!Spec

(* Every message inserted is eventually returned to a consumer. *)
Delivered ==
  \A m \in Messages :
    (\E i \in DOMAIN m_messages : m_messages[i] = m)
      ~> (\E i \in DOMAIN received : received[i] = m)

(* message_queue.h:16, enqueue "will not block": whatever the other threads *)
(* do with the mutex, each producer gets through all its calls.             *)
EnqueueReturns ==
  \A p \in Producers : <>[](made[p] = MaxMessages /\ pc[p] = "idle")

(* message_queue.h:17, dequeue "blocks for at most a finite amount of time" *)
(* and message_queue.cpp:57-58, "wait up to 1 second": a call whose time is *)
(* up returns.                                                              *)
DequeueReturns ==
  \A c \in Consumers : (pc[c] = "timedout") ~> (pc[c] = "idle")
=============================================================================

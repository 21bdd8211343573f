------------------------- MODULE MessageQueueProofs -------------------------
(***************************************************************************)
(* Proofs about MessageQueue, for any finite sets of threads and any bound *)
(* on the messages.                                                        *)
(***************************************************************************)
EXTENDS MessageQueue, FiniteSetTheorems, SequenceTheorems, TLAPS

(* What the two ends of a non-empty sequence are, as dequeue uses them. *)
LEMMA LastAndFront ==
  ASSUME NEW S, NEW s \in Seq(S), s # << >>
  PROVE  /\ Len(s) \in Nat \ {0}
         /\ Last(s) = s[Len(s)] /\ Last(s) \in S
         /\ Front(s) \in Seq(S)
         /\ Len(Front(s)) = Len(s) - 1
         /\ \A i \in 1..(Len(s) - 1) : Front(s)[i] = s[i]
<1>1. Len(s) \in Nat \ {0}
  OBVIOUS
<1>2. Front(s) = SubSeq(s, 1, Len(s) - 1) /\ Last(s) = s[Len(s)]
  BY DEF Last, Front
<1>3. Last(s) \in S
  BY <1>1, <1>2
<1> DEFINE n == Len(s) - 1
<1>4. 1 \in Int /\ n \in Int /\ \A i \in 1..n : s[i] \in S
  BY <1>1
<1> HIDE DEF n
<1>5. /\ SubSeq(s, 1, n) \in Seq(S)
      /\ Len(SubSeq(s, 1, n)) = IF 1 <= n THEN n - 1 + 1 ELSE 0
      /\ \A i \in 1..(n - 1 + 1) : SubSeq(s, 1, n)[i] = s[1 + i - 1]
  BY <1>4, SubSeqProperties
<1>6. n \in Nat
  BY <1>1 DEF n
<1>7. Len(SubSeq(s, 1, n)) = n
  BY <1>5, <1>6
<1>8. ASSUME NEW i \in 1..n PROVE SubSeq(s, 1, n)[i] = s[i]
  <2>1. i \in 1..(n - 1 + 1) /\ 1 + i - 1 = i
    BY <1>6
  <2> QED BY <1>5, <2>1
<1> QED BY <1>1, <1>2, <1>3, <1>5, <1>7, <1>8 DEF n

(* Putting one element at either end of a sequence of S. *)
LEMMA OneMore ==
  ASSUME NEW S, NEW s \in Seq(S), NEW e \in S
  PROVE  /\ Append(s, e) \in Seq(S)
         /\ <<e>> \o s \in Seq(S)
         /\ Len(<<e>> \o s) = Len(s) + 1
OBVIOUS

(* Type correctness of the queue's state, from the initial state on. *)
THEOREM TypeCorrect == Safety => []TypeOK
<1>1. Init => TypeOK
  BY ThreadsAssumption, MessagesAssumption
  DEF Init, TypeOK, Threads, Labels
<1>2. TypeOK /\ [Next]_vars => TypeOK'
  <2> SUFFICES ASSUME TypeOK, [Next]_vars PROVE TypeOK'
    OBVIOUS
  <2> USE ThreadsAssumption, MessagesAssumption DEF TypeOK, Goto, Labels
  <2>1. ASSUME NEW p \in Producers, EnqueueLock(p) PROVE TypeOK'
    BY <2>1 DEF EnqueueLock, Lock, Threads
  <2>2. ASSUME NEW p \in Producers, EnqueueInsert(p) PROVE TypeOK'
    <3>1. <<p, made[p] + 1>> \in Messages
      BY <2>2 DEF Messages, EnqueueInsert
    <3>3. m_messages' \in Seq(Messages)
      BY <2>2, <3>1, OneMore DEF EnqueueInsert
    <3>4. /\ pc' \in [Threads -> Labels]
          /\ made' \in [Producers -> 0..MaxMessages]
      BY <2>2, <3>1 DEF EnqueueInsert, Threads
    <3>5. \A q \in Producers : pc'[q] \in {"idle", "insert", "inserted", "post"}
      BY <2>2 DEF EnqueueInsert, Threads
    <3>6. \A q \in Producers : pc'[q] = "insert" => made'[q] < MaxMessages
      BY <2>2 DEF EnqueueInsert, Threads
    <3> QED BY <2>2, <3>3, <3>4, <3>5, <3>6 DEF EnqueueInsert, Threads
  <2>3. ASSUME NEW p \in Producers, EnqueueUnlock(p) PROVE TypeOK'
    BY <2>3 DEF EnqueueUnlock, Unlock, Threads
  <2>4. ASSUME NEW p \in Producers, EnqueuePost(p) PROVE TypeOK'
    BY <2>4 DEF EnqueuePost, Threads
  <2>5. ASSUME NEW c \in Consumers, DequeueAcquire(c) PROVE TypeOK'
    BY <2>5 DEF DequeueAcquire, Threads
  <2>6. ASSUME NEW c \in Consumers, DequeueCall(c) \/ DequeueTimeout(c)
                                      \/ DequeueRetry(c)
        PROVE TypeOK'
    BY <2>6 DEF DequeueCall, DequeueTimeout, DequeueRetry, Threads
  <2>7. ASSUME NEW c \in Consumers, DequeueLock(c) \/ DequeueUnlock(c)
        PROVE TypeOK'
    BY <2>7 DEF DequeueLock, DequeueUnlock, Lock, Unlock, Threads
  <2>8. ASSUME NEW c \in Consumers, DequeueTake(c) PROVE TypeOK'
    <3>1. CASE m_messages = << >>
      BY <2>8, <3>1 DEF DequeueTake, Threads
    <3>2. CASE m_messages # << >>
      <4>1. Last(m_messages) \in Messages /\ Front(m_messages) \in Seq(Messages)
        BY <3>2, LastAndFront
      <4>2. received' \in Seq(Messages)
        <5>1. received' = Append(received, Last(m_messages))
          BY <2>8, <3>2 DEF DequeueTake
        <5> QED BY <4>1, <5>1, OneMore
      <4>3. msg' \in [Consumers -> Messages \cup {NullMsg}]
        BY <2>8, <3>2, <4>1 DEF DequeueTake
      <4> QED BY <2>8, <3>2, <4>1, <4>2, <4>3 DEF DequeueTake, Threads
    <3> QED BY <3>1, <3>2
  <2>9. CASE UNCHANGED vars
    BY <2>9 DEF vars
  <2> QED BY <2>1, <2>2, <2>3, <2>4, <2>5, <2>6, <2>7, <2>8, <2>9
          DEF Next, Enqueue, Dequeue
<1> QED BY <1>1, <1>2, PTL DEF Safety
-----------------------------------------------------------------------------
(* The strengthening under which the queue's safety properties are          *)
(* inductive: whoever is between lock and unlock holds the mutex, the count *)
(* of the semaphore is exact, what was taken is a message.                  *)
LockInv == \A t \in Threads : InCriticalSection(t) <=> m_lock = t

TakenInv == \A c \in Consumers : pc[c] = "taken" => msg[c] \in Messages

CountInv == LockInv /\ SemaphoreCounts /\ TakenInv

LEMMA PostingTakingFinite ==
  /\ IsFiniteSet(Posting) /\ Cardinality(Posting) \in Nat
  /\ IsFiniteSet(Taking) /\ Cardinality(Taking) \in Nat
<1>1. IsFiniteSet(Posting) /\ IsFiniteSet(Taking)
  BY ThreadsAssumption, FS_Subset DEF Posting, Taking
<1> QED BY <1>1, FS_CardinalityType

(* A consumer past the semaphore has a message waiting for it. *)
LEMMA PermitMeansMessage ==
  ASSUME TypeOK, SemaphoreCounts, NEW c \in Taking
  PROVE  m_messages # << >>
<1>1. Cardinality(Taking) # 0
  BY PostingTakingFinite, FS_EmptySet
<1>2. Len(m_messages) # 0
  BY <1>1, PostingTakingFinite DEF SemaphoreCounts, TypeOK
<1> QED BY <1>2

THEOREM CountInvariant == Safety => []CountInv
<1>1. Init => CountInv
  <2> SUFFICES ASSUME Init PROVE CountInv
    OBVIOUS
  <2>1. Posting = {} /\ Taking = {}
    BY DEF Init, Posting, Taking, Threads
  <2>2. SemaphoreCounts
    BY <2>1, FS_EmptySet DEF Init, SemaphoreCounts
  <2>3. LockInv /\ TakenInv
    BY ThreadsAssumption
    DEF Init, LockInv, TakenInv, InCriticalSection, Threads
  <2> QED BY <2>2, <2>3 DEF CountInv
<1>2. TypeOK /\ TypeOK' /\ CountInv /\ [Next]_vars => CountInv'
  <2> SUFFICES ASSUME TypeOK, TypeOK', CountInv, [Next]_vars PROVE CountInv'
    OBVIOUS
  <2> USE ThreadsAssumption DEF CountInv, TypeOK, Goto
  <2> USE PostingTakingFinite
  <2>l. ASSUME NEW t \in Threads, NEW label \in Labels,
               Goto(t, label), label \notin {"inserted", "post"}
                                 <=> pc[t] \notin {"inserted", "post"},
               label \notin {"acquired", "take"}
                                 <=> pc[t] \notin {"acquired", "take"}
        PROVE  Posting' = Posting /\ Taking' = Taking
    BY <2>l DEF Posting, Taking, Threads
  <2>1. ASSUME NEW p \in Producers, EnqueueLock(p) PROVE CountInv'
    <3>1. Posting' = Posting /\ Taking' = Taking
      BY <2>1, <2>l DEF EnqueueLock, Threads, Labels
    <3>2. SemaphoreCounts'
      BY <2>1, <3>1 DEF EnqueueLock, SemaphoreCounts
    <3>3. LockInv' /\ TakenInv'
      BY <2>1 DEF EnqueueLock, Lock, LockInv, TakenInv, InCriticalSection, Threads
    <3> QED BY <3>2, <3>3
  <2>2. ASSUME NEW p \in Producers, EnqueueInsert(p) PROVE CountInv'
    <3>1. Posting' = Posting \cup {p} /\ p \notin Posting /\ Taking' = Taking
      BY <2>2 DEF EnqueueInsert, Posting, Taking, Threads
    <3>2. Cardinality(Posting') = Cardinality(Posting) + 1
      BY <3>1, FS_AddElement
    <3>3. Len(m_messages') = Len(m_messages) + 1
      BY <2>2, OneMore DEF EnqueueInsert
    <3>4. SemaphoreCounts'
      BY <2>2, <3>1, <3>2, <3>3 DEF EnqueueInsert, SemaphoreCounts
    <3>5. LockInv' /\ TakenInv'
      BY <2>2 DEF EnqueueInsert, LockInv, TakenInv, InCriticalSection, Threads
    <3> QED BY <3>4, <3>5
  <2>3. ASSUME NEW p \in Producers, EnqueueUnlock(p) PROVE CountInv'
    <3>1. Posting' = Posting /\ Taking' = Taking
      BY <2>3, <2>l DEF EnqueueUnlock, Threads, Labels
    <3>2. SemaphoreCounts'
      BY <2>3, <3>1 DEF EnqueueUnlock, SemaphoreCounts
    <3>3. LockInv' /\ TakenInv'
      BY <2>3 DEF EnqueueUnlock, Unlock, LockInv, TakenInv, InCriticalSection, Threads
    <3> QED BY <3>2, <3>3
  <2>4. ASSUME NEW p \in Producers, EnqueuePost(p) PROVE CountInv'
    <3>1. Posting' = Posting \ {p} /\ p \in Posting /\ Taking' = Taking
      BY <2>4 DEF EnqueuePost, Posting, Taking, Threads
    <3>2. Cardinality(Posting') = Cardinality(Posting) - 1
      BY <3>1, FS_RemoveElement
    <3>3. SemaphoreCounts'
      BY <2>4, <3>1, <3>2 DEF EnqueuePost, SemaphoreCounts
    <3>4. LockInv' /\ TakenInv'
      BY <2>4 DEF EnqueuePost, LockInv, TakenInv, InCriticalSection, Threads
    <3> QED BY <3>3, <3>4
  <2>5. ASSUME NEW c \in Consumers, DequeueAcquire(c) PROVE CountInv'
    <3>1. Taking' = Taking \cup {c} /\ c \notin Taking /\ Posting' = Posting
      BY <2>5 DEF DequeueAcquire, Posting, Taking, Threads
    <3>2. Cardinality(Taking') = Cardinality(Taking) + 1
      BY <3>1, FS_AddElement
    <3>3. SemaphoreCounts'
      BY <2>5, <3>1, <3>2 DEF DequeueAcquire, SemaphoreCounts
    <3>4. LockInv' /\ TakenInv'
      BY <2>5 DEF DequeueAcquire, LockInv, TakenInv, InCriticalSection, Threads
    <3> QED BY <3>3, <3>4
  <2>6. ASSUME NEW c \in Consumers, DequeueCall(c) \/ DequeueTimeout(c)
                                      \/ DequeueRetry(c)
        PROVE CountInv'
    <3>1. Posting' = Posting /\ Taking' = Taking
      BY <2>6 DEF DequeueCall, DequeueTimeout, DequeueRetry, Posting, Taking, Threads
    <3>2. SemaphoreCounts'
      BY <2>6, <3>1 DEF DequeueCall, DequeueTimeout, DequeueRetry, SemaphoreCounts
    <3>3. LockInv' /\ TakenInv'
      BY <2>6
      DEF DequeueCall, DequeueTimeout, DequeueRetry, LockInv, TakenInv,
          InCriticalSection, Threads
    <3> QED BY <3>2, <3>3
  <2>7. ASSUME NEW c \in Consumers, DequeueLock(c) \/ DequeueUnlock(c)
        PROVE CountInv'
    <3>1. Posting' = Posting /\ Taking' = Taking
      BY <2>7 DEF DequeueLock, DequeueUnlock, Posting, Taking, Threads
    <3>2. SemaphoreCounts'
      BY <2>7, <3>1 DEF DequeueLock, DequeueUnlock, SemaphoreCounts
    <3>3. LockInv' /\ TakenInv'
      BY <2>7
      DEF DequeueLock, DequeueUnlock, Lock, Unlock, LockInv, TakenInv,
          InCriticalSection, Threads
    <3> QED BY <3>2, <3>3
  <2>8. ASSUME NEW c \in Consumers, DequeueTake(c) PROVE CountInv'
    <3>1. Taking' = Taking \ {c} /\ c \in Taking /\ Posting' = Posting
      BY <2>8 DEF DequeueTake, Posting, Taking, Threads
    <3>2. Cardinality(Taking') = Cardinality(Taking) - 1
      BY <3>1, FS_RemoveElement
    <3>3. m_messages # << >>
      BY <3>1, PermitMeansMessage
    <3>4. Len(m_messages') = Len(m_messages) - 1 /\ Last(m_messages) \in Messages
      BY <2>8, <3>3, LastAndFront DEF DequeueTake
    <3>5. SemaphoreCounts'
      BY <2>8, <3>1, <3>2, <3>4 DEF DequeueTake, SemaphoreCounts
    <3>6. LockInv'
      BY <2>8 DEF DequeueTake, LockInv, InCriticalSection, Threads
    <3>7. TakenInv'
      BY <2>8, <3>3, <3>4 DEF DequeueTake, TakenInv, Threads
    <3> QED BY <3>5, <3>6, <3>7
  <2>9. CASE UNCHANGED vars
    <3>1. Posting' = Posting /\ Taking' = Taking
      BY <2>9 DEF vars, Posting, Taking
    <3> QED BY <2>9, <3>1
            DEF vars, LockInv, TakenInv, SemaphoreCounts, InCriticalSection
  <2> QED BY <2>1, <2>2, <2>3, <2>4, <2>5, <2>6, <2>7, <2>8, <2>9
          DEF Next, Enqueue, Dequeue
<1> QED BY <1>1, <1>2, TypeCorrect, PTL DEF Safety

(* No two threads are ever inside the mutex together. *)
THEOREM LockExcludes == Safety => []MutualExclusion
<1>1. CountInv => MutualExclusion
  BY DEF CountInv, LockInv, MutualExclusion
<1> QED BY <1>1, CountInvariant, PTL

(* The semaphore counts the messages exactly, given those on their way in  *)
(* and out.                                                                *)
THEOREM SemaphoreCorrect == Safety => []SemaphoreCounts
<1>1. CountInv => SemaphoreCounts
  BY DEF CountInv
<1> QED BY <1>1, CountInvariant, PTL

(* dequeue never finds the deque empty, so it never returns nullptr. *)
THEOREM DequeueFindsMessage == Safety => []TakesAMessage
<1>1. TypeOK /\ CountInv => TakesAMessage
  <2> SUFFICES ASSUME TypeOK, CountInv, NEW c \in Consumers
      PROVE /\ pc[c] \in {"acquired", "take"} => m_messages # << >>
            /\ pc[c] = "taken" => msg[c] # NullMsg
    BY DEF TakesAMessage
  <2>1. pc[c] \in {"acquired", "take"} => c \in Taking
    BY DEF Taking
  <2>2. pc[c] \in {"acquired", "take"} => m_messages # << >>
    BY <2>1, PermitMeansMessage DEF CountInv
  <2>3. pc[c] = "taken" => msg[c] # NullMsg
    BY MessagesAssumption DEF CountInv, TakenInv, Messages
  <2> QED BY <2>2, <2>3
<1> QED BY <1>1, CountInvariant, TypeCorrect, PTL
-----------------------------------------------------------------------------
(* How the accepted messages change when one enters the deque at begin()    *)
(* or leaves it at back().                                                  *)
LEMMA ReverseType ==
  ASSUME NEW S, NEW q \in Seq(S)
  PROVE  Reverse(q) \in Seq(S) /\ Len(Reverse(q)) = Len(q)
BY DEF Reverse

LEMMA ReverseInsert ==
  ASSUME NEW S, NEW q \in Seq(S), NEW m \in S
  PROVE  Reverse(<<m>> \o q) = Append(Reverse(q), m)
<1>1. <<m>> \o q \in Seq(S) /\ Len(<<m>> \o q) = Len(q) + 1
  BY OneMore
<1>2. /\ Reverse(<<m>> \o q) \in Seq(S)
      /\ Len(Reverse(<<m>> \o q)) = Len(q) + 1
  BY <1>1, ReverseType
<1>3. Append(Reverse(q), m) \in Seq(S) /\ Len(Append(Reverse(q), m)) = Len(q) + 1
  BY ReverseType
<1>4. ASSUME NEW i \in 1..(Len(q) + 1)
      PROVE  Reverse(<<m>> \o q)[i] = Append(Reverse(q), m)[i]
  <2>1. Reverse(<<m>> \o q)[i] = (<<m>> \o q)[Len(q) + 1 - i + 1]
    BY <1>1 DEF Reverse
  <2>2. CASE i = Len(q) + 1
    BY <2>1, <2>2, ReverseType
  <2>3. CASE i \in 1..Len(q)
    <3>1. Reverse(q)[i] = q[Len(q) - i + 1]
      BY <2>3 DEF Reverse
    <3>2. Append(Reverse(q), m)[i] = Reverse(q)[i]
      BY <2>3, ReverseType
    <3>3. (<<m>> \o q)[Len(q) + 1 - i + 1] = q[Len(q) - i + 1]
      BY <2>3
    <3> QED BY <2>1, <3>1, <3>2, <3>3
  <2>4. Len(q) \in Nat /\ i \in 1..(Len(q) + 1)
    BY <1>4
  <2>5. i = Len(q) + 1 \/ i \in 1..Len(q)
    BY <2>4
  <2> QED BY <2>2, <2>3, <2>5
<1> DEFINE s == Reverse(<<m>> \o q)
           t == Append(Reverse(q), m)
           n == Len(q) + 1
<1>5. s \in Seq(S) /\ t \in Seq(S) /\ Len(s) = n /\ Len(t) = n /\ \A i \in 1..n : s[i] = t[i]
  BY <1>2, <1>3, <1>4
<1> HIDE DEF s, t, n
<1>6. s = t
  BY <1>5
<1> QED BY <1>6 DEF s, t

LEMMA AcceptedInsert ==
  ASSUME NEW S, NEW r \in Seq(S), NEW q \in Seq(S), NEW m \in S
  PROVE  r \o Reverse(<<m>> \o q) = Append(r \o Reverse(q), m)
<1>1. r \o Append(Reverse(q), m) = Append(r \o Reverse(q), m)
  BY ReverseType
<1> QED BY <1>1, ReverseInsert

LEMMA AcceptedTake ==
  ASSUME NEW S, NEW r \in Seq(S), NEW q \in Seq(S), q # << >>
  PROVE  /\ Append(r, Last(q)) \o Reverse(Front(q)) = r \o Reverse(q)
         /\ (r \o Reverse(q))[Len(r) + 1] = Last(q)
         /\ Len(r) < Len(r \o Reverse(q))
<1>1. /\ Len(q) \in Nat \ {0} /\ Last(q) = q[Len(q)] /\ Last(q) \in S
      /\ Front(q) \in Seq(S) /\ Len(Front(q)) = Len(q) - 1
      /\ \A i \in 1..(Len(q) - 1) : Front(q)[i] = q[i]
  BY LastAndFront
<1>2. /\ Reverse(q) \in Seq(S) /\ Len(Reverse(q)) = Len(q)
      /\ Reverse(Front(q)) \in Seq(S)
      /\ Len(Reverse(Front(q))) = Len(q) - 1
  BY <1>1, ReverseType
<1>3. Reverse(q)[1] = Last(q)
  BY <1>1 DEF Reverse
<1>4. ASSUME NEW i \in 1..(Len(q) - 1)
      PROVE  Reverse(Front(q))[i] = Reverse(q)[i + 1]
  <2>1. Reverse(Front(q))[i] = Front(q)[Len(q) - 1 - i + 1]
    BY <1>1 DEF Reverse
  <2>2. Len(q) - i \in 1..(Len(q) - 1) /\ Len(q) - 1 - i + 1 = Len(q) - i
    BY <1>1
  <2>3. Reverse(q)[i + 1] = q[Len(q) - (i + 1) + 1]
    BY <1>1 DEF Reverse
  <2>4. Len(q) - (i + 1) + 1 = Len(q) - i
    BY <1>1
  <2> QED BY <1>1, <2>1, <2>2, <2>3, <2>4
<1> DEFINE a == Append(r, Last(q)) \o Reverse(Front(q))
           b == r \o Reverse(q)
<1>5. a \in Seq(S) /\ Len(a) = Len(r) + Len(q)
  <2>1. /\ Append(r, Last(q)) \in Seq(S)
        /\ Len(Append(r, Last(q))) = Len(r) + 1
        /\ Len(r) \in Nat
    BY <1>1
  <2>2. /\ a \in Seq(S)
        /\ Len(a) = Len(Append(r, Last(q))) + Len(Reverse(Front(q)))
    BY <1>2, <2>1, ConcatProperties
  <2> QED BY <1>1, <1>2, <2>1, <2>2
<1>6. b \in Seq(S) /\ Len(b) = Len(r) + Len(q)
  BY <1>2
<1>7. ASSUME NEW i \in 1..(Len(r) + Len(q)) PROVE a[i] = b[i]
  <2>1. CASE i \in 1..Len(r)
    BY <1>1, <1>2, <2>1
  <2>2. CASE i = Len(r) + 1
    BY <1>1, <1>2, <1>3, <2>2
  <2>3. CASE i \in (Len(r) + 2)..(Len(r) + Len(q))
    <3>1. a[i] = Reverse(Front(q))[i - (Len(r) + 1)]
      BY <1>1, <1>2, <2>3
    <3>2. b[i] = Reverse(q)[i - Len(r)]
      BY <1>1, <1>2, <2>3
    <3>3. /\ i - (Len(r) + 1) \in 1..(Len(q) - 1)
          /\ (i - (Len(r) + 1)) + 1 = i - Len(r)
      BY <1>1, <2>3
    <3> QED BY <1>4, <3>1, <3>2, <3>3
  <2>4. Len(r) \in Nat /\ Len(q) \in Nat /\ i \in 1..(Len(r) + Len(q))
    BY <1>7
  <2>5. i \in 1..Len(r) \/ i = Len(r) + 1 \/ i \in (Len(r) + 2)..(Len(r) + Len(q))
    BY <2>4
  <2> QED BY <2>1, <2>2, <2>3, <2>5
<1>8. a = b
  <2> HIDE DEF a, b
  <2> QED BY <1>5, <1>6, <1>7, SeqEqual
<1>9. b[Len(r) + 1] = Last(q) /\ Len(r) < Len(b)
  BY <1>1, <1>2, <1>3
<1> QED BY <1>8, <1>9
-----------------------------------------------------------------------------
(* The messages accepted so far are, of each producer, the first made[p].   *)
AcceptedInv ==
  \A p \in Producers, k \in 1..MaxMessages :
    <<p, k>> \in Range(Accepted) <=> k <= made[p]

LEMMA RangeOfAppend ==
  ASSUME NEW S, NEW s \in Seq(S), NEW e \in S
  PROVE  Range(Append(s, e)) = Range(s) \cup {e}
<1>1. /\ Len(s) \in Nat /\ DOMAIN s = 1..Len(s)
      /\ DOMAIN Append(s, e) = 1..(Len(s) + 1)
      /\ Append(s, e)[Len(s) + 1] = e
      /\ \A i \in 1..Len(s) : Append(s, e)[i] = s[i]
  OBVIOUS
<1>2. 1..(Len(s) + 1) = 1..Len(s) \cup {Len(s) + 1}
  BY <1>1
<1> QED BY <1>1, <1>2 DEF Range

LEMMA AcceptedType == TypeOK => Accepted \in Seq(Messages)
BY ReverseType, ConcatProperties DEF TypeOK, Accepted

(* What each step does to the accepted messages. *)
LEMMA AcceptedSteps ==
  ASSUME TypeOK, SemaphoreCounts, [Next]_vars
  PROVE  \/ \E p \in Producers :
              /\ EnqueueInsert(p)
              /\ <<p, made[p] + 1>> \in Messages
              /\ Accepted' = Append(Accepted, <<p, made[p] + 1>>)
         \/ /\ \E c \in Consumers : DequeueTake(c)
            /\ Accepted' = Accepted
            /\ Len(received) < Len(Accepted)
            /\ received' = Append(received, Accepted[Len(received) + 1])
            /\ made' = made
         \/ UNCHANGED <<m_messages, received, made>> /\ Accepted' = Accepted
<1>1. ASSUME NEW p \in Producers, EnqueueInsert(p)
      PROVE  /\ <<p, made[p] + 1>> \in Messages
             /\ Accepted' = Append(Accepted, <<p, made[p] + 1>>)
  <2>1. <<p, made[p] + 1>> \in Messages
    BY <1>1, MessagesAssumption DEF EnqueueInsert, TypeOK, Messages
  <2>2. m_messages' = <<<<p, made[p] + 1>>>> \o m_messages /\ received' = received
    BY <1>1 DEF EnqueueInsert
  <2>3. received \in Seq(Messages) /\ m_messages \in Seq(Messages)
    BY DEF TypeOK
  <2> DEFINE m == <<p, made[p] + 1>>
  <2> HIDE DEF m
  <2>4. m \in Messages
    BY <2>1 DEF m
  <2>5. received \o Reverse(<<m>> \o m_messages)
          = Append(received \o Reverse(m_messages), m)
    BY <2>3, <2>4, AcceptedInsert
  <2> QED BY <2>1, <2>2, <2>5 DEF Accepted, m
<1>2. ASSUME NEW c \in Consumers, DequeueTake(c)
      PROVE  /\ Accepted' = Accepted
             /\ Len(received) < Len(Accepted)
             /\ received' = Append(received, Accepted[Len(received) + 1])
             /\ made' = made
  <2>1. m_messages # << >>
    BY <1>2, PermitMeansMessage DEF DequeueTake, Taking
  <2>2. /\ received' = Append(received, Last(m_messages))
        /\ m_messages' = Front(m_messages)
        /\ made' = made
    BY <1>2, <2>1 DEF DequeueTake
  <2>3. received \in Seq(Messages) /\ m_messages \in Seq(Messages)
    BY DEF TypeOK
  <2> QED BY <2>1, <2>2, <2>3, AcceptedTake DEF Accepted
<1>3. ASSUME UNCHANGED <<m_messages, received, made>>
      PROVE  Accepted' = Accepted
  BY <1>3 DEF Accepted
<1>4. \/ \E p \in Producers : EnqueueInsert(p)
      \/ \E c \in Consumers : DequeueTake(c)
      \/ UNCHANGED <<m_messages, received, made>>
  BY DEF Next, vars, Enqueue, EnqueueLock, EnqueueUnlock, EnqueuePost,
         Dequeue, DequeueCall, DequeueAcquire, DequeueTimeout, DequeueRetry,
         DequeueLock, DequeueUnlock
<1> QED BY <1>1, <1>2, <1>3, <1>4

THEOREM AcceptedInvariant == Safety => []AcceptedInv
<1>1. Init => AcceptedInv
  <2> SUFFICES ASSUME Init PROVE AcceptedInv
    OBVIOUS
  <2>1. Accepted = << >>
    BY DEF Init, Accepted, Reverse
  <2>2. Range(Accepted) = {}
    BY <2>1 DEF Range
  <2> QED BY <2>2, MessagesAssumption DEF Init, AcceptedInv
<1>2. TypeOK /\ SemaphoreCounts /\ AcceptedInv /\ [Next]_vars => AcceptedInv'
  <2> SUFFICES ASSUME TypeOK, SemaphoreCounts, AcceptedInv, [Next]_vars
               PROVE  AcceptedInv'
    OBVIOUS
  <2>1. ASSUME NEW p \in Producers, EnqueueInsert(p),
               <<p, made[p] + 1>> \in Messages,
               Accepted' = Append(Accepted, <<p, made[p] + 1>>)
        PROVE  AcceptedInv'
    <3>1. Range(Accepted)' = Range(Accepted) \cup {<<p, made[p] + 1>>}
      BY <2>1, AcceptedType, RangeOfAppend DEF Range
    <3>2. made' = [made EXCEPT ![p] = @ + 1] /\ made \in [Producers -> 0..MaxMessages]
      BY <2>1 DEF EnqueueInsert, TypeOK
    <3> SUFFICES ASSUME NEW q \in Producers, NEW k \in 1..MaxMessages
                 PROVE  <<q, k>> \in Range(Accepted)' <=> k <= made'[q]
      BY DEF AcceptedInv
    <3>3. <<q, k>> \in Range(Accepted) <=> k <= made[q]
      BY DEF AcceptedInv
    <3>4. CASE q = p
      <4>1. made'[q] = made[p] + 1 /\ made[p] \in Nat /\ k \in Nat
        BY <3>2, <3>4, MessagesAssumption
      <4>2. <<q, k>> \in Range(Accepted)' <=> k <= made[p] \/ k = made[p] + 1
        BY <3>1, <3>3, <3>4
      <4> QED BY <4>1, <4>2
    <3>5. CASE q # p
      <4>1. made'[q] = made[q]
        BY <3>2, <3>5
      <4> QED BY <3>1, <3>3, <3>5, <4>1
    <3> QED BY <3>4, <3>5
  <2>2. CASE Accepted' = Accepted /\ made' = made
    BY <2>2 DEF AcceptedInv, Range
  <2> QED BY <2>1, <2>2, AcceptedSteps
<1>3. CountInv => SemaphoreCounts
  BY DEF CountInv
<1> QED BY <1>1, <1>2, <1>3, TypeCorrect, CountInvariant, PTL DEF Safety

(* MessageQueue implements the abstract queue: enqueue is Put when it       *)
(* inserts, dequeue is Get when it takes, every other step is a stutter.    *)
THEOREM QueueImplementsFifo == Safety => ImplementsFifo
<1>1. Init => Fifo!Init
  BY DEF Init, Fifo!Init, Accepted, Reverse
<1>2. TypeOK /\ SemaphoreCounts /\ AcceptedInv /\ [Next]_vars
        => [Fifo!Next]_(Fifo!vars)
  <2> SUFFICES ASSUME TypeOK, SemaphoreCounts, AcceptedInv, [Next]_vars
               PROVE  [Fifo!Next]_(Fifo!vars)
    OBVIOUS
  <2>1. ASSUME NEW p \in Producers, EnqueueInsert(p),
               <<p, made[p] + 1>> \in Messages,
               Accepted' = Append(Accepted, <<p, made[p] + 1>>)
        PROVE  \E m \in Fifo!Messages : Fifo!Put(m)
    <3> DEFINE k == made[p] + 1
    <3>1. k \in 1..MaxMessages /\ made[p] \in Nat
      BY <2>1 DEF Messages, TypeOK
    <3>2. <<p, k>> \notin Range(Accepted)
      BY <3>1 DEF AcceptedInv
    <3>3. k > 1 => <<p, k - 1>> \in Range(Accepted)
      <4>1. k > 1 => k - 1 \in 1..MaxMessages /\ k - 1 <= made[p]
        BY <3>1, MessagesAssumption
      <4> QED BY <4>1 DEF AcceptedInv
    <3>4. received' = received
      BY <2>1 DEF EnqueueInsert
    <3>5. Fifo!Put(<<p, k>>)
      BY <2>1, <3>2, <3>3, <3>4 DEF Fifo!Put, Fifo!Range, Range
    <3> QED BY <2>1, <3>5 DEF Fifo!Messages, Messages
  <2>2. ASSUME Accepted' = Accepted,
               Len(received) < Len(Accepted),
               received' = Append(received, Accepted[Len(received) + 1])
        PROVE  Fifo!Get
    BY <2>2 DEF Fifo!Get
  <2>3. CASE received' = received /\ Accepted' = Accepted
    BY <2>3 DEF Fifo!vars
  <2> QED BY <2>1, <2>2, <2>3, AcceptedSteps DEF Fifo!Next
<1>3. CountInv => SemaphoreCounts
  BY DEF CountInv
<1> QED BY <1>1, <1>2, <1>3, TypeCorrect, CountInvariant, AcceptedInvariant, PTL
        DEF Safety, ImplementsFifo, Fifo!Spec
=============================================================================

------------------------------ MODULE RioProofs ------------------------------
(***************************************************************************)
(* Proofs about Rio, for any messages, limit of a line and size of the     *)
(* buffer: the types, that each character read is in one place, and that   *)
(* the lines are those module Connection cuts the text into.               *)
(***************************************************************************)
EXTENDS Rio, FiniteSetTheorems, SequenceTheorems, TLAPS

(* the messages are in front of each other *)
Increasing(s) == \A i, j \in DOMAIN s : i < j => s[i] < s[j]

WriterType ==
  /\ messages \in Seq(1..MaxLength) /\ Increasing(messages)
  /\ written \in Chars /\ closed \in BOOLEAN
BufferType ==
  /\ fetched \in Nat /\ rio_buf \in [1..RIO_BUFSIZE -> Chars]
  /\ rio_bufptr \in 1..(RIO_BUFSIZE + 1) /\ rio_cnt \in -1..RIO_BUFSIZE
ReaderType ==
  /\ usrbuf \in Seq(Chars) /\ text \in Seq(Chars) /\ ends \in Seq(Chars)
  /\ pc \in {"read", "eof", "failed"}

TypeInv == messages \in MessageLists /\ WriterType /\ BufferType /\ ReaderType

Buffered == IF rio_cnt > 0 THEN rio_cnt ELSE 0

(* rio_cnt characters are left behind rio_bufptr *)
Room == rio_cnt > 0 => rio_bufptr + rio_cnt <= RIO_BUFSIZE + 1

(* What was read from the stream is in order in the text, the line and the  *)
(* buffer: a character is its position.                                     *)
Placed ==
  /\ fetched <= written
  /\ Len(text) + Len(usrbuf) + Buffered = fetched
  /\ \A i \in 1..Len(text) : text[i] = i
  /\ \A i \in 1..Len(usrbuf) : usrbuf[i] = Len(text) + i
  /\ \A i \in 1..Buffered : rio_buf[rio_bufptr + i - 1] = Len(text) + Len(usrbuf) + i

(* The line being read is one that rio_readlineb goes on with. *)
Unfinished ==
  /\ Len(usrbuf) < MAX_LEN - 1
  /\ \A i \in 1..Len(usrbuf) : usrbuf[i] \notin Newlines

(* where a line starts, when e says where lines end *)
Start(e, i) == IF i = 1 THEN 0 ELSE e[i - 1]

(* each line starts where the one before it ended *)
Divided ==
  /\ LineStart(Len(ends) + 1) = Len(text)
  /\ \A i \in 1..Len(ends) : ends[i] - LineStart(i) \in 0..(MAX_LEN - 1)

(* what is in the stream is a part of some message, and all before it *)
InMessage ==
  written > 0 => \E i \in 1..Len(messages) : Begin(i) < written /\ written <= messages[i]

Inv == TypeInv /\ Room /\ Placed /\ Unfinished /\ Divided /\ InMessage
-----------------------------------------------------------------------------
LEMMA SizesAre ==
  /\ RIO_BUFSIZE \in Nat /\ RIO_BUFSIZE >= 1 /\ MAX_LEN \in Nat /\ MAX_LEN >= 2
  /\ MaxLength \in Nat
BY BuffersAssumption, MessagesAssumption

LEMMA TypeIs ==
  ASSUME TypeInv
  PROVE  /\ Len(text) \in Nat /\ Len(usrbuf) \in Nat /\ Len(ends) \in Nat
         /\ Len(messages) \in Nat /\ DOMAIN messages = 1..Len(messages)
         /\ written \in Nat /\ fetched \in Nat /\ rio_cnt \in Int /\ rio_bufptr \in Nat
         /\ Buffered \in Nat
<1>1. rio_cnt \in Int /\ rio_bufptr \in Nat
  BY SizesAre DEF TypeInv, BufferType
<1>2. Buffered \in Nat
  BY <1>1 DEF Buffered
<1>3. written \in Nat /\ fetched \in Nat
  BY SizesAre DEF TypeInv, BufferType, WriterType, Chars
<1>4. /\ Len(text) \in Nat /\ Len(usrbuf) \in Nat /\ Len(ends) \in Nat
      /\ Len(messages) \in Nat /\ DOMAIN messages = 1..Len(messages)
  BY DEF TypeInv, ReaderType, WriterType
<1> QED BY <1>1, <1>2, <1>3, <1>4

LEMMA MessagesAre ==
  ASSUME TypeInv, NEW i \in 1..Len(messages)
  PROVE  /\ i \in Nat /\ messages[i] \in Nat /\ messages[i] >= 1 /\ messages[i] <= MaxLength
         /\ Begin(i) \in Nat /\ Begin(i) < messages[i]
<1>1. /\ messages \in Seq(1..MaxLength) /\ Increasing(messages)
      /\ DOMAIN messages = 1..Len(messages) /\ Len(messages) \in Nat
  BY TypeIs DEF TypeInv, WriterType
<1>2. \A j \in 1..Len(messages) : messages[j] \in 1..MaxLength
  BY <1>1, ElementOfSeq
<1>3. \A j \in 1..Len(messages) :
        messages[j] \in Nat /\ messages[j] >= 1 /\ messages[j] <= MaxLength
  BY <1>2, SizesAre
<1>4. CASE i = 1
  BY <1>3, <1>4 DEF Begin
<1>5. CASE i # 1
  <2>1. i - 1 \in 1..Len(messages) /\ i - 1 < i
    BY <1>1, <1>5
  <2>2. messages[i - 1] < messages[i]
    BY <1>1, <2>1 DEF Increasing
  <2> QED BY <1>3, <1>5, <2>1, <2>2 DEF Begin
<1> QED BY <1>4, <1>5

LEMMA InvInit == Init => Inv
<1> SUFFICES ASSUME Init PROVE Inv
  OBVIOUS
<1>1. /\ messages \in MessageLists /\ written = 0 /\ closed = FALSE /\ fetched = 0
      /\ rio_buf = [i \in 1..RIO_BUFSIZE |-> 0] /\ rio_bufptr = 1 /\ rio_cnt = 0
      /\ usrbuf = << >> /\ text = << >> /\ ends = << >> /\ pc = "read"
  BY DEF Init
<1>2. 0 \in Chars
  BY SizesAre DEF Chars
<1>3. WriterType
  BY <1>1, <1>2, MessagesAssumption DEF WriterType, Increasing
<1>4. BufferType
  BY <1>1, <1>2, SizesAre DEF BufferType
<1>5. ReaderType
  BY <1>1 DEF ReaderType
<1>6. Buffered = 0 /\ Len(text) = 0 /\ Len(usrbuf) = 0 /\ Len(ends) = 0
  BY <1>1 DEF Buffered
<1>7. Room /\ Placed
  BY <1>1, <1>6 DEF Room, Placed
<1>8. Unfinished
  BY <1>6, SizesAre DEF Unfinished
<1>9. Divided
  BY <1>6 DEF Divided, LineStart
<1>10. InMessage
  BY <1>1 DEF InMessage
<1> QED BY <1>1, <1>3, <1>4, <1>5, <1>7, <1>8, <1>9, <1>10 DEF Inv, TypeInv

LEMMA InvWriter ==
  ASSUME Inv, rio_writen \/ Closes
  PROVE  Inv'
<1>1. UNCHANGED <<messages, fetched, rio_buf, rio_bufptr, rio_cnt, usrbuf, text, ends, pc>>
  BY DEF rio_writen, Closes, rio
<1>2. /\ written' \in Chars /\ closed' \in BOOLEAN /\ written' >= written /\ InMessage'
  <2>1. CASE Closes
    BY <2>1, TypeIs DEF Closes, Inv, TypeInv, WriterType, InMessage, Begin
  <2>2. CASE rio_writen
    <3>1. PICK i \in DOMAIN messages :
            /\ Begin(i) <= written /\ written < messages[i]
            /\ written' \in (written + 1)..messages[i]
      BY <2>2 DEF rio_writen
    <3>2. i \in 1..Len(messages) /\ written \in Nat
      BY <3>1, TypeIs DEF Inv
    <3>3. messages[i] \in Nat /\ messages[i] <= MaxLength
      BY <3>2, MessagesAre DEF Inv
    <3>4. Begin(i) \in Nat
      BY <3>2, MessagesAre DEF Inv
    <3>5. /\ written' \in Nat /\ written' > written /\ written' <= messages[i]
          /\ Begin(i) < written' /\ written' <= MaxLength
      BY <3>1, <3>2, <3>3, <3>4, SizesAre
    <3>6. Begin(i)' = Begin(i)
      BY <1>1 DEF Begin
    <3>7. InMessage'
      BY <1>1, <3>2, <3>5, <3>6 DEF InMessage
    <3>8. written' \in Chars
      BY <3>5, SizesAre DEF Chars
    <3> QED BY <2>2, <3>2, <3>5, <3>7, <3>8 DEF rio_writen, Inv, TypeInv, WriterType
  <2> QED BY <2>1, <2>2
<1>3. TypeInv'
  BY <1>1, <1>2 DEF Inv, TypeInv, WriterType, BufferType, ReaderType
<1>4. Placed'
  <2>1. fetched <= written'
    <3>1. fetched \in Nat /\ written \in Nat /\ fetched <= written
      BY TypeIs DEF Inv, Placed
    <3>2. written' \in Nat
      BY <1>2, SizesAre DEF Chars
    <3> QED BY <1>2, <3>1, <3>2
  <2> QED BY <1>1, <2>1 DEF Inv, Placed, Buffered
<1> QED BY <1>1, <1>2, <1>3, <1>4
        DEF Inv, Room, Unfinished, Divided, LineStart, Newlines

LEMMA InvRefill ==
  ASSUME Inv, Refill
  PROVE  Inv'
<1>1. /\ UNCHANGED <<messages, written, closed, usrbuf, text, ends, pc>>
      /\ rio_cnt <= 0 /\ rio_bufptr' = 1
  BY DEF Refill, Refills
<1>2. PICK k \in 1..RIO_BUFSIZE :
        /\ fetched + k <= written /\ fetched' = fetched + k /\ rio_cnt' = k
        /\ rio_buf' = [i \in 1..RIO_BUFSIZE |-> IF i <= k THEN fetched + i ELSE rio_buf[i]]
  BY DEF Refill
<1>3. /\ k \in Nat /\ k >= 1 /\ k <= RIO_BUFSIZE /\ fetched \in Nat /\ written \in Nat
      /\ written <= MaxLength /\ Len(text) \in Nat /\ Len(usrbuf) \in Nat
  BY <1>2, SizesAre, TypeIs DEF Inv, TypeInv, WriterType, Chars
<1>4. \A i \in 1..RIO_BUFSIZE : rio_buf'[i] \in Chars
  <2> SUFFICES ASSUME NEW i \in 1..RIO_BUFSIZE PROVE rio_buf'[i] \in Chars
    OBVIOUS
  <2>1. CASE i <= k
    <3>1. i \in Nat
      OBVIOUS
    <3>2. fetched + i \in 0..MaxLength
      BY <1>2, <1>3, <2>1, <3>1, SizesAre
    <3> QED BY <1>2, <2>1, <3>2 DEF Chars
  <2>2. CASE ~(i <= k)
    BY <1>2, <2>2 DEF Inv, TypeInv, BufferType
  <2> QED BY <2>1, <2>2
<1>5. BufferType'
  <2>1. rio_buf' \in [1..RIO_BUFSIZE -> Chars]
    <3>1. DOMAIN rio_buf' = 1..RIO_BUFSIZE /\ rio_buf' = [i \in 1..RIO_BUFSIZE |-> rio_buf'[i]]
      BY <1>2
    <3> QED BY <1>4, <3>1
  <2>2. fetched' \in Nat /\ rio_cnt' \in -1..RIO_BUFSIZE /\ rio_bufptr' \in 1..(RIO_BUFSIZE + 1)
    BY <1>1, <1>2, <1>3, SizesAre
  <2> QED BY <2>1, <2>2 DEF BufferType
<1>6. TypeInv'
  BY <1>1, <1>5 DEF Inv, TypeInv, WriterType, ReaderType
<1>7. Room'
  BY <1>1, <1>2, <1>3, SizesAre DEF Room
<1>8. Buffered = 0 /\ Buffered' = k
  <2>1. rio_cnt \in Int
    BY TypeIs DEF Inv
  <2> QED BY <1>1, <1>2, <1>3, <2>1 DEF Buffered
<1>9. Placed'
  <2>1. Len(text) + Len(usrbuf) = fetched
    BY <1>3, <1>8 DEF Inv, Placed
  <2>2. \A i \in 1..k : rio_buf'[1 + i - 1] = fetched + i
    <3> SUFFICES ASSUME NEW i \in 1..k PROVE rio_buf'[1 + i - 1] = fetched + i
      OBVIOUS
    <3>1. i \in 1..RIO_BUFSIZE /\ i <= k /\ 1 + i - 1 = i
      BY <1>3, SizesAre
    <3> QED BY <1>2, <3>1
  <2>3. \A i \in 1..Buffered' :
          rio_buf'[rio_bufptr' + i - 1] = Len(text') + Len(usrbuf') + i
    BY <1>1, <1>8, <2>1, <2>2
  <2>4. Len(text') + Len(usrbuf') + Buffered' = fetched' /\ fetched' <= written'
    BY <1>1, <1>2, <1>8, <2>1
  <2>5. /\ \A i \in 1..Len(text') : text'[i] = i
        /\ \A i \in 1..Len(usrbuf') : usrbuf'[i] = Len(text') + i
    BY <1>1 DEF Inv, Placed
  <2> QED BY <2>3, <2>4, <2>5 DEF Placed
<1> QED BY <1>1, <1>6, <1>7, <1>9
        DEF Inv, Unfinished, Divided, LineStart, Newlines, InMessage, Begin

(* A read that is interrupted or fails leaves the empty buffer empty. *)
LEMMA InvStops ==
  ASSUME Inv, Interrupted \/ ReadFails
  PROVE  Inv'
<1>1. /\ UNCHANGED <<messages, written, closed, fetched, rio_buf, rio_bufptr, usrbuf, text, ends>>
      /\ rio_cnt <= 0 /\ rio_cnt' = -1 /\ pc' \in {pc, "failed"}
  BY DEF Interrupted, ReadFails, Refills
<1>2. Buffered = 0 /\ Buffered' = 0
  <2>1. rio_cnt \in Int
    BY TypeIs DEF Inv
  <2> QED BY <1>1, <2>1 DEF Buffered
<1>3. rio_cnt' \in -1..RIO_BUFSIZE
  BY <1>1, SizesAre
<1>4. TypeInv'
  BY <1>1, <1>3 DEF Inv, TypeInv, WriterType, BufferType, ReaderType
<1>5. Room'
  BY <1>1 DEF Room
<1>6. Placed'
  BY <1>1, <1>2 DEF Inv, Placed
<1> QED BY <1>1, <1>4, <1>5, <1>6
        DEF Inv, Unfinished, Divided, LineStart, Newlines, InMessage, Begin

(* What a line is that rio_readlineb returns. *)
ALine(line) ==
  /\ line \in Seq(Chars) /\ Len(line) < MAX_LEN
  /\ \A i \in 1..Len(line) : line[i] = Len(text) + i

(* A line that is returned is appended to the text, and divided from it. *)
LEMMA InvReturns ==
  ASSUME Inv, NEW line, ALine(line), Returns(line),
         UNCHANGED <<messages, written, closed, fetched>>, BufferType', Room',
         pc' \in {"read", "eof", "failed"},
         Len(text) + Len(line) + Buffered' = fetched,
         \A i \in 1..Buffered' : rio_buf'[rio_bufptr' + i - 1] = Len(text) + Len(line) + i
  PROVE  Inv'
<1> DEFINE n == Len(text)
           m == Len(line)
<1>1. /\ text' = text \o line /\ ends' = Append(ends, n + m) /\ usrbuf' = << >>
  BY DEF Returns
<1>2. /\ n \in Nat /\ m \in Nat /\ m <= MAX_LEN - 1 /\ Len(ends) \in Nat /\ Buffered' \in Nat
      /\ fetched \in Nat /\ written \in Nat /\ written <= MaxLength
  <2>1. n \in Nat /\ Len(ends) \in Nat /\ fetched \in Nat /\ written \in Nat
    BY TypeIs DEF Inv
  <2>2. m \in Nat /\ m <= MAX_LEN - 1
    <3>1. m \in Nat /\ m < MAX_LEN
      BY DEF ALine
    <3> QED BY <3>1, SizesAre
  <2>3. Buffered' \in Nat
    <3>1. rio_cnt' \in Int
      BY SizesAre DEF BufferType
    <3> QED BY <3>1 DEF Buffered
  <2>4. written <= MaxLength
    BY SizesAre DEF Inv, TypeInv, WriterType, Chars
  <2> QED BY <2>1, <2>2, <2>3, <2>4
<1>3. /\ text \in Seq(Chars) /\ ends \in Seq(Chars) /\ line \in Seq(Chars)
      /\ \A i \in 1..n : text[i] = i
      /\ \A i \in 1..m : line[i] = n + i
  BY DEF Inv, TypeInv, ReaderType, Placed, ALine
<1>4. /\ text' \in Seq(Chars) /\ Len(text') = n + m
      /\ \A i \in 1..n : text'[i] = text[i]
      /\ \A i \in 1..m : text'[n + i] = line[i]
  BY <1>1, <1>3, ConcatProperties
<1>5. \A i \in 1..Len(text') : text'[i] = i
  <2> SUFFICES ASSUME NEW i \in 1..Len(text') PROVE text'[i] = i
    OBVIOUS
  <2>1. i \in 1..(n + m)
    BY <1>4
  <2> HIDE DEF n, m
  <2>2. CASE i <= n
    <3>1. i \in 1..n
      BY <1>2, <2>1, <2>2
    <3> QED BY <1>3, <1>4, <3>1
  <2>3. CASE ~(i <= n)
    <3>1. i - n \in 1..m /\ n + (i - n) = i
      BY <1>2, <2>1, <2>3
    <3>2. text'[n + (i - n)] = line[i - n] /\ line[i - n] = n + (i - n)
      BY <1>3, <1>4, <3>1
    <3> QED BY <3>1, <3>2
  <2> QED BY <2>2, <2>3
<1>6. n + m \in Chars
  <2> HIDE DEF n, m
  <2>1. n + m <= MaxLength /\ n + m \in Nat
    <3>1. n + m <= fetched
      BY <1>2 DEF n, m
    <3>2. fetched <= written
      BY DEF Inv, Placed
    <3> QED BY <1>2, <3>1, <3>2, SizesAre
  <2> QED BY <2>1, SizesAre DEF Chars
<1>7. /\ ends' \in Seq(Chars) /\ Len(ends') = Len(ends) + 1
      /\ \A i \in 1..Len(ends) : ends'[i] = ends[i]
      /\ ends'[Len(ends) + 1] = n + m
  BY <1>1, <1>3, <1>6, AppendProperties
<1> HIDE DEF n, m
<1>8. TypeInv'
  <2>1. << >> \in Seq(Chars)
    OBVIOUS
  <2> QED BY <1>1, <1>4, <1>7, <2>1 DEF Inv, TypeInv, WriterType, ReaderType
<1>9. Placed'
  <2>1. Len(usrbuf') = 0
    BY <1>1
  <2>2. Len(text') + Len(usrbuf') + Buffered' = fetched' /\ fetched' <= written'
    BY <1>2, <1>4, <2>1 DEF Inv, Placed, n, m
  <2>3. \A i \in 1..Buffered' :
          rio_buf'[rio_bufptr' + i - 1] = Len(text') + Len(usrbuf') + i
    <3>1. Len(text') + Len(usrbuf') = Len(text) + Len(line)
      BY <1>2, <1>4, <2>1 DEF n, m
    <3> QED BY <3>1
  <2>4. \A i \in 1..Len(usrbuf') : usrbuf'[i] = Len(text') + i
    BY <2>1
  <2> QED BY <1>5, <2>2, <2>3, <2>4 DEF Placed
<1>10. Unfinished'
  <2>1. Len(usrbuf') = 0
    BY <1>1
  <2> QED BY <2>1, SizesAre DEF Unfinished
<1>11. Divided'
  <2>1. LineStart(Len(ends) + 1) = n
    BY DEF Inv, Divided, n
  <2>2. ASSUME NEW i \in 1..(Len(ends) + 1) PROVE Start(ends', i) = Start(ends, i)
    <3>1. i = 1 \/ i - 1 \in 1..Len(ends)
      BY <1>2
    <3> QED BY <1>7, <3>1 DEF Start
  <2>3. Start(ends', Len(ends') + 1) = n + m
    <3>1. Len(ends') + 1 # 1 /\ Len(ends') + 1 - 1 = Len(ends) + 1
      BY <1>2, <1>7
    <3> QED BY <1>7, <3>1 DEF Start
  <2>4. ASSUME NEW i \in 1..Len(ends')
        PROVE  ends'[i] - Start(ends', i) \in 0..(MAX_LEN - 1)
    <3>1. i \in 1..(Len(ends) + 1)
      BY <1>7
    <3>2. Start(ends', i) = Start(ends, i)
      BY <2>2, <3>1
    <3>3. CASE i \in 1..Len(ends)
      BY <1>7, <3>2, <3>3 DEF Inv, Divided, LineStart, Start
    <3>4. CASE i = Len(ends) + 1
      <4>1. ends'[i] = n + m /\ Start(ends', i) = n
        BY <1>7, <2>1, <3>2, <3>4 DEF LineStart, Start
      <4>2. (n + m) - n \in 0..(MAX_LEN - 1)
        BY <1>2, SizesAre
      <4>3. ends'[i] - Start(ends', i) = (n + m) - n
        BY <4>1, Zenon
      <4> QED BY <4>2, <4>3, Zenon
    <3> QED BY <1>2, <3>1, <3>3, <3>4
  <2> QED BY <1>4, <2>3, <2>4 DEF Divided, LineStart, Start
<1> QED BY <1>8, <1>9, <1>10, <1>11 DEF Inv, InMessage, Begin

(* The next character of the buffer is the one behind the line. *)
LEMMA InvTakes ==
  ASSUME Inv, TakeChar
  PROVE  /\ ALine(Append(usrbuf, rio_buf[rio_bufptr])) /\ Inv'
         /\ Len(Append(usrbuf, rio_buf[rio_bufptr])) = Len(usrbuf) + 1
<1> DEFINE c == rio_buf[rio_bufptr]
           line == Append(usrbuf, c)
           n == Len(text)
           u == Len(usrbuf)
<1>1. /\ UNCHANGED <<messages, written, closed, fetched, rio_buf, pc>>
      /\ pc = "read" /\ rio_cnt > 0
      /\ rio_bufptr' = rio_bufptr + 1 /\ rio_cnt' = rio_cnt - 1
  BY DEF TakeChar
<1>2. /\ n \in Nat /\ u \in Nat /\ rio_cnt \in Nat /\ rio_bufptr \in Nat /\ fetched \in Nat
      /\ rio_cnt >= 1 /\ rio_bufptr >= 1 /\ rio_bufptr + rio_cnt <= RIO_BUFSIZE + 1
      /\ u < MAX_LEN - 1 /\ rio_cnt <= RIO_BUFSIZE
  <2>1. n \in Nat /\ u \in Nat /\ rio_cnt \in Int /\ rio_bufptr \in Nat /\ fetched \in Nat
    BY TypeIs DEF Inv
  <2>2. rio_cnt <= RIO_BUFSIZE /\ rio_bufptr >= 1
    BY SizesAre DEF Inv, TypeInv, BufferType
  <2>3. u < MAX_LEN - 1
    BY DEF Inv, Unfinished
  <2>4. rio_bufptr + rio_cnt <= RIO_BUFSIZE + 1
    BY <1>1 DEF Inv, Room
  <2> QED BY <1>1, <2>1, <2>2, <2>3, <2>4
<1>3. Buffered = rio_cnt /\ Buffered' = rio_cnt - 1
  BY <1>1, <1>2 DEF Buffered
<1>4. /\ n + u + rio_cnt = fetched
      /\ \A i \in 1..u : usrbuf[i] = n + i
      /\ \A i \in 1..rio_cnt : rio_buf[rio_bufptr + i - 1] = n + u + i
  BY <1>3 DEF Inv, Placed
<1>5. c \in Chars /\ c = n + u + 1
  <2>1. rio_bufptr \in 1..RIO_BUFSIZE
    BY <1>2, SizesAre
  <2>2. 1 \in 1..rio_cnt /\ rio_bufptr + 1 - 1 = rio_bufptr
    BY <1>2
  <2>3. rio_buf[rio_bufptr + 1 - 1] = n + u + 1
    BY <1>4, <2>2
  <2> QED BY <2>1, <2>2, <2>3 DEF Inv, TypeInv, BufferType
<1> HIDE DEF c
<1>6. /\ line \in Seq(Chars) /\ Len(line) = u + 1
      /\ \A i \in 1..u : line[i] = usrbuf[i]
      /\ line[u + 1] = c
  BY <1>5, AppendProperties DEF Inv, TypeInv, ReaderType
<1> HIDE DEF line
<1>7. \A i \in 1..(u + 1) : line[i] = n + i
  <2> SUFFICES ASSUME NEW i \in 1..(u + 1) PROVE line[i] = n + i
    OBVIOUS
  <2>1. CASE i \in 1..u
    BY <1>4, <1>6, <2>1
  <2>2. CASE i = u + 1
    BY <1>2, <1>5, <1>6, <2>2
  <2> QED BY <1>2, <2>1, <2>2
<1>8. ALine(line)
  BY <1>2, <1>6, <1>7, SizesAre DEF ALine
<1>9. BufferType' /\ Room'
  <2>1. rio_bufptr + 1 \in 1..(RIO_BUFSIZE + 1) /\ rio_cnt - 1 \in -1..RIO_BUFSIZE
        /\ (rio_bufptr + 1) + (rio_cnt - 1) <= RIO_BUFSIZE + 1
    BY <1>2, SizesAre
  <2> QED BY <1>1, <2>1 DEF Inv, TypeInv, BufferType, Room
<1>10. \A i \in 1..Buffered' : rio_buf'[rio_bufptr' + i - 1] = n + (u + 1) + i
  <2> SUFFICES ASSUME NEW i \in 1..(rio_cnt - 1)
               PROVE  rio_buf[(rio_bufptr + 1) + i - 1] = n + (u + 1) + i
    BY <1>1, <1>3
  <2>1. i + 1 \in 1..rio_cnt /\ (rio_bufptr + 1) + i - 1 = rio_bufptr + (i + 1) - 1
        /\ n + (u + 1) + i = n + u + (i + 1)
    BY <1>2
  <2> QED BY <1>4, <2>1
<1>11. n + (u + 1) + Buffered' = fetched
  BY <1>2, <1>3, <1>4
<1>12. CASE LineFull(line)
  <2>1. Returns(line)
    BY <1>12 DEF TakeChar, line, c
  <2>2. Inv'
    BY <1>1, <1>6, <1>8, <1>9, <1>10, <1>11, <2>1, InvReturns DEF Inv, TypeInv, ReaderType, n
  <2> QED BY <1>6, <1>8, <2>2 DEF line, c, u
<1>13. CASE ~LineFull(line)
  <2>1. usrbuf' = line /\ UNCHANGED <<text, ends>>
    BY <1>13 DEF TakeChar, line, c
  <2>2. Last(line) = c
    BY <1>6 DEF Last
  <2>3. c \notin Newlines /\ u + 1 # MAX_LEN - 1
    BY <1>6, <1>13, <2>2 DEF LineFull
  <2>4. Unfinished'
    <3>1. u + 1 < MAX_LEN - 1
      BY <1>2, <2>3, SizesAre
    <3>2. ASSUME NEW i \in 1..(u + 1) PROVE line[i] \notin Newlines
      <4>1. CASE i \in 1..u
        BY <1>6, <4>1 DEF Inv, Unfinished, u
      <4>2. CASE i = u + 1
        BY <1>6, <2>3, <4>2
      <4> QED BY <1>2, <4>1, <4>2
    <3>3. Newlines' = Newlines
      BY <1>1 DEF Newlines
    <3> QED BY <1>6, <2>1, <3>1, <3>2, <3>3 DEF Unfinished
  <2>5. Placed'
    <3>1. Len(text') + Len(usrbuf') + Buffered' = fetched' /\ fetched' <= written'
      BY <1>1, <1>6, <1>11, <2>1 DEF Inv, Placed, n
    <3>2. \A i \in 1..Len(usrbuf') : usrbuf'[i] = Len(text') + i
      BY <1>6, <1>7, <2>1 DEF n
    <3>3. \A i \in 1..Buffered' :
            rio_buf'[rio_bufptr' + i - 1] = Len(text') + Len(usrbuf') + i
      BY <1>6, <1>10, <2>1 DEF n
    <3>4. \A i \in 1..Len(text') : text'[i] = i
      BY <2>1 DEF Inv, Placed
    <3> QED BY <3>1, <3>2, <3>3, <3>4 DEF Placed
  <2>6. TypeInv'
    BY <1>1, <1>6, <1>9, <2>1 DEF Inv, TypeInv, WriterType, ReaderType
  <2>7. Inv'
    BY <1>1, <1>9, <2>1, <2>4, <2>5, <2>6 DEF Inv, Divided, LineStart, InMessage, Begin
  <2> QED BY <1>6, <1>8, <2>7 DEF line, c, u
<1> QED BY <1>12, <1>13

LEMMA InvEnd ==
  ASSUME Inv, EndOfFile
  PROVE  ALine(usrbuf) /\ Inv'
<1>1. /\ UNCHANGED <<messages, written, closed, fetched, rio_buf, rio_bufptr>>
      /\ rio_cnt <= 0 /\ rio_cnt' = 0 /\ Returns(usrbuf) /\ pc' \in {"read", "eof", "failed"}
  BY DEF EndOfFile, Refills
<1>2. Buffered = 0 /\ Buffered' = 0
  <2>1. rio_cnt \in Int
    BY TypeIs DEF Inv
  <2> QED BY <1>1, <2>1 DEF Buffered
<1>3. Len(usrbuf) < MAX_LEN
  <2>1. Len(usrbuf) \in Nat /\ Len(usrbuf) < MAX_LEN - 1
    BY TypeIs DEF Inv, Unfinished
  <2> QED BY <2>1, SizesAre
<1>4. ALine(usrbuf)
  BY <1>3 DEF ALine, Inv, TypeInv, ReaderType, Placed
<1>5. BufferType' /\ Room'
  <2>1. 0 \in -1..RIO_BUFSIZE
    BY SizesAre
  <2> QED BY <1>1, <2>1 DEF Inv, TypeInv, BufferType, Room
<1>6. Len(text) + Len(usrbuf) + Buffered' = fetched
  BY <1>2 DEF Inv, Placed
<1>7. \A i \in 1..Buffered' : rio_buf'[rio_bufptr' + i - 1] = Len(text) + Len(usrbuf) + i
  BY <1>2
<1>8. Inv'
  BY <1>1, <1>4, <1>5, <1>6, <1>7, InvReturns
<1> QED BY <1>4, <1>8

LEMMA InvStep == Inv /\ [Next]_vars => Inv'
<1> SUFFICES ASSUME Inv, [Next]_vars PROVE Inv'
  OBVIOUS
<1>1. CASE UNCHANGED vars
  BY <1>1 DEF vars, rio, Inv, TypeInv, WriterType, BufferType, ReaderType, Room, Placed,
              Buffered, Unfinished, Newlines, Divided, LineStart, InMessage, Begin
<1>2. CASE Next
  BY <1>2, InvWriter, InvRefill, InvStops, InvTakes, InvEnd DEF Next
<1> QED BY <1>1, <1>2

LEMMA RioInvariant == Spec => []Inv
BY InvInit, InvStep, PTL DEF Spec
-----------------------------------------------------------------------------
(* csapp.c:781-900: the buffer pointer and the count stay inside the buffer *)
(* of rio_t, no line is longer than maxlen - 1, and the lines divide the    *)
(* text that was read, for any messages, buffer and limit.                  *)
THEOREM RioTypeCorrect == Spec => []TypeOK
<1>1. Inv => TypeOK
  <2> SUFFICES ASSUME Inv PROVE TypeOK
    OBVIOUS
  <2>1. fetched \in 0..written
    <3>1. fetched \in Nat /\ written \in Nat /\ fetched <= written
      BY TypeIs DEF Inv, Placed
    <3> QED BY <3>1
  <2>2. Len(usrbuf) < MAX_LEN
    <3>1. Len(usrbuf) \in Nat /\ Len(usrbuf) < MAX_LEN - 1
      BY TypeIs DEF Inv, Unfinished
    <3> QED BY <3>1, SizesAre
  <2>3. DOMAIN ends = 1..Len(ends)
    BY DEF Inv, TypeInv, ReaderType
  <2> QED BY <2>1, <2>2, <2>3
          DEF TypeOK, Inv, TypeInv, WriterType, BufferType, ReaderType, Divided
<1> QED BY <1>1, RioInvariant, PTL

LEMMA UnreadIs ==
  ASSUME Inv
  PROVE  /\ Unread \in Seq(Chars) /\ Len(Unread) = Buffered
         /\ \A i \in 1..Buffered : Unread[i] = rio_buf[rio_bufptr + i - 1]
<1>1. /\ rio_cnt \in -1..RIO_BUFSIZE /\ rio_bufptr \in Nat /\ rio_bufptr >= 1
      /\ rio_cnt \in Int /\ rio_buf \in [1..RIO_BUFSIZE -> Chars]
  BY SizesAre DEF Inv, TypeInv, BufferType
<1>2. Buffered \in Nat /\ (rio_cnt > 0 => Buffered = rio_cnt) /\ (~(rio_cnt > 0) => Buffered = 0)
  BY <1>1 DEF Buffered
<1>3. ASSUME NEW i \in rio_bufptr..(rio_bufptr + rio_cnt - 1) PROVE rio_buf[i] \in Chars
  <2>1. rio_cnt > 0 /\ i \in Int /\ i >= rio_bufptr /\ i <= rio_bufptr + rio_cnt - 1
    BY <1>1
  <2>2. rio_bufptr + rio_cnt <= RIO_BUFSIZE + 1
    BY <2>1 DEF Inv, Room
  <2>3. i \in 1..RIO_BUFSIZE
    BY <1>1, <2>1, <2>2, SizesAre
  <2> QED BY <1>1, <2>3
<1> DEFINE m == rio_bufptr
           k == rio_bufptr + rio_cnt - 1
<1>4. m \in Int /\ k \in Int /\ k - m + 1 = rio_cnt
      /\ (IF m <= k THEN k - m + 1 ELSE 0) = Buffered
  BY <1>1, <1>2
<1>5. Unread = SubSeq(rio_buf, m, k) /\ \A i \in m..k : rio_buf[i] \in Chars
  BY <1>3 DEF Unread
<1> HIDE DEF m, k
<1>6. /\ Unread \in Seq(Chars) /\ Len(Unread) = Buffered
      /\ \A i \in 1..(k - m + 1) : Unread[i] = rio_buf[m + i - 1]
  BY <1>4, <1>5, SubSeqProperties
<1>7. \A i \in 1..Buffered : i \in 1..(k - m + 1)
  BY <1>1, <1>2, <1>4
<1> QED BY <1>6, <1>7 DEF m

LEMMA Joined ==
  ASSUME NEW s \in Seq(Chars), NEW t \in Seq(Chars)
  PROVE  /\ s \o t \in Seq(Chars) /\ Len(s \o t) = Len(s) + Len(t)
         /\ \A i \in 1..Len(s) : (s \o t)[i] = s[i]
         /\ \A i \in 1..Len(t) : (s \o t)[Len(s) + i] = t[i]
<1>1. Len(s) \in Nat /\ Len(t) \in Nat
  OBVIOUS
<1>2. /\ s \o t \in Seq(Chars) /\ Len(s \o t) = Len(s) + Len(t)
      /\ \A i \in 1..(Len(s) + Len(t)) :
           (s \o t)[i] = IF i <= Len(s) THEN s[i] ELSE t[i - Len(s)]
  BY ConcatProperties
<1>3. \A i \in 1..Len(s) : i \in 1..(Len(s) + Len(t)) /\ i <= Len(s)
  BY <1>1
<1>4. \A i \in 1..Len(t) :
        /\ Len(s) + i \in 1..(Len(s) + Len(t)) /\ ~(Len(s) + i <= Len(s))
        /\ Len(s) + i - Len(s) = i
  BY <1>1
<1> QED BY <1>2, <1>3, <1>4

(* csapp.c:833-834, rio_bufptr and rio_cnt: what read(2) has returned is,   *)
(* each character once and in order, in the lines rio_readlineb returned,   *)
(* in the line it is reading or in the buffer, whatever the sizes of the    *)
(* writes and reads, the interruptions and the limit of a line.             *)
THEOREM NoCharLostOrRepeated == Spec => []EveryCharOnce
<1>1. Inv => EveryCharOnce
  <2> SUFFICES ASSUME Inv PROVE EveryCharOnce
    OBVIOUS
  <2> DEFINE n == Len(text)
             u == Len(usrbuf)
             b == Buffered
             f == text \o usrbuf
             g == f \o Unread
             p == Positions(0, fetched)
  <2>1. /\ n \in Nat /\ u \in Nat /\ b \in Nat /\ fetched \in Nat /\ n + u + b = fetched
        /\ text \in Seq(Chars) /\ usrbuf \in Seq(Chars)
        /\ Unread \in Seq(Chars) /\ Len(Unread) = b
    BY TypeIs, UnreadIs DEF Inv, Placed, TypeInv, ReaderType
  <2>2. /\ \A i \in 1..n : text[i] = i
        /\ \A i \in 1..u : usrbuf[i] = n + i
        /\ \A i \in 1..b : Unread[i] = n + u + i
    BY UnreadIs DEF Inv, Placed
  <2>3. p = [i \in 1..fetched |-> i]
    <3>1. fetched - 0 = fetched /\ \A i \in 1..fetched : 0 + i = i
      BY <2>1
    <3> QED BY <3>1 DEF Positions
  <2>4. /\ f \in Seq(Chars) /\ Len(f) = n + u
        /\ \A i \in 1..n : f[i] = text[i]
        /\ \A i \in 1..u : f[n + i] = usrbuf[i]
    BY <2>1, ConcatProperties
  <2> HIDE DEF n, u, b, f, p
  <2>5. \A i \in 1..(n + u) : f[i] = i
    <3> SUFFICES ASSUME NEW i \in 1..(n + u) PROVE f[i] = i
      OBVIOUS
    <3>1. CASE i <= n
      <4>1. i \in 1..n
        BY <2>1, <3>1
      <4> QED BY <2>2, <2>4, <4>1
    <3>2. CASE ~(i <= n)
      <4>1. i - n \in 1..u /\ n + (i - n) = i
        BY <2>1, <3>2
      <4>2. f[n + (i - n)] = n + (i - n)
        BY <2>2, <2>4, <4>1
      <4> QED BY <4>1, <4>2
    <3> QED BY <3>1, <3>2
  <2>6. /\ g \in Seq(Chars) /\ Len(g) = (n + u) + b
        /\ \A i \in 1..(n + u) : g[i] = f[i]
        /\ \A i \in 1..b : g[(n + u) + i] = Unread[i]
    <3>1. /\ g \in Seq(Chars) /\ Len(g) = Len(f) + Len(Unread)
          /\ \A i \in 1..Len(f) : g[i] = f[i]
          /\ \A i \in 1..Len(Unread) : g[Len(f) + i] = Unread[i]
      BY <2>1, <2>4, Joined
    <3> HIDE DEF g
    <3> QED BY <2>1, <2>4, <3>1
  <2> HIDE DEF g
  <2>7. \A i \in 1..fetched : g[i] = i
    <3> SUFFICES ASSUME NEW i \in 1..fetched PROVE g[i] = i
      OBVIOUS
    <3>1. CASE i <= n + u
      <4>1. i \in 1..(n + u)
        BY <2>1, <3>1
      <4> QED BY <2>5, <2>6, <4>1
    <3>2. CASE ~(i <= n + u)
      <4>1. i - (n + u) \in 1..b /\ (n + u) + (i - (n + u)) = i
        BY <2>1, <3>2
      <4>2. g[(n + u) + (i - (n + u))] = n + u + (i - (n + u))
        BY <2>2, <2>6, <4>1
      <4> QED BY <4>1, <4>2
    <3> QED BY <3>1, <3>2
  <2>8. g = [i \in 1..fetched |-> i]
    <3>1. Len(g) = fetched
      BY <2>1, <2>6
    <3>2. g = [i \in 1..Len(g) |-> g[i]]
      BY <2>6
    <3> QED BY <2>7, <3>1, <3>2
  <2>9. g = p
    BY <2>3, <2>8
  <2> QED BY <2>9 DEF EveryCharOnce, g, f, p
<1> QED BY <1>1, RioInvariant, PTL
-----------------------------------------------------------------------------
(* The pieces of the stream, of messages m, when R characters were returned *)
(* and w written                                                            *)

PassedBy(m, R) == Cardinality({i \in DOMAIN m : m[i] <= R})
BegunBy(m, w) == Cardinality({i \in DOMAIN m : Start(m, i) < w})
PieceOf(m, R, w, i) ==
  [tag |-> "none", body |-> 0, nl |-> m[i] <= w,
   len |-> Least(m[i], w) - (IF Start(m, i) <= R THEN R ELSE Start(m, i))]
PiecesOf(m, R, w) ==
  IF R = w THEN << >>
  ELSE [k \in 1..(BegunBy(m, w) - PassedBy(m, R)) |-> PieceOf(m, R, w, PassedBy(m, R) + k)]

LEMMA PiecesAre ==
  /\ Pieces = PiecesOf(messages, Len(text), written)
  /\ Pieces' = PiecesOf(messages', Len(text'), written')
BY DEF Pieces, Piece, PiecesOf, PieceOf, PassedBy, BegunBy, Passed, Begun, Start, Begin, Returned

Newlined(m) ==
  /\ m \in Seq(Nat) /\ Len(m) \in Nat /\ DOMAIN m = 1..Len(m) /\ Increasing(m)
  /\ \A i \in 1..Len(m) : m[i] \in Nat /\ m[i] >= 1

Inside(m, w) == w > 0 => \E i \in 1..Len(m) : Start(m, i) < w /\ w <= m[i]

LEMMA InitialSegment ==
  ASSUME NEW n \in Nat, NEW D \in SUBSET (1..n), \A i \in D : \A j \in 1..i : j \in D
  PROVE  Cardinality(D) \in 0..n /\ D = 1..Cardinality(D)
<1> DEFINE c == Cardinality(D)
<1>1. IsFiniteSet(1..n) /\ Cardinality(1..n) = n
  BY FS_Interval
<1>2. IsFiniteSet(D) /\ c <= n /\ c \in Nat
  BY <1>1, FS_Subset, FS_CardinalityType
<1>3. IsFiniteSet(1..c) /\ Cardinality(1..c) = c
  BY <1>2, FS_Interval
<1>4. ASSUME NEW i \in D PROVE i \in 1..c
  <2>1. i \in Nat /\ i >= 1
    OBVIOUS
  <2>2. IsFiniteSet(1..i) /\ Cardinality(1..i) = i
    BY <2>1, FS_Interval
  <2>3. 1..i \in SUBSET D
    OBVIOUS
  <2>4. Cardinality(1..i) <= c
    BY <1>2, <2>3, FS_Subset
  <2> QED BY <1>2, <2>1, <2>2, <2>4
<1>5. D \in SUBSET (1..c)
  BY <1>4
<1> HIDE DEF c
<1>6. D = 1..c
  BY <1>3, <1>5, FS_Subset DEF c
<1> QED BY <1>2, <1>6 DEF c

LEMMA InOrder ==
  ASSUME NEW m, Newlined(m), NEW i \in 1..Len(m)
  PROVE  /\ Start(m, i) \in Nat /\ Start(m, i) < m[i]
         /\ \A j \in 1..Len(m) : i < j => m[i] < m[j] /\ m[i] <= Start(m, j)
         /\ i + 1 \in 1..Len(m) => Start(m, i + 1) = m[i]
<1>1. /\ Len(m) \in Nat
      /\ \A j, k \in 1..Len(m) : j < k => m[j] < m[k]
      /\ \A j \in 1..Len(m) : m[j] \in Nat /\ m[j] >= 1
  BY DEF Newlined, Increasing
<1>2. Start(m, i) \in Nat /\ Start(m, i) < m[i]
  <2>1. CASE i = 1
    BY <1>1, <2>1 DEF Start
  <2>2. CASE i # 1
    <3>1. i - 1 \in 1..Len(m) /\ i - 1 < i
      BY <1>1, <2>2
    <3> QED BY <1>1, <2>2, <3>1 DEF Start
  <2> QED BY <2>1, <2>2
<1>3. ASSUME NEW j \in 1..Len(m), i < j PROVE m[i] < m[j] /\ m[i] <= Start(m, j)
  <2>1. m[i] < m[j]
    BY <1>1, <1>3
  <2>2. j # 1 /\ j - 1 \in 1..Len(m) /\ (i < j - 1 \/ i = j - 1)
    BY <1>1, <1>3
  <2>3. m[i] <= m[j - 1]
    BY <1>1, <2>2
  <2> QED BY <2>1, <2>2, <2>3 DEF Start
<1>4. i + 1 \in 1..Len(m) => Start(m, i + 1) = m[i]
  <2>1. i + 1 # 1 /\ (i + 1) - 1 = i
    OBVIOUS
  <2> QED BY <2>1 DEF Start
<1> QED BY <1>2, <1>3, <1>4

LEMMA PassedIs ==
  ASSUME NEW m, Newlined(m), NEW R \in Nat
  PROVE  /\ PassedBy(m, R) \in 0..Len(m)
         /\ \A i \in 1..Len(m) : i <= PassedBy(m, R) <=> m[i] <= R
<1> DEFINE D == {i \in 1..Len(m) : m[i] <= R}
<1>1. /\ Len(m) \in Nat /\ DOMAIN m = 1..Len(m)
      /\ \A i \in 1..Len(m) : m[i] \in Nat
  BY DEF Newlined
<1>2. ASSUME NEW i \in D, NEW j \in 1..i PROVE j \in D
  <2>1. i \in 1..Len(m) /\ j \in 1..Len(m) /\ (j < i \/ j = i)
    BY <1>1
  <2>2. m[j] <= m[i]
    BY <1>1, <2>1, InOrder
  <2> QED BY <1>1, <2>1, <2>2
<1>3. Cardinality(D) \in 0..Len(m) /\ D = 1..Cardinality(D)
  BY <1>1, <1>2, InitialSegment
<1>4. PassedBy(m, R) = Cardinality(D)
  BY <1>1 DEF PassedBy
<1>5. \A i \in 1..Len(m) : i \in D <=> m[i] <= R
  OBVIOUS
<1> HIDE DEF D
<1>6. \A i \in 1..Len(m) : i \in 1..Cardinality(D) <=> i <= Cardinality(D)
  BY <1>1, <1>3
<1> QED BY <1>3, <1>4, <1>5, <1>6

LEMMA BegunIs ==
  ASSUME NEW m, Newlined(m), NEW w \in Nat
  PROVE  /\ BegunBy(m, w) \in 0..Len(m)
         /\ \A i \in 1..Len(m) : i <= BegunBy(m, w) <=> Start(m, i) < w
<1> DEFINE D == {i \in 1..Len(m) : Start(m, i) < w}
<1>1. /\ Len(m) \in Nat /\ DOMAIN m = 1..Len(m)
      /\ \A i \in 1..Len(m) : m[i] \in Nat /\ Start(m, i) \in Nat /\ Start(m, i) < m[i]
  BY InOrder DEF Newlined
<1>2. ASSUME NEW i \in D, NEW j \in 1..i PROVE j \in D
  <2>1. i \in 1..Len(m) /\ j \in 1..Len(m) /\ (j < i \/ j = i)
    BY <1>1
  <2>2. CASE j < i
    <3>1. m[j] <= Start(m, i)
      BY <2>1, <2>2, InOrder
    <3> QED BY <1>1, <2>1, <3>1
  <2> QED BY <2>1, <2>2
<1>3. Cardinality(D) \in 0..Len(m) /\ D = 1..Cardinality(D)
  BY <1>1, <1>2, InitialSegment
<1>4. BegunBy(m, w) = Cardinality(D)
  BY <1>1 DEF BegunBy
<1>5. \A i \in 1..Len(m) : i \in D <=> Start(m, i) < w
  OBVIOUS
<1> HIDE DEF D
<1>6. \A i \in 1..Len(m) : i \in 1..Cardinality(D) <=> i <= Cardinality(D)
  BY <1>1, <1>3
<1> QED BY <1>3, <1>4, <1>5, <1>6

(* The last message that was begun is the one being written. *)
LEMMA BegunAt ==
  ASSUME NEW m, Newlined(m), NEW w \in Nat, NEW i \in 1..Len(m),
         Start(m, i) < w, w <= m[i]
  PROVE  BegunBy(m, w) = i
<1> DEFINE b == BegunBy(m, w)
<1>1. /\ b \in 0..Len(m) /\ Len(m) \in Nat /\ i <= b
      /\ \A j \in 1..Len(m) : j <= b <=> Start(m, j) < w
      /\ \A j \in 1..Len(m) : m[j] \in Nat /\ Start(m, j) \in Nat
  BY BegunIs, InOrder DEF Newlined
<1> HIDE DEF b
<1>2. ASSUME i < b PROVE FALSE
  <2>1. b \in 1..Len(m) /\ Start(m, b) < w
    BY <1>1, <1>2
  <2>2. m[i] <= Start(m, b)
    BY <1>2, <2>1, InOrder
  <2> QED BY <1>1, <2>1, <2>2
<1> QED BY <1>1, <1>2 DEF b

LEMMA PassedAt ==
  ASSUME NEW m, Newlined(m), NEW R \in Nat, NEW i \in 1..Len(m),
         Start(m, i) <= R, R < m[i]
  PROVE  PassedBy(m, R) = i - 1
<1> DEFINE p == PassedBy(m, R)
<1>1. /\ p \in 0..Len(m) /\ Len(m) \in Nat
      /\ \A j \in 1..Len(m) : j <= p <=> m[j] <= R
      /\ \A j \in 1..Len(m) : m[j] \in Nat /\ Start(m, j) \in Nat
  BY PassedIs, InOrder DEF Newlined
<1>2. i \in Nat /\ i >= 1 /\ ~(i <= p)
  BY <1>1
<1>3. i # 1 => i - 1 <= p
  <2>1. CASE i # 1
    <3>1. i - 1 \in 1..Len(m) /\ m[i - 1] = Start(m, i)
      BY <1>1, <1>2, <2>1 DEF Start
    <3> QED BY <1>1, <3>1
  <2> QED BY <2>1
<1> HIDE DEF p
<1>4. p = i - 1
  BY <1>1, <1>2, <1>3
<1> QED BY <1>4 DEF p

(* a piece of the stream, as module LineStream has it *)
PieceType == [tag : {"none"}, len : Nat, body : {0}, nl : BOOLEAN]

LEMMA SamePiece ==
  ASSUME NEW s \in PieceType, NEW t \in PieceType, s.len = t.len, s.nl = t.nl
  PROVE  s = t
BY DEF PieceType

LEMMA TextIs ==
  ASSUME NEW l \in Nat, NEW n \in BOOLEAN
  PROVE  /\ Lines!Text(l, n) \in PieceType
         /\ Lines!Text(l, n).len = l /\ Lines!Text(l, n).nl = n
         /\ Lines!Size(Lines!Text(l, n)) = l
         /\ Lines!Prefix(Lines!Text(l, n)) = 0
<1>1. "none" \notin DOMAIN Lines!TagLength
  BY DEF Lines!TagLength
<1>2. Lines!Prefix(Lines!Text(l, n)) = 0
  BY <1>1 DEF Lines!Prefix, Lines!Text
<1>3. Lines!Text(l, n).len = l /\ Lines!Text(l, n).nl = n
  BY DEF Lines!Text
<1>4. Lines!Size(Lines!Text(l, n)) = l
  BY <1>2, <1>3 DEF Lines!Size
<1>5. Lines!Text(l, n) \in PieceType
  BY DEF Lines!Text, PieceType
<1> QED BY <1>2, <1>3, <1>4, <1>5

(* what Written, Received and Remaining make of a piece *)
Longer(t, k, x) == [t EXCEPT !.len = @ + k, !.nl = x]
Cut(t, k) == [t EXCEPT !.len = k, !.nl = FALSE]
Rest(t, k) == [t EXCEPT !.tag = "none", !.len = k]

LEMMA TextBecomes ==
  ASSUME NEW l \in Nat, NEW n \in BOOLEAN, NEW k \in Nat, NEW x \in BOOLEAN
  PROVE  /\ Longer(Lines!Text(l, n), k, x) = Lines!Text(l + k, x)
         /\ Cut(Lines!Text(l, n), k) = Lines!Text(k, FALSE)
         /\ Rest(Lines!Text(l, n), k) = Lines!Text(k, n)
<1> DEFINE t == Lines!Text(l, n)
           u == [t EXCEPT !.len = l + k, !.nl = x]
           v == [t EXCEPT !.len = k, !.nl = FALSE]
           y == [t EXCEPT !.tag = "none", !.len = k]
<1>1. t \in PieceType /\ t.len = l /\ t.nl = n
  BY TextIs
<1>2. /\ Lines!Text(l + k, x) \in PieceType /\ Lines!Text(k, FALSE) \in PieceType
      /\ Lines!Text(k, n) \in PieceType
      /\ Lines!Text(l + k, x).len = l + k /\ Lines!Text(l + k, x).nl = x
      /\ Lines!Text(k, FALSE).len = k /\ Lines!Text(k, FALSE).nl = FALSE
      /\ Lines!Text(k, n).len = k /\ Lines!Text(k, n).nl = n
  BY DEF Lines!Text, PieceType
<1>3. /\ u \in PieceType /\ u.len = l + k /\ u.nl = x
      /\ v \in PieceType /\ v.len = k /\ v.nl = FALSE
      /\ y \in PieceType /\ y.len = k /\ y.nl = n
  <2>1. l + k \in Nat
    OBVIOUS
  <2>2. u \in PieceType /\ u.len = l + k /\ u.nl = x
    BY <1>1, <2>1 DEF PieceType
  <2>3. v \in PieceType /\ v.len = k /\ v.nl = FALSE
    BY <1>1 DEF PieceType
  <2>4. y \in PieceType /\ y.len = k
    BY <1>1 DEF PieceType
  <2>5. y.nl = n
    BY <1>1 DEF PieceType
  <2> QED BY <2>2, <2>3, <2>4, <2>5
<1>4. [t EXCEPT !.len = @ + k, !.nl = x] = u
  BY <1>1
<1> HIDE DEF t, u, v, y
<1>5. u = Lines!Text(l + k, x) /\ v = Lines!Text(k, FALSE) /\ y = Lines!Text(k, n)
  BY <1>2, <1>3, SamePiece
<1> QED BY <1>4, <1>5 DEF t, u, v, y, Longer, Cut, Rest

(* where in the stream a piece starts, and how far it goes *)
From(m, R, i) == IF Start(m, i) <= R THEN R ELSE Start(m, i)

LEMMA PieceIs ==
  ASSUME NEW m, NEW R, NEW w, NEW i
  PROVE  PieceOf(m, R, w, i) = Lines!Text(Least(m[i], w) - From(m, R, i), m[i] <= w)
BY DEF PieceOf, From, Lines!Text

(* The stream, if it is not empty: the rest of the first message that was   *)
(* not passed, the messages behind it and what was begun of the last.       *)
AStream(m, R, w, P, b) ==
  /\ Newlined(m) /\ R \in Nat /\ w \in Nat /\ R < w /\ Inside(m, w)
  /\ P = PassedBy(m, R) /\ b = BegunBy(m, w)

LEMMA StreamIs ==
  ASSUME NEW m, NEW R, NEW w, NEW P, NEW b, AStream(m, R, w, P, b)
  PROVE  /\ P \in Nat /\ b \in 1..Len(m) /\ P < b
         /\ Start(m, b) < w /\ w <= m[b]
         /\ Start(m, P + 1) <= R /\ R < m[P + 1]
<1>1. /\ Len(m) \in Nat /\ R \in Nat /\ w \in Nat /\ R < w /\ Newlined(m)
      /\ \A j \in 1..Len(m) : m[j] \in Nat /\ Start(m, j) \in Nat
  BY InOrder DEF AStream, Newlined
<1>2. b \in 1..Len(m) /\ Start(m, b) < w /\ w <= m[b]
  <2>1. PICK i \in 1..Len(m) : Start(m, i) < w /\ w <= m[i]
    BY DEF AStream, Inside
  <2>2. b = i
    BY <1>1, <2>1, BegunAt DEF AStream
  <2> QED BY <2>1, <2>2
<1>3. P \in 0..Len(m) /\ \A i \in 1..Len(m) : i <= P <=> m[i] <= R
  BY <1>1, PassedIs DEF AStream
<1>4. P < b
  BY <1>1, <1>2, <1>3
<1>5. P + 1 \in 1..Len(m) /\ ~(P + 1 <= P)
  BY <1>1, <1>2, <1>3, <1>4
<1>6. R < m[P + 1]
  BY <1>1, <1>3, <1>5
<1>7. Start(m, P + 1) <= R
  <2>1. CASE P = 0
    <3>1. P + 1 = 1
      BY <2>1
    <3> QED BY <1>1, <3>1 DEF Start
  <2>2. CASE P # 0
    <3>1. P \in 1..Len(m) /\ P <= P /\ P + 1 # 1 /\ P + 1 - 1 = P
      BY <1>3, <2>2
    <3> QED BY <1>3, <3>1 DEF Start
  <2> QED BY <2>1, <2>2
<1> QED BY <1>2, <1>3, <1>4, <1>6, <1>7

LEMMA PieceAt ==
  ASSUME NEW m, NEW R, NEW w, NEW P, NEW b, AStream(m, R, w, P, b), NEW i \in (P + 1)..b
  PROVE  /\ i \in 1..Len(m) /\ m[i] \in Nat /\ Start(m, i) \in Nat
         /\ From(m, R, i) \in Nat /\ From(m, R, i) < m[i] /\ From(m, R, i) < w
         /\ i = P + 1 => From(m, R, i) = R
         /\ i # P + 1 => From(m, R, i) = Start(m, i) /\ m[P + 1] <= Start(m, i)
         /\ i # b => m[i] < w
<1>1. /\ Len(m) \in Nat /\ R \in Nat /\ w \in Nat /\ R < w /\ Newlined(m)
      /\ P \in Nat /\ b \in 1..Len(m) /\ P < b
      /\ Start(m, b) < w /\ w <= m[b]
      /\ Start(m, P + 1) <= R /\ R < m[P + 1]
  BY StreamIs DEF AStream, Newlined
<1>2. /\ i \in 1..Len(m) /\ P + 1 \in 1..Len(m) /\ i \in Nat /\ b \in Nat
      /\ P + 1 <= i /\ i <= b
  BY <1>1
<1>3. /\ m[i] \in Nat /\ Start(m, i) \in Nat /\ Start(m, i) < m[i]
      /\ m[b] \in Nat /\ Start(m, b) \in Nat /\ m[P + 1] \in Nat
  BY <1>1, <1>2, InOrder DEF Newlined
<1>4. i # b => m[i] <= Start(m, b) /\ m[i] < w
  <2>1. CASE i # b
    <3>1. i < b
      BY <1>2, <2>1
    <3>2. m[i] <= Start(m, b)
      BY <1>1, <1>2, <3>1, InOrder
    <3> QED BY <1>1, <1>3, <3>2
  <2> QED BY <2>1
<1>5. Start(m, i) < w
  BY <1>1, <1>3, <1>4
<1>6. CASE i = P + 1
  <2>1. From(m, R, i) = R
    BY <1>1, <1>6 DEF From
  <2> QED BY <1>1, <1>2, <1>3, <1>4, <1>6, <2>1
<1>7. CASE i # P + 1
  <2>1. P + 1 < i
    BY <1>1, <1>2, <1>7
  <2>2. m[P + 1] <= Start(m, i)
    BY <1>1, <1>2, <2>1, InOrder
  <2>3. ~(Start(m, i) <= R)
    BY <1>1, <1>3, <2>2
  <2>4. From(m, R, i) = Start(m, i)
    BY <2>3 DEF From
  <2> QED BY <1>2, <1>3, <1>4, <1>5, <1>7, <2>2, <2>4
<1> QED BY <1>6, <1>7

LEMMA StreamType ==
  ASSUME NEW m, NEW R, NEW w, NEW P, NEW b, AStream(m, R, w, P, b)
  PROVE  /\ PiecesOf(m, R, w) \in Seq(PieceType)
         /\ Len(PiecesOf(m, R, w)) = b - P /\ PiecesOf(m, R, w) # << >>
         /\ \A k \in 1..(b - P) : PiecesOf(m, R, w)[k] = PieceOf(m, R, w, P + k)
<1> DEFINE s == PiecesOf(m, R, w)
<1>1. P \in Nat /\ b \in Nat /\ P < b /\ R \in Nat /\ w \in Nat /\ R < w
  BY StreamIs DEF AStream, Newlined
<1>2. s = [k \in 1..(b - P) |-> PieceOf(m, R, w, P + k)]
  BY <1>1 DEF AStream, PiecesOf
<1>3. ASSUME NEW k \in 1..(b - P) PROVE s[k] \in PieceType
  <2>1. P + k \in (P + 1)..b
    BY <1>1
  <2> DEFINE i == P + k
             l == Least(m[i], w) - From(m, R, i)
             n == m[i] <= w
  <2>2. l \in Nat
    <3>1. /\ m[i] \in Nat /\ From(m, R, i) \in Nat
          /\ From(m, R, i) < m[i] /\ From(m, R, i) < w
      BY <2>1, PieceAt
    <3> QED BY <1>1, <3>1 DEF Least
  <2>3. n \in BOOLEAN
    OBVIOUS
  <2>4. s[k] = Lines!Text(l, n)
    BY <1>2, PieceIs
  <2> HIDE DEF l, n, s
  <2>5. Lines!Text(l, n) \in PieceType
    BY <2>2, <2>3, TextIs
  <2> QED BY <2>4, <2>5
<1>4. b - P \in Nat /\ b - P # 0
  BY <1>1
<1>5. s \in Seq(PieceType) /\ Len(s) = b - P
  BY <1>2, <1>3, <1>4
<1>6. s # << >>
  BY <1>4, <1>5
<1>7. \A k \in 1..(b - P) : s[k] = PieceOf(m, R, w, P + k)
  BY <1>2
<1> QED BY <1>5, <1>6, <1>7

(* Two streams with the same pieces are the same. *)
LEMMA SameStream ==
  ASSUME NEW s \in Seq(PieceType), NEW t \in Seq(PieceType), Len(s) = Len(t),
         \A k \in 1..Len(s) : s[k] = t[k]
  PROVE  s = t
BY SeqEqual

(* rio_writen: what a write takes of message i comes behind the stream, as  *)
(* module Connection says.                                                  *)
LEMMA WriteMapped ==
  ASSUME NEW m, Newlined(m), NEW R \in Nat, NEW w \in Nat, R <= w, Inside(m, w),
         NEW i \in 1..Len(m), Start(m, i) <= w, w < m[i],
         NEW v \in Nat, w < v, v <= m[i]
  PROVE  PiecesOf(m, R, v)
           = Lines!Written(PiecesOf(m, R, w), Lines!Text(v - w, m[i] <= v))
<1> DEFINE P == PassedBy(m, R)
           s == PiecesOf(m, R, w)
           t == PiecesOf(m, R, v)
           n == m[i] <= v
           x == Lines!Text(v - w, n)
<1>1. /\ Len(m) \in Nat /\ i \in Nat
      /\ \A j \in 1..Len(m) : m[j] \in Nat /\ Start(m, j) \in Nat
  BY InOrder DEF Newlined
<1>2. Inside(m, v) /\ BegunBy(m, v) = i
  <2>1. Start(m, i) < v
    BY <1>1
  <2> QED BY <2>1, BegunAt DEF Inside
<1>3. AStream(m, R, v, P, i)
  BY <1>2 DEF AStream
<1>4. P \in Nat /\ P < i
  BY <1>3, StreamIs
<1>5. /\ t \in Seq(PieceType) /\ Len(t) = i - P
      /\ \A k \in 1..(i - P) : t[k] = PieceOf(m, R, v, P + k)
  BY <1>3, StreamType
<1>6. v - w \in Nat /\ n \in BOOLEAN
  OBVIOUS
<1>7. x \in PieceType /\ Lines!Size(x) = v - w /\ x.nl = n
  <2> HIDE DEF n
  <2> QED BY <1>6, TextIs
<1>8. t[i - P] = Lines!Text(v - From(m, R, i), n)
  <2>1. i - P \in 1..(i - P) /\ P + (i - P) = i
    BY <1>1, <1>4
  <2>2. t[i - P] = PieceOf(m, R, v, i)
    BY <1>5, <2>1
  <2>3. Least(m[i], v) = v
    BY <1>1 DEF Least
  <2> QED BY <2>2, <2>3, PieceIs
<1>9. CASE R = w
  <2>1. P = i - 1
    BY <1>9, PassedAt
  <2>2. s = << >>
    BY <1>9 DEF PiecesOf
  <2>3. i - P = 1 /\ From(m, R, i) = w
    BY <1>1, <1>9, <2>1 DEF From
  <2>4. t[1] = x
    BY <1>8, <2>3
  <2>5. Append(s, x) = <<x>>
    BY <2>2
  <2> HIDE DEF x, s, t
  <2>6. t = <<x>>
    <3>1. <<x>> \in Seq(PieceType) /\ Len(<<x>>) = 1 /\ <<x>>[1] = x
      BY <1>7
    <3>2. Len(t) = 1 /\ \A k \in 1..Len(t) : t[k] = <<x>>[k]
      BY <1>5, <2>3, <2>4, <3>1
    <3> QED BY <1>5, <3>1, <3>2, SameStream
  <2> QED BY <2>2, <2>5, <2>6 DEF Lines!Written, t, s, x
<1>10. CASE R < w
  <2> DEFINE b == BegunBy(m, w)
  <2>1. AStream(m, R, w, P, b)
    BY <1>10 DEF AStream
  <2>2. b \in 1..Len(m) /\ P < b /\ Start(m, b) < w /\ w <= m[b]
    BY <2>1, StreamIs
  <2>3. /\ s \in Seq(PieceType) /\ Len(s) = b - P /\ s # << >>
        /\ \A k \in 1..(b - P) : s[k] = PieceOf(m, R, w, P + k)
    BY <2>1, StreamType
  <2>4. b \in Nat /\ b - P \in Nat /\ b - P \in 1..(b - P) /\ P + (b - P) = b
    BY <1>1, <1>4, <2>2
  <2>5. s[b - P] = Lines!Text(w - From(m, R, b), m[b] <= w)
    <3>1. s[b - P] = PieceOf(m, R, w, b)
      BY <2>3, <2>4
    <3>2. Least(m[b], w) = w
      BY <1>1, <2>2 DEF Least
    <3> QED BY <3>1, <3>2, PieceIs
  <2>6. w - From(m, R, b) \in Nat /\ From(m, R, b) \in Nat
    <3>1. b \in (P + 1)..b
      BY <1>4, <2>2, <2>4
    <3>2. From(m, R, b) \in Nat /\ From(m, R, b) < w
      BY <2>1, <3>1, PieceAt
    <3> QED BY <3>2
  <2>7. Lines!Last(s) = s[b - P]
    BY <2>3 DEF Lines!Last
  <2>8. Lines!Last(s).nl <=> m[b] <= w
    <3> DEFINE y == m[b] <= w
    <3>1. y \in BOOLEAN
      OBVIOUS
    <3> HIDE DEF y
    <3>2. Lines!Text(w - From(m, R, b), y).nl = y
      BY <2>6, <3>1, TextIs
    <3>3. Lines!Last(s).nl = y
      BY <2>5, <2>7, <3>2 DEF y
    <3> QED BY <3>3 DEF y
  (* the pieces in front of the last one written keep what they are *)
  <2>9. ASSUME NEW k \in 1..(b - P), m[P + k] <= w PROVE t[k] = s[k]
    <3>1. P + k \in 1..Len(m)
      <4> HIDE DEF P, b
      <4>1. P + k \in 1..b
        BY <1>4, <2>4
      <4> QED BY <1>1, <2>2, <2>4, <4>1
    <3>2. b <= i
      <4>1. b <= BegunBy(m, v)
        <5>1. Start(m, b) < v
          BY <1>1, <2>2
        <5> QED BY <2>2, <5>1, BegunIs
      <4> QED BY <1>2, <4>1
    <3>3. k \in 1..(i - P)
      BY <1>1, <1>4, <2>4, <3>2
    <3>4. Least(m[P + k], w) = m[P + k] /\ Least(m[P + k], v) = m[P + k]
          /\ (m[P + k] <= w <=> m[P + k] <= v)
      BY <1>1, <2>9, <3>1 DEF Least
    <3>5. PieceOf(m, R, w, P + k) = PieceOf(m, R, v, P + k)
      BY <3>4 DEF PieceOf
    <3> QED BY <1>5, <2>3, <3>3, <3>5
  <2>10. CASE w = m[b]
    <3>1. i = b + 1
      <4>1. PassedBy(m, w) = i - 1
        BY PassedAt
      <4>2. b <= i - 1
        <5>1. m[b] <= w
          BY <1>1, <2>10
        <5> QED BY <2>2, <4>1, <5>1, PassedIs
      <4>3. ~(b + 1 < i)
        <5> SUFFICES ASSUME b + 1 < i PROVE FALSE
          OBVIOUS
        <5>1. b + 1 \in 1..Len(m) /\ b < b + 1
          BY <1>1, <2>4, <2>2
        <5>2. m[b] < m[b + 1]
          BY <2>2, <5>1, InOrder
        <5>3. m[b + 1] <= Start(m, i)
          BY <5>1, InOrder
        <5> QED BY <1>1, <2>2, <2>10, <5>1, <5>2, <5>3
      <4> QED BY <1>1, <2>4, <4>2, <4>3
    <3>2. From(m, R, i) = w
      <4>1. Start(m, i) = m[b]
        BY <2>2, <3>1, InOrder
      <4> QED BY <1>1, <1>10, <2>10, <4>1 DEF From
    <3>3. Lines!Written(s, x) = Append(s, x)
      BY <1>1, <2>8, <2>10 DEF Lines!Written
    <3>4. t[i - P] = x /\ i - P = (b - P) + 1
      BY <1>4, <1>8, <2>4, <3>1, <3>2
    <3>5. ASSUME NEW k \in 1..(b - P) PROVE t[k] = s[k]
      <4>1. P + k \in (P + 1)..b
        BY <1>4, <2>4
      <4>2. m[P + k] <= w
        <5>1. m[P + k] \in Nat /\ (P + k # b => m[P + k] < w)
          BY <2>1, <4>1, PieceAt
        <5>2. P + k = b => m[P + k] = w
          BY <2>10, Zenon
        <5> QED BY <5>1, <5>2
      <4> QED BY <2>9, <4>2
    <3> HIDE DEF s, t, x
    <3>6. /\ Append(s, x) \in Seq(PieceType) /\ Len(Append(s, x)) = (b - P) + 1
          /\ \A k \in 1..(b - P) : Append(s, x)[k] = s[k]
          /\ Append(s, x)[(b - P) + 1] = x
      BY <1>7, <2>3, AppendProperties
    <3>7. \A k \in 1..Len(t) : t[k] = Append(s, x)[k]
      <4> SUFFICES ASSUME NEW k \in 1..((b - P) + 1) PROVE t[k] = Append(s, x)[k]
        BY <1>5, <3>4
      <4>1. k \in 1..(b - P) \/ k = (b - P) + 1
        BY <2>4
      <4> QED BY <3>4, <3>5, <3>6, <4>1
    <3>8. t = Append(s, x)
      BY <1>5, <3>4, <3>6, <3>7, SameStream
    <3> QED BY <3>3, <3>8 DEF s, t, x
  <2>11. CASE w < m[b]
    <3>1. b = i
      <4>1. PassedBy(m, w) = i - 1 /\ PassedBy(m, w) = b - 1
        BY <1>1, <2>2, <2>11, PassedAt
      <4> QED BY <1>1, <2>4, <4>1
    <3> DEFINE l == w - From(m, R, i)
               y == m[b] <= w
               last == [Lines!Last(s) EXCEPT !.len = @ + Lines!Size(x), !.nl = x.nl]
               f == Lines!Front(s)
    <3>2. Lines!Written(s, x) = Append(f, last)
      <4>1. ~(m[b] <= w)
        BY <1>1, <2>2, <2>11
      <4>2. ~Lines!Last(s).nl
        BY <2>8, <4>1
      <4> QED BY <2>3, <4>2 DEF Lines!Written
    <3>3. last = Lines!Text(l + (v - w), n)
      <4>1. Lines!Last(s) = Lines!Text(l, y)
        BY <2>5, <2>7, <3>1
      <4>2. l \in Nat /\ y \in BOOLEAN
        BY <2>6, <3>1
      <4> DEFINE d == v - w
                 z == Lines!Text(l, y)
      <4>3. last = Longer(z, d, n)
        BY <1>7, <4>1 DEF Longer
      <4>4. d \in Nat /\ n \in BOOLEAN
        BY <1>6
      <4> HIDE DEF l, n, y, d
      <4>5. Longer(z, d, n) = Lines!Text(l + d, n)
        BY <4>2, <4>4, TextBecomes
      <4> QED BY <4>3, <4>5 DEF d
    <3>4. t[b - P] = last
      <4>1. l + (v - w) = v - From(m, R, i)
        BY <2>6, <3>1
      <4> QED BY <1>8, <3>1, <3>3, <4>1
    <3>5. ASSUME NEW k \in 1..((b - P) - 1) PROVE t[k] = s[k]
      <4>1. P + k \in (P + 1)..b /\ k \in 1..(b - P) /\ P + k # b
        BY <1>4, <2>4
      <4>2. m[P + k] \in Nat /\ m[P + k] < w
        BY <2>1, <4>1, PieceAt
      <4>3. m[P + k] <= w
        BY <4>2
      <4> QED BY <2>9, <4>1, <4>3
    <3> HIDE DEF s, t, x, last, f
    <3>6. f \in Seq(PieceType) /\ Len(f) = (b - P) - 1
          /\ \A k \in 1..((b - P) - 1) : f[k] = s[k]
      <4>1. f = SubSeq(s, 1, (b - P) - 1)
        BY <2>3 DEF f, Lines!Front
      <4>2. \A k \in 1..((b - P) - 1) : s[k] \in PieceType
        <5>1. \A k \in 1..((b - P) - 1) : k \in 1..Len(s)
          BY <2>3, <2>4
        <5> QED BY <2>3, <5>1, ElementOfSeq
      <4>3. 1 \in Int /\ (b - P) - 1 \in Int /\ (b - P) - 1 - 1 + 1 = (b - P) - 1
            /\ (IF 1 <= (b - P) - 1 THEN (b - P) - 1 - 1 + 1 ELSE 0) = (b - P) - 1
            /\ \A k \in 1..((b - P) - 1) : 1 + k - 1 = k
        BY <2>4
      <4> DEFINE c == (b - P) - 1
      <4> HIDE DEF c
      <4>4. /\ f \in Seq(PieceType) /\ Len(f) = IF 1 <= c THEN c - 1 + 1 ELSE 0
            /\ \A k \in 1..(c - 1 + 1) : f[k] = s[1 + k - 1]
        BY <4>1, <4>2, <4>3, SubSeqProperties DEF c
      <4> QED BY <4>3, <4>4 DEF c
    <3>7. last \in PieceType
      <4>1. i - P \in 1..Len(t)
        BY <1>5, <2>4, <3>1
      <4>2. t[i - P] \in PieceType
        BY <1>5, <4>1, ElementOfSeq
      <4> QED BY <3>1, <3>4, <4>2
    <3>8. /\ Append(f, last) \in Seq(PieceType) /\ Len(Append(f, last)) = b - P
          /\ \A k \in 1..((b - P) - 1) : Append(f, last)[k] = s[k]
          /\ Append(f, last)[b - P] = last
      <4>1. (b - P) - 1 + 1 = b - P
        BY <2>4
      <4> QED BY <3>6, <3>7, <4>1, AppendProperties
    <3>9. \A k \in 1..Len(t) : t[k] = Append(f, last)[k]
      <4> SUFFICES ASSUME NEW k \in 1..(b - P) PROVE t[k] = Append(f, last)[k]
        BY <1>5, <3>1
      <4>1. k \in 1..((b - P) - 1) \/ k = b - P
        BY <2>4
      <4> QED BY <3>4, <3>5, <3>8, <4>1
    <3>10. t = Append(f, last)
      BY <1>5, <3>1, <3>8, <3>9, SameStream
    <3> QED BY <3>2, <3>10 DEF s, t, x
  <2> QED BY <1>1, <2>2, <2>10, <2>11
<1> QED BY <1>9, <1>10

(* rio_readlineb returns the next L characters *)
ALineOf(m, R, w, L, ended) ==
  /\ Newlined(m) /\ R \in Nat /\ w \in Nat /\ Inside(m, w)
  /\ L \in Nat /\ L >= 1 /\ L <= MAX_LEN - 1 /\ R + L <= w
  /\ \A j \in 1..Len(m) : m[j] <= R \/ R + L <= m[j]
  /\ \/ \E j \in 1..Len(m) : m[j] = R + L
     \/ L = MAX_LEN - 1
     \/ ended /\ R + L = w

(* It ends where the first piece of the stream ends, or inside it. *)
LEMMA LineAt ==
  ASSUME NEW m, NEW R, NEW w, NEW L, NEW ended, ALineOf(m, R, w, L, ended),
         NEW P, P = PassedBy(m, R), NEW b, b = BegunBy(m, w),
         NEW d, d = Least(m[P + 1], w) - R
  PROVE  /\ AStream(m, R, w, P, b) /\ d \in Nat /\ L <= d
         /\ P + 1 \in 1..Len(m) /\ m[P + 1] \in Nat
         /\ Head(PiecesOf(m, R, w)) = Lines!Text(d, m[P + 1] <= w)
         /\ \/ L = d /\ m[P + 1] = R + L
            \/ L = d /\ m[P + 1] > R + L /\ R + L = w /\ (ended \/ L = MAX_LEN - 1)
            \/ L < d /\ m[P + 1] > R + L /\ R + L < w /\ L = MAX_LEN - 1
<1>1. /\ Newlined(m) /\ R \in Nat /\ w \in Nat /\ L \in Nat /\ L >= 1 /\ R + L <= w /\ R < w
      /\ Len(m) \in Nat /\ \A j \in 1..Len(m) : m[j] \in Nat
  BY DEF ALineOf, Newlined
<1>2. AStream(m, R, w, P, b)
  BY <1>1 DEF ALineOf, AStream
<1>3. /\ P \in Nat /\ b \in 1..Len(m) /\ P < b /\ R < m[P + 1]
  BY <1>2, StreamIs
<1>4. P + 1 \in 1..Len(m)
  BY <1>1, <1>3
<1>5. m[P + 1] \in Nat /\ R + L <= m[P + 1]
  <2>1. m[P + 1] \in Nat /\ (m[P + 1] <= R \/ R + L <= m[P + 1])
    BY <1>1, <1>4 DEF ALineOf
  <2> QED BY <1>1, <1>3, <2>1
<1>6. d \in Nat /\ L <= d
  BY <1>1, <1>5 DEF Least
<1>7. Head(PiecesOf(m, R, w)) = Lines!Text(d, m[P + 1] <= w)
  <2>1. 1 \in 1..(b - P)
    BY <1>1, <1>3
  <2>2. PiecesOf(m, R, w) # << >> /\ PiecesOf(m, R, w)[1] = PieceOf(m, R, w, P + 1)
        /\ PiecesOf(m, R, w) \in Seq(PieceType)
    BY <1>2, <2>1, StreamType
  <2>3. P + 1 \in (P + 1)..b
    BY <1>1, <1>3
  <2>4. From(m, R, P + 1) = R
    BY <1>2, <2>3, PieceAt
  <2>5. PieceOf(m, R, w, P + 1) = Lines!Text(d, m[P + 1] <= w)
    BY <2>4, PieceIs
  <2>6. Head(PiecesOf(m, R, w)) = PiecesOf(m, R, w)[1]
    BY <2>2
  <2> QED BY <2>2, <2>5, <2>6
<1>8. (\E j \in 1..Len(m) : m[j] = R + L) => m[P + 1] = R + L
  <2> SUFFICES ASSUME NEW j \in 1..Len(m), m[j] = R + L PROVE m[P + 1] = R + L
    OBVIOUS
  <2>1. ~(j <= P)
    <3>1. j <= P <=> m[j] <= R
      BY <1>1, PassedIs
    <3> QED BY <1>1, <3>1
  <2>2. P + 1 = j \/ P + 1 < j
    BY <1>1, <1>3, <2>1
  <2>3. m[P + 1] <= m[j]
    <3>1. CASE P + 1 < j
      BY <1>1, <1>4, <1>5, <3>1, InOrder
    <3> QED BY <1>5, <2>2, <3>1
  <2> QED BY <1>1, <1>5, <2>3
<1>9. CASE m[P + 1] = R + L
  <2>1. L = d
    BY <1>1, <1>9 DEF Least
  <2> QED BY <1>2, <1>4, <1>5, <1>6, <1>7, <1>9, <2>1
<1>10. CASE m[P + 1] # R + L
  <2>1. m[P + 1] > R + L /\ (L = MAX_LEN - 1 \/ (ended /\ R + L = w))
    BY <1>1, <1>5, <1>8, <1>10 DEF ALineOf
  <2>2. CASE R + L = w
    <3>1. L = d
      BY <1>1, <1>5, <2>1, <2>2 DEF Least
    <3> QED BY <1>2, <1>4, <1>5, <1>6, <1>7, <2>1, <2>2, <3>1
  <2>3. CASE R + L # w
    <3>1. R + L < w /\ L = MAX_LEN - 1
      BY <1>1, <2>1, <2>3
    <3>2. L < d
      BY <1>1, <1>5, <2>1, <3>1 DEF Least
    <3> QED BY <1>2, <1>4, <1>5, <1>6, <1>7, <2>1, <3>1, <3>2
  <2> QED BY <2>2, <2>3
<1> QED BY <1>9, <1>10

(* The pieces behind the first keep what they are when more is returned. *)
LEMMA TailIs ==
  ASSUME NEW m, NEW R, NEW w, NEW P, NEW b, AStream(m, R, w, P, b),
         NEW Q \in Nat, R < Q, Q < w, Q <= m[P + 1],
         NEW p, p = PassedBy(m, Q)
  PROVE  /\ Tail(PiecesOf(m, R, w)) \in Seq(PieceType)
         /\ Len(Tail(PiecesOf(m, R, w))) = (b - P) - 1
         /\ AStream(m, Q, w, p, b)
         /\ \A k \in 1..((b - P) - 1) :
              Tail(PiecesOf(m, R, w))[k] = PieceOf(m, Q, w, (P + 1) + k)
<1> DEFINE s == PiecesOf(m, R, w)
<1>1. /\ P \in Nat /\ b \in Nat /\ P < b /\ R \in Nat /\ w \in Nat
  BY StreamIs DEF AStream, Newlined
<1>2. AStream(m, Q, w, p, b)
  BY DEF AStream
<1>3. /\ s \in Seq(PieceType) /\ s # << >> /\ Len(s) = b - P
      /\ \A k \in 1..(b - P) : s[k] = PieceOf(m, R, w, P + k)
  BY StreamType
<1> HIDE DEF s
<1>4. /\ Tail(s) \in Seq(PieceType) /\ Len(Tail(s)) = (b - P) - 1
      /\ \A k \in 1..((b - P) - 1) : Tail(s)[k] = s[k + 1]
  BY <1>3, HeadTailProperties
<1>5. ASSUME NEW k \in 1..((b - P) - 1)
      PROVE  Tail(s)[k] = PieceOf(m, Q, w, (P + 1) + k)
  <2> DEFINE i == (P + 1) + k
  <2>1. k + 1 \in 1..(b - P) /\ P + (k + 1) = i /\ i \in (P + 1)..b /\ i # P + 1
    BY <1>1
  <2>2. From(m, R, i) = Start(m, i) /\ m[P + 1] <= Start(m, i) /\ Start(m, i) \in Nat
    BY <2>1, PieceAt
  <2>3. m[P + 1] \in Nat
    <3>1. P + 1 \in (P + 1)..b
      BY <1>1
    <3> QED BY <3>1, PieceAt
  <2>4. From(m, Q, i) = Start(m, i)
    BY <2>2, <2>3 DEF From
  <2>5. PieceOf(m, R, w, i) = PieceOf(m, Q, w, i)
    BY <2>2, <2>4, PieceIs
  <2> QED BY <1>3, <1>4, <2>1, <2>5
<1> QED BY <1>2, <1>4, <1>5 DEF s

(* rio_readlineb: the line that is returned is the one module Connection    *)
(* cuts from the stream, which is then what Connection leaves of it.        *)
LEMMA ReadMapped ==
  ASSUME NEW m, NEW R, NEW w, NEW L, NEW ended \in BOOLEAN, ALineOf(m, R, w, L, ended)
  PROVE  /\ Lines!Readable(PiecesOf(m, R, w), ended)
         /\ Lines!Size(Lines!Received(PiecesOf(m, R, w))) = L
         /\ Lines!Remaining(PiecesOf(m, R, w)) = PiecesOf(m, R + L, w)
<1> DEFINE P == PassedBy(m, R)
           b == BegunBy(m, w)
           Q == R + L
           s == PiecesOf(m, R, w)
           t == PiecesOf(m, Q, w)
           d == Least(m[P + 1], w) - R
           n == m[P + 1] <= w
           h == Lines!Text(d, n)
<1>1. /\ AStream(m, R, w, P, b) /\ d \in Nat /\ L <= d
      /\ P + 1 \in 1..Len(m) /\ m[P + 1] \in Nat /\ Head(s) = h
      /\ \/ L = d /\ m[P + 1] = Q
         \/ L = d /\ m[P + 1] > Q /\ Q = w /\ (ended \/ L = MAX_LEN - 1)
         \/ L < d /\ m[P + 1] > Q /\ Q < w /\ L = MAX_LEN - 1
  BY LineAt
<1>2. /\ R \in Nat /\ w \in Nat /\ L \in Nat /\ L >= 1 /\ L <= MAX_LEN - 1 /\ Q <= w
      /\ Q \in Nat /\ R < Q /\ R < w /\ R + L = Q /\ Newlined(m) /\ Inside(m, w)
  BY DEF ALineOf
<1>3. /\ P \in Nat /\ b \in 1..Len(m) /\ P < b /\ b \in Nat
      /\ Start(m, b) < w /\ w <= m[b] /\ Start(m, P + 1) <= R
  BY <1>1, StreamIs DEF Newlined
<1>4. s # << >> /\ s \in Seq(PieceType) /\ Len(s) = b - P
  BY <1>1, StreamType
<1>5. n \in BOOLEAN
  OBVIOUS
<1> HIDE DEF P, b, d, n, s, t, Q
<1>6. /\ h \in PieceType /\ h.len = d /\ h.nl = n
      /\ Lines!Size(h) = d /\ Lines!Prefix(h) = 0
  BY <1>1, <1>5, TextIs
<1>7. Lines!Readable(s, ended)
  <2>1. n \/ ended \/ L = MAX_LEN - 1
    <3>1. Q = m[P + 1] => n
      BY <1>1, <1>2 DEF n
    <3> QED BY <1>1, <3>1
  <2>2. L = MAX_LEN - 1 => d >= MAX_LEN - 1
    BY <1>1, <1>2, SizesAre
  <2> QED BY <1>1, <1>4, <1>6, <2>1, <2>2 DEF Lines!Readable, Lines!ReadLimit
<1>8. CASE L = d
  <2>1. d <= Lines!ReadLimit
    BY <1>2, <1>8 DEF Lines!ReadLimit
  <2>2. Lines!Received(s) = h
    BY <1>1, <1>6, <2>1 DEF Lines!Received
  <2>3. Lines!Remaining(s) = Tail(s)
    BY <1>1, <1>6, <2>1 DEF Lines!Remaining
  <2>4. Tail(s) = t
    <3>1. CASE Q = w
      <4>1. b = P + 1
        <5>1. Start(m, P + 1) < w /\ w <= m[P + 1]
          <6>1. Start(m, P + 1) \in Nat
            BY <1>1, <1>2, InOrder
          <6> QED BY <1>1, <1>2, <1>3, <3>1, <6>1
        <5> QED BY <1>1, <1>2, <5>1, BegunAt DEF b
      <4>2. t = << >>
        BY <3>1 DEF t, PiecesOf
      <4>3. Len(s) = 1
        BY <1>3, <1>4, <4>1
      <4>4. Tail(s) = << >>
        <5>1. Tail(s) \in Seq(PieceType) /\ Len(Tail(s)) = 0
          <6>1. Tail(s) \in Seq(PieceType) /\ Len(Tail(s)) = Len(s) - 1
            BY <1>4, HeadTailProperties
          <6> QED BY <4>3, <6>1
        <5> QED BY <5>1, EmptySeq
      <4> QED BY <4>2, <4>4
    <3>2. CASE Q # w
      <4>1. Q < w /\ m[P + 1] = Q
        BY <1>1, <1>2, <1>8, <3>2
      <4> DEFINE p == PassedBy(m, Q)
      <4>2. /\ Tail(s) \in Seq(PieceType) /\ Len(Tail(s)) = (b - P) - 1
            /\ AStream(m, Q, w, p, b)
            /\ \A k \in 1..((b - P) - 1) : Tail(s)[k] = PieceOf(m, Q, w, (P + 1) + k)
        <5>1. Q <= m[P + 1]
          BY <1>2, <4>1
        <5> QED BY <1>1, <1>2, <4>1, <5>1, TailIs DEF s
      <4>3. p = P + 1
        <5>1. p \in Nat /\ p \in 0..Len(m) /\ \A i \in 1..Len(m) : i <= p <=> m[i] <= Q
          <6>1. Len(m) \in Nat
            BY <1>2 DEF Newlined
          <6>2. p \in 0..Len(m) /\ \A i \in 1..Len(m) : i <= p <=> m[i] <= Q
            BY <1>2, PassedIs
          <6> QED BY <6>1, <6>2
        <5>2. P + 1 <= p
          BY <1>1, <1>2, <4>1, <5>1
        <5>3. ~(P + 1 < p)
          <6> SUFFICES ASSUME P + 1 < p PROVE FALSE
            OBVIOUS
          <6>1. p \in 1..Len(m) /\ m[p] <= Q
            BY <1>3, <5>1
          <6>2. m[P + 1] < m[p]
            BY <1>1, <1>2, <6>1, InOrder
          <6>3. m[p] \in Nat
            BY <1>2, <6>1 DEF Newlined
          <6> QED BY <1>1, <1>2, <4>1, <6>1, <6>2, <6>3
        <5> QED BY <1>3, <5>1, <5>2, <5>3
      <4> HIDE DEF p
      <4>4. /\ t \in Seq(PieceType) /\ Len(t) = b - p
            /\ \A k \in 1..(b - p) : t[k] = PieceOf(m, Q, w, p + k)
        BY <4>2, StreamType DEF t
      <4>5. (b - P) - 1 = b - p
        BY <1>3, <4>3
      <4>6. \A k \in 1..Len(t) : t[k] = Tail(s)[k]
        BY <4>2, <4>3, <4>4, <4>5
      <4> QED BY <4>2, <4>4, <4>5, <4>6, SameStream
    <3> QED BY <3>1, <3>2
  <2> QED BY <1>6, <1>7, <1>8, <2>2, <2>3, <2>4 DEF s, t, Q
<1>9. CASE L # d
  <2>1. L < d /\ m[P + 1] > Q /\ Q < w /\ L = Lines!ReadLimit
    BY <1>1, <1>9 DEF Lines!ReadLimit
  <2>2. ~(Lines!Size(Head(s)) <= Lines!ReadLimit)
    BY <1>1, <1>2, <1>6, <2>1
  <2>3. Lines!ReadLimit - Lines!Prefix(Head(s)) = L
    BY <1>1, <1>2, <1>6, <2>1
  <2>4. Lines!Size(Lines!Received(s)) = L
    <3>1. Lines!Received(s) = Cut(h, L)
      BY <1>1, <2>2, <2>3 DEF Lines!Received, Cut
    <3>2. Cut(h, L) = Lines!Text(L, FALSE)
      BY <1>1, <1>2, <1>5, TextBecomes
    <3>3. Lines!Size(Lines!Text(L, FALSE)) = L
      BY <1>2, TextIs
    <3> QED BY <3>1, <3>2, <3>3
  <2> DEFINE x == Lines!Text(d - L, n)
  <2>5. x \in PieceType /\ d - L \in Nat
    <3>1. d - L \in Nat
      BY <1>1, <1>2
    <3> QED BY <1>5, <3>1, TextIs
  <2>6. Lines!Remaining(s) = <<x>> \o Tail(s)
    <3>1. Lines!Size(Head(s)) - Lines!ReadLimit = d - L
      BY <1>1, <1>6, <2>1
    <3>2. Lines!Remaining(s) = <<Rest(h, d - L)>> \o Tail(s)
      BY <1>1, <2>2, <3>1 DEF Lines!Remaining, Rest
    <3>3. Rest(h, d - L) = x
      BY <1>1, <1>5, <2>5, TextBecomes
    <3> QED BY <3>2, <3>3
  <2>7. PassedBy(m, Q) = P
    <3>1. Start(m, P + 1) <= Q /\ Q < m[P + 1]
      <4>1. Start(m, P + 1) \in Nat
        BY <1>1, <1>2, InOrder
      <4> QED BY <1>1, <1>2, <1>3, <2>1, <4>1
    <3>2. PassedBy(m, Q) = (P + 1) - 1
      BY <1>1, <1>2, <3>1, PassedAt
    <3> QED BY <1>3, <3>2
  <2>8. /\ Tail(s) \in Seq(PieceType) /\ Len(Tail(s)) = (b - P) - 1
        /\ AStream(m, Q, w, P, b)
        /\ \A k \in 1..((b - P) - 1) : Tail(s)[k] = PieceOf(m, Q, w, (P + 1) + k)
    <3>1. Q <= m[P + 1]
      BY <1>1, <1>2, <2>1
    <3> QED BY <1>1, <1>2, <2>1, <2>7, <3>1, TailIs DEF s
  <2>9. /\ t \in Seq(PieceType) /\ Len(t) = b - P
        /\ \A k \in 1..(b - P) : t[k] = PieceOf(m, Q, w, P + k)
    BY <2>8, StreamType DEF t
  <2>10. t[1] = x
    <3>1. 1 \in 1..(b - P) /\ P + 1 \in (P + 1)..b
      BY <1>3
    <3>2. From(m, Q, P + 1) = Q
      BY <2>8, <3>1, PieceAt
    <3>3. Least(m[P + 1], w) - Q = d - L
      <4>1. Least(m[P + 1], w) \in Nat
        BY <1>1, <1>2 DEF Least
      <4> QED BY <1>2, <4>1 DEF d
    <3> QED BY <2>9, <3>1, <3>2, <3>3, PieceIs DEF n
  <2> HIDE DEF x
  <2> DEFINE u == <<x>> \o Tail(s)
  <2>11. /\ u \in Seq(PieceType) /\ Len(u) = b - P /\ u[1] = x
         /\ \A k \in 1..((b - P) - 1) : u[k + 1] = Tail(s)[k]
    <3>1. <<x>> \in Seq(PieceType) /\ Len(<<x>>) = 1 /\ <<x>>[1] = x
      BY <2>5
    <3> DEFINE g == <<x>>
               f == Tail(s)
    <3>2. g \in Seq(PieceType) /\ f \in Seq(PieceType) /\ Len(g) = 1 /\ Len(f) = (b - P) - 1
          /\ g[1] = x
      BY <2>8, <3>1
    <3>3. u = g \o f
      OBVIOUS
    <3> HIDE DEF g, f, u
    <3>4. /\ g \o f \in Seq(PieceType) /\ Len(g \o f) = Len(g) + Len(f)
          /\ \A i \in 1..(Len(g) + Len(f)) :
               (g \o f)[i] = IF i <= Len(g) THEN g[i] ELSE f[i - Len(g)]
      BY <3>2, ConcatProperties
    <3>5. /\ 1 + ((b - P) - 1) = b - P /\ 1 \in 1..(b - P)
          /\ \A k \in 1..((b - P) - 1) :
               k + 1 \in 1..(b - P) /\ ~(k + 1 <= 1) /\ (k + 1) - 1 = k
      BY <1>3
    <3> QED BY <3>2, <3>3, <3>4, <3>5 DEF f
  <2> HIDE DEF u
  <2>12. \A k \in 1..Len(t) : t[k] = u[k]
    <3> SUFFICES ASSUME NEW k \in 1..(b - P) PROVE t[k] = u[k]
      BY <2>9
    <3>1. CASE k = 1
      BY <2>10, <2>11, <3>1
    <3>2. CASE k # 1
      <4>1. k - 1 \in 1..((b - P) - 1) /\ (k - 1) + 1 = k /\ (P + 1) + (k - 1) = P + k
        BY <1>3, <3>2
      <4>2. u[(k - 1) + 1] = PieceOf(m, Q, w, (P + 1) + (k - 1))
        BY <2>8, <2>11, <4>1
      <4> QED BY <2>9, <4>1, <4>2
    <3> QED BY <3>1, <3>2
  <2>13. u = t
    BY <2>9, <2>11, <2>12, SameStream
  <2> QED BY <1>7, <2>4, <2>6, <2>13 DEF s, t, u, Q
<1> QED BY <1>8, <1>9
-----------------------------------------------------------------------------
(* the lengths of the lines, when e says where they end *)
LinesOf(e) == [i \in DOMAIN e |-> e[i] - Start(e, i)]

LEMMA LinesAre ==
  /\ [i \in DOMAIN ends |-> ends[i] - LineStart(i)] = LinesOf(ends)
  /\ [i \in DOMAIN ends |-> ends[i] - LineStart(i)]' = LinesOf(ends')
BY DEF LinesOf, LineStart, Start

LEMMA LinesType ==
  ASSUME NEW e \in Seq(Chars)
  PROVE  /\ LinesOf(e) \in Seq(Int) /\ Len(LinesOf(e)) = Len(e)
         /\ Start(e, Len(e) + 1) \in Int
         /\ \A i \in 1..Len(e) : LinesOf(e)[i] = e[i] - Start(e, i)
<1>1. /\ Len(e) \in Nat /\ DOMAIN e = 1..Len(e)
      /\ \A i \in 1..Len(e) : e[i] \in Int
  <2>1. \A i \in 1..Len(e) : e[i] \in Chars
    BY ElementOfSeq
  <2> QED BY <2>1, SizesAre DEF Chars
<1>2. \A i \in 1..(Len(e) + 1) : Start(e, i) \in Int
  <2> SUFFICES ASSUME NEW i \in 1..(Len(e) + 1) PROVE Start(e, i) \in Int
    OBVIOUS
  <2>1. i = 1 \/ i - 1 \in 1..Len(e)
    BY <1>1
  <2> QED BY <1>1, <2>1 DEF Start
<1>3. \A i \in 1..Len(e) : e[i] - Start(e, i) \in Int
  BY <1>1, <1>2
<1>4. LinesOf(e) = [i \in 1..Len(e) |-> e[i] - Start(e, i)]
  BY <1>1 DEF LinesOf
<1>5. Len(e) + 1 \in 1..(Len(e) + 1)
  BY <1>1
<1> QED BY <1>1, <1>2, <1>3, <1>4, <1>5

LEMMA LinesAppend ==
  ASSUME NEW e \in Seq(Chars), NEW x \in Chars
  PROVE  LinesOf(Append(e, x)) = Append(LinesOf(e), x - Start(e, Len(e) + 1))
<1> DEFINE f == Append(e, x)
           n == Len(e)
           y == x - Start(e, n + 1)
           g == Append(LinesOf(e), y)
<1>1. /\ n \in Nat /\ f \in Seq(Chars) /\ Len(f) = n + 1
      /\ \A i \in 1..n : f[i] = e[i]
      /\ f[n + 1] = x
  BY AppendProperties
<1>2. /\ LinesOf(e) \in Seq(Int) /\ Len(LinesOf(e)) = n /\ Start(e, n + 1) \in Int
      /\ \A i \in 1..n : LinesOf(e)[i] = e[i] - Start(e, i)
  BY LinesType
<1> HIDE DEF f
<1>3. /\ LinesOf(f) \in Seq(Int) /\ Len(LinesOf(f)) = n + 1
      /\ \A i \in 1..(n + 1) : LinesOf(f)[i] = f[i] - Start(f, i)
  BY <1>1, LinesType
<1>4. y \in Int
  BY <1>2, SizesAre DEF Chars
<1> HIDE DEF y
<1>5. /\ g \in Seq(Int) /\ Len(g) = n + 1
      /\ \A i \in 1..n : g[i] = LinesOf(e)[i]
      /\ g[n + 1] = y
  BY <1>2, <1>4, AppendProperties
<1> HIDE DEF g, n
<1>6. ASSUME NEW i \in 1..(n + 1) PROVE Start(f, i) = Start(e, i)
  <2>1. i = 1 \/ i - 1 \in 1..n
    BY <1>1
  <2> QED BY <1>1, <2>1 DEF Start
<1>7. \A i \in 1..(n + 1) : LinesOf(f)[i] = g[i]
  <2> SUFFICES ASSUME NEW i \in 1..(n + 1) PROVE LinesOf(f)[i] = g[i]
    OBVIOUS
  <2>1. i \in 1..n \/ i = n + 1
    BY <1>1
  <2>2. CASE i \in 1..n
    BY <1>1, <1>2, <1>3, <1>5, <1>6, <2>2
  <2>3. CASE i = n + 1
    BY <1>1, <1>3, <1>5, <1>6, <2>3 DEF y
  <2> QED BY <2>1, <2>2, <2>3
<1>8. LinesOf(f) = g
  BY <1>3, <1>5, <1>7, SeqEqual
<1> QED BY <1>8 DEF f, g, y, n

LEMMA MessagesOf ==
  ASSUME Inv
  PROVE  Newlined(messages) /\ Inside(messages, written)
<1>1. /\ messages \in Seq(1..MaxLength) /\ Increasing(messages)
      /\ DOMAIN messages = 1..Len(messages) /\ Len(messages) \in Nat
  BY TypeIs DEF Inv, TypeInv, WriterType
<1>2. 1..MaxLength \subseteq Nat
  BY SizesAre
<1>3. messages \in Seq(Nat)
  BY <1>1, <1>2, SeqMonotonic
<1>4. \A i \in 1..Len(messages) : messages[i] \in Nat /\ messages[i] >= 1
  BY MessagesAre DEF Inv
<1> QED BY <1>1, <1>3, <1>4 DEF Newlined, Inside, Inv, InMessage, Begin, Start

LEMMA Gain ==
  ASSUME NEW a \in Nat, NEW c \in Nat, a < c
  PROVE  c - a \in Nat /\ c - a >= 1
OBVIOUS

LEMMA WriteStep ==
  ASSUME Inv, rio_writen
  PROVE  Lines!Write
<1> DEFINE R == Len(text)
<1>1. /\ ~closed /\ UNCHANGED <<messages, closed, text, ends>>
  BY DEF rio_writen, rio
<1>2. PICK i \in DOMAIN messages :
        /\ Begin(i) <= written /\ written < messages[i]
        /\ written' \in (written + 1)..messages[i]
  BY DEF rio_writen
<1>3. /\ i \in 1..Len(messages) /\ written \in Nat /\ R \in Nat
      /\ messages[i] \in Nat /\ messages[i] <= MaxLength
  <2>1. i \in 1..Len(messages) /\ written \in Nat /\ R \in Nat
    BY <1>2, TypeIs DEF Inv
  <2> QED BY <2>1, MessagesAre DEF Inv
<1>4. R <= written
  <2>1. /\ Len(usrbuf) \in Nat /\ Buffered \in Nat /\ fetched \in Nat
        /\ R + Len(usrbuf) + Buffered = fetched /\ fetched <= written
    BY TypeIs DEF Inv, Placed
  <2> QED BY <1>3, <2>1
<1>5. Start(messages, i) <= written
  BY <1>2 DEF Start, Begin
<1>6. written' \in Nat /\ written < written' /\ written' <= messages[i]
  BY <1>2, <1>3
<1> DEFINE n == messages[i] <= written'
           l == written' - written
<1>7. PiecesOf(messages, R, written')
        = Lines!Written(PiecesOf(messages, R, written), Lines!Text(l, n))
  BY <1>2, <1>3, <1>4, <1>5, <1>6, MessagesOf, WriteMapped
<1>8. Pieces' = Lines!Written(Pieces, Lines!Text(l, n))
  BY <1>1, <1>7, PiecesAre
<1>9. l \in 1..MaxLength
  <2>1. l \in Nat /\ l >= 1
    BY <1>3, <1>6, Gain, Zenon
  <2>2. l <= messages[i]
    BY <1>3, <1>6
  <2>3. messages[i] \in Nat /\ messages[i] <= MaxLength /\ MaxLength \in Nat
    BY <1>3, SizesAre
  <2> HIDE DEF l
  <2> QED BY <2>1, <2>2, <2>3
<1>10. n \in BOOLEAN
  OBVIOUS
<1>11. UNCHANGED [j \in DOMAIN ends |-> ends[j] - LineStart(j)]
  BY <1>1, LinesAre
<1> HIDE DEF l, n
<1> QED BY <1>1, <1>8, <1>9, <1>10, <1>11 DEF Lines!Write

LEMMA ReturnStep ==
  ASSUME Inv, NEW line, ALine(line), Returns(line), Len(text) + Len(line) <= written,
         UNCHANGED <<messages, written, closed>>,
         ALineOf(messages, Len(text), written, Len(line), closed)
  PROVE  Lines!Receive
<1> DEFINE R == Len(text)
           L == Len(line)
<1>1. R \in Nat /\ L \in Nat /\ written \in Nat /\ written <= MaxLength
  <2>1. R \in Nat /\ written \in Nat
    BY TypeIs DEF Inv
  <2>2. L \in Nat
    BY DEF ALine
  <2> QED BY <2>1, <2>2, SizesAre DEF Inv, TypeInv, WriterType, Chars
<1>2. /\ text \in Seq(Chars) /\ ends \in Seq(Chars) /\ line \in Seq(Chars) /\ closed \in BOOLEAN
  BY DEF Inv, TypeInv, WriterType, ReaderType, ALine
<1>3. R + L \in Chars
  BY <1>1, SizesAre DEF Chars
<1>4. Len(text') = R + L /\ ends' = Append(ends, R + L)
  BY <1>2, ConcatProperties DEF Returns
<1>5. /\ Lines!Readable(Pieces, closed)
      /\ Lines!Size(Lines!Received(Pieces)) = L
      /\ Pieces' = Lines!Remaining(Pieces)
  <2>1. /\ Lines!Readable(PiecesOf(messages, R, written), closed)
        /\ Lines!Size(Lines!Received(PiecesOf(messages, R, written))) = L
        /\ Lines!Remaining(PiecesOf(messages, R, written)) = PiecesOf(messages, R + L, written)
    BY <1>2, ReadMapped
  <2> QED BY <1>4, <2>1, PiecesAre
<1>6. LinesOf(ends') = Append(LinesOf(ends), L)
  <2>1. LinesOf(ends') = Append(LinesOf(ends), (R + L) - Start(ends, Len(ends) + 1))
    BY <1>2, <1>3, <1>4, LinesAppend
  <2>2. Start(ends, Len(ends) + 1) = R
    BY DEF Inv, Divided, LineStart, Start
  <2>3. (R + L) - R = L
    BY <1>1
  <2> QED BY <2>1, <2>2, <2>3
<1> QED BY <1>5, <1>6, LinesAre DEF Lines!Receive

(* No newline is in the text before the next character of the line. *)
LEMMA NoneBefore ==
  ASSUME Inv, NEW j \in 1..Len(messages)
  PROVE  messages[j] <= Len(text) \/ Len(text) + Len(usrbuf) + 1 <= messages[j]
<1> DEFINE n == Len(text)
           u == Len(usrbuf)
           c == messages[j]
<1>1. n \in Nat /\ u \in Nat /\ c \in Nat
  BY TypeIs, MessagesAre DEF Inv
<1>2. c \in Newlines
  BY TypeIs DEF Newlines, Inv
<1>3. \A i \in 1..u : usrbuf[i] = n + i /\ usrbuf[i] \notin Newlines
  BY DEF Inv, Placed, Unfinished
<1> HIDE DEF n, u, c
<1>4. SUFFICES ASSUME n < c, c < n + u + 1 PROVE FALSE
  BY <1>1 DEF n, u, c
<1>5. c - n \in 1..u /\ n + (c - n) = c
  BY <1>1, <1>4
<1> QED BY <1>2, <1>3, <1>5

LEMMA TakeStep ==
  ASSUME Inv, TakeChar
  PROVE  \/ Lines!Receive
         \/ UNCHANGED <<Pieces, [i \in DOMAIN ends |-> ends[i] - LineStart(i)], closed>>
<1> DEFINE line == Append(usrbuf, rio_buf[rio_bufptr])
           n == Len(text)
           u == Len(usrbuf)
<1>1. UNCHANGED <<messages, written, closed, fetched>>
  BY DEF TakeChar
<1>2. ALine(line) /\ Inv' /\ Len(line) = u + 1
  BY InvTakes
<1>3. CASE ~LineFull(line)
  <2>1. UNCHANGED <<text, ends>>
    BY <1>3 DEF TakeChar
  <2> QED BY <1>1, <2>1, PiecesAre, LinesAre
<1>4. CASE LineFull(line)
  <2>1. Returns(line)
    BY <1>4 DEF TakeChar
  <2>2. /\ n \in Nat /\ u \in Nat /\ written \in Nat /\ fetched \in Nat
        /\ u < MAX_LEN - 1 /\ fetched <= written
    BY TypeIs DEF Inv, Unfinished, Placed
  <2>3. n + (u + 1) <= written
    <3>1. rio_cnt > 0 /\ rio_cnt \in Int
      BY TypeIs DEF TakeChar, Inv
    <3>2. n + u + rio_cnt = fetched
      BY <3>1 DEF Inv, Placed, Buffered
    <3> QED BY <2>2, <3>1, <3>2
  <2> HIDE DEF line
  <2>4. Last(line) = n + (u + 1)
    <3>1. u + 1 \in 1..(u + 1)
      BY <2>2
    <3> QED BY <1>2, <3>1 DEF ALine, Last
  <2>5. (\E j \in 1..Len(messages) : messages[j] = n + (u + 1)) \/ u + 1 = MAX_LEN - 1
    <3>1. DOMAIN messages = 1..Len(messages)
      BY TypeIs DEF Inv
    <3> QED BY <1>2, <1>4, <2>4, <3>1 DEF LineFull, Newlines
  <2>6. ALineOf(messages, n, written, Len(line), closed)
    <3>1. \A j \in 1..Len(messages) : messages[j] <= n \/ n + (u + 1) <= messages[j]
      <4> SUFFICES ASSUME NEW j \in 1..Len(messages)
                   PROVE  messages[j] <= n \/ n + (u + 1) <= messages[j]
        OBVIOUS
      <4>1. messages[j] <= n \/ n + u + 1 <= messages[j]
        BY NoneBefore
      <4>2. n + u + 1 = n + (u + 1)
        BY <2>2
      <4> QED BY <4>1, <4>2
    <3>2. u + 1 \in Nat /\ u + 1 >= 1 /\ u + 1 <= MAX_LEN - 1
      BY <2>2, SizesAre
    <3> QED BY <1>2, <2>2, <2>3, <2>5, <3>1, <3>2, MessagesOf DEF ALineOf
  <2> QED BY <1>1, <1>2, <2>1, <2>3, <2>6, ReturnStep
<1> QED BY <1>3, <1>4

LEMMA EndStep ==
  ASSUME Inv, EndOfFile
  PROVE  Lines!Receive \/ Lines!ReceiveEnd
<1> DEFINE n == Len(text)
           u == Len(usrbuf)
<1>1. /\ UNCHANGED <<messages, written, closed, fetched>>
      /\ rio_cnt <= 0 /\ closed /\ fetched = written /\ Returns(usrbuf)
  BY DEF EndOfFile, Refills
<1>2. /\ n \in Nat /\ u \in Nat /\ written \in Nat /\ u < MAX_LEN - 1 /\ ALine(usrbuf)
  BY TypeIs, InvEnd DEF Inv, Unfinished
<1>3. n + u = written
  <2>1. Buffered = 0
    <3>1. rio_cnt \in Int
      BY TypeIs DEF Inv
    <3> QED BY <1>1, <3>1 DEF Buffered
  <2>2. n + u + Buffered = written
    BY <1>1 DEF Inv, Placed
  <2> QED BY <1>2, <2>1, <2>2
<1>4. CASE u # 0
  <2>1. ALineOf(messages, n, written, u, closed)
    <3>1. \A j \in 1..Len(messages) : messages[j] <= n \/ n + u <= messages[j]
      <4> SUFFICES ASSUME NEW j \in 1..Len(messages)
                   PROVE  messages[j] <= n \/ n + u <= messages[j]
        OBVIOUS
      <4>1. messages[j] <= n \/ n + u + 1 <= messages[j]
        BY NoneBefore
      <4>2. messages[j] \in Nat
        BY MessagesAre DEF Inv
      <4> QED BY <1>2, <4>1, <4>2
    <3>2. u >= 1 /\ u <= MAX_LEN - 1 /\ n + u <= written
      BY <1>2, <1>3, <1>4, SizesAre
    <3> QED BY <1>1, <1>2, <1>3, <3>1, <3>2, MessagesOf DEF ALineOf
  <2>2. n + u <= written
    BY <1>2, <1>3
  <2> QED BY <1>1, <1>2, <2>1, <2>2, ReturnStep
<1>5. CASE u = 0
  <2>1. /\ text \in Seq(Chars) /\ usrbuf \in Seq(Chars) /\ ends \in Seq(Chars)
    BY DEF Inv, TypeInv, ReaderType
  <2>2. n = written
    BY <1>2, <1>3, <1>5
  <2>3. Len(text') = written /\ ends' = Append(ends, n)
    <3>1. Len(text \o usrbuf) = n + u
      BY <2>1, ConcatProperties
    <3>2. n + u = n
      BY <1>2, <1>5
    <3> QED BY <1>1, <2>2, <3>1, <3>2 DEF Returns
  <2>4. Pieces = << >> /\ Pieces' = << >>
    BY <1>1, <2>2, <2>3, PiecesAre DEF PiecesOf
  <2>5. n \in Chars
    BY <1>1, <2>2 DEF Inv, TypeInv, WriterType
  <2>6. LinesOf(ends') = Append(LinesOf(ends), 0)
    <3>1. LinesOf(ends') = Append(LinesOf(ends), n - Start(ends, Len(ends) + 1))
      BY <2>1, <2>3, <2>5, LinesAppend
    <3>2. Start(ends, Len(ends) + 1) = n
      BY DEF Inv, Divided, LineStart, Start
    <3>3. n - n = 0
      BY <1>2
    <3> QED BY <3>1, <3>2, <3>3
  <2>7. Lines!Size(Lines!Eof(0)) = 0
    BY DEF Lines!Size, Lines!Eof, Lines!Prefix, Lines!TagLength
  <2> QED BY <1>1, <2>4, <2>6, <2>7, LinesAre DEF Lines!ReceiveEnd
<1> QED BY <1>4, <1>5

(* connection.cpp:80 and module Connection: for any messages, limit of a    *)
(* line and buffer, and however writes and reads split the text, the lines  *)
(* rio_readlineb returns are those Connection cuts the text into, each only *)
(* when its newline, maxlen - 1 characters or the end of the stream is      *)
(* there.                                                                   *)
THEOREM RioImplementsLines == Spec => ImplementsLineStream
<1> DEFINE lengths == [i \in DOMAIN ends |-> ends[i] - LineStart(i)]
<1>1. Init => Lines!Init
  <2> SUFFICES ASSUME Init PROVE Lines!Init
    OBVIOUS
  <2>1. text = << >> /\ ends = << >> /\ written = 0 /\ closed = FALSE
    BY DEF Init
  <2>2. Pieces = << >>
    BY <2>1, PiecesAre DEF PiecesOf
  <2>3. LinesOf(ends) = << >>
    <3>1. ends \in Seq(Chars) /\ Len(ends) = 0
      BY <2>1
    <3>2. LinesOf(ends) \in Seq(Int) /\ Len(LinesOf(ends)) = 0
      BY <3>1, LinesType
    <3> QED BY <3>2, EmptySeq
  <2> QED BY <2>1, <2>2, <2>3, LinesAre DEF Lines!Init
<1>2. Inv /\ [Next]_vars => [Lines!Next]_<<Pieces, lengths, closed>>
  <2> SUFFICES ASSUME Inv, [Next]_vars PROVE [Lines!Next]_<<Pieces, lengths, closed>>
    OBVIOUS
  <2>1. CASE UNCHANGED <<messages, written, text, ends, closed>>
    BY <2>1, PiecesAre, LinesAre
  <2>2. CASE UNCHANGED vars
    BY <2>1, <2>2 DEF vars
  <2>3. CASE Refill \/ Interrupted \/ ReadFails
    BY <2>1, <2>3 DEF Refill, Interrupted, ReadFails, Refills
  <2>4. CASE rio_writen
    BY <2>4, WriteStep DEF Lines!Next
  <2>5. CASE Closes
    <3>1. closed' = TRUE /\ UNCHANGED <<messages, written, text, ends>>
      BY <2>5 DEF Closes
    <3>2. UNCHANGED <<Pieces, lengths>>
      BY <3>1, PiecesAre, LinesAre
    <3> QED BY <3>1, <3>2 DEF Lines!Next, Lines!End
  <2>6. CASE TakeChar
    BY <2>6, TakeStep DEF Lines!Next
  <2>7. CASE EndOfFile
    BY <2>7, EndStep DEF Lines!Next
  <2> QED BY <2>2, <2>3, <2>4, <2>5, <2>6, <2>7 DEF Next
<1> QED BY <1>1, <1>2, RioInvariant, PTL DEF Spec, ImplementsLineStream, Lines!Spec
=============================================================================

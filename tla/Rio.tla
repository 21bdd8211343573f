-------------------------------- MODULE Rio --------------------------------
(***************************************************************************)
(* The robust I/O of csapp.c under the chat programs: rio_writen on one    *)
(* end of a connection, rio_readlineb with its buffer on the other.  write *)
(* and read transfer any part of what they are asked for, are interrupted  *)
(* by signals, fail, and meet the end of the stream.  A character is its   *)
(* position in the stream.                                                 *)
(***************************************************************************)
EXTENDS Integers, Sequences, SequencesExt, FiniteSets

CONSTANTS RIO_BUFSIZE,   \* 8192 in the code
          MAX_LEN,       \* maxlen of rio_readlineb, 255 in the code
          MessageLists,  \* the messages to write: sequences of the positions
                         \* of their newlines
          MaxLength      \* bound: their characters

ASSUME BuffersAssumption == RIO_BUFSIZE \in Nat \ {0} /\ MAX_LEN \in Nat \ {0, 1}
ASSUME MessagesAssumption ==
  /\ MaxLength \in Nat
  /\ MessageLists \subseteq Seq(1..MaxLength)
  /\ \A s \in MessageLists : \A i, j \in DOMAIN s : i < j => s[i] < s[j]

VARIABLES
  messages,    \* the messages, each given by the position of its newline
  written,     \* characters in the stream
  closed,      \* the writer has failed or closed its end
  fetched,     \* characters read(2) has returned
  rio_buf, rio_bufptr, rio_cnt,   \* rio_t
  usrbuf,      \* the line being read
  text,        \* history: the text rio_readlineb returned
  ends,        \* history: how long that was after each line
  pc           \* the reader: "read", "eof" or "failed"

rio == <<rio_buf, rio_bufptr, rio_cnt>>
vars == <<messages, written, closed, fetched, rio, usrbuf, text, ends, pc>>

Newlines == {messages[i] : i \in DOMAIN messages}
Begin(i) == IF i = 1 THEN 0 ELSE messages[i - 1]
Positions(a, b) == [i \in 1..(b - a) |-> a + i]

(* rio_readinitb *)
Init ==
  /\ messages \in MessageLists
  /\ written = 0 /\ closed = FALSE /\ fetched = 0
  /\ rio_buf = [i \in 1..RIO_BUFSIZE |-> 0]
  /\ rio_bufptr = 1 /\ rio_cnt = 0
  /\ usrbuf = << >> /\ text = << >> /\ ends = << >> /\ pc = "read"
-----------------------------------------------------------------------------
(* One write(2) of rio_writen takes some of what is left of the message; an *)
(* interrupted one takes nothing and is repeated.                           *)
rio_writen ==
  /\ ~closed
  /\ \E i \in DOMAIN messages :
       /\ Begin(i) <= written /\ written < messages[i]
       /\ written' \in (written + 1)..messages[i]
  /\ UNCHANGED <<messages, closed, fetched, rio, usrbuf, text, ends, pc>>

(* a write fails, or the writer ends, in the middle of a message or not *)
Closes ==
  /\ ~closed
  /\ closed' = TRUE
  /\ UNCHANGED <<messages, written, fetched, rio, usrbuf, text, ends, pc>>
-----------------------------------------------------------------------------
(* rio_readlineb returns *)
Returns(line) ==
  /\ text' = text \o line
  /\ ends' = Append(ends, Len(text) + Len(line))
  /\ usrbuf' = << >>

(* rio_read refills the empty buffer with read(2) *)
Refills ==
  /\ pc = "read" /\ rio_cnt <= 0
  /\ UNCHANGED <<messages, written, closed>>

(* mutant: the buffer is taken to be full *)
Refill_AssumesFull ==
  /\ Refills
  /\ \E k \in 1..RIO_BUFSIZE :
       /\ fetched + k <= written
       /\ fetched' = fetched + k
       /\ rio_cnt' = RIO_BUFSIZE
       /\ rio_buf' = [i \in 1..RIO_BUFSIZE |-> IF i <= k THEN fetched + i ELSE rio_buf[i]]
  /\ rio_bufptr' = 1
  /\ UNCHANGED <<usrbuf, text, ends, pc>>

Refill ==
  /\ Refills
  /\ \E k \in 1..RIO_BUFSIZE :
       /\ fetched + k <= written
       /\ fetched' = fetched + k
       /\ rio_cnt' = k
       /\ rio_buf' = [i \in 1..RIO_BUFSIZE |-> IF i <= k THEN fetched + i ELSE rio_buf[i]]
  /\ rio_bufptr' = 1
  /\ UNCHANGED <<usrbuf, text, ends, pc>>

(* mutant: an interrupted read is taken for the end of the stream *)
Interrupted_Ends ==
  /\ Refills
  /\ rio_cnt' = -1
  /\ pc' = "eof"
  /\ UNCHANGED <<fetched, rio_buf, rio_bufptr, usrbuf, text, ends>>

(* errno = EINTR: rio_cnt is -1 and read is called again *)
Interrupted ==
  /\ Refills
  /\ rio_cnt' = -1
  /\ UNCHANGED <<fetched, rio_buf, rio_bufptr, usrbuf, text, ends, pc>>

(* any other error: rio_readlineb returns -1, and receive fails *)
ReadFails ==
  /\ Refills
  /\ rio_cnt' = -1
  /\ pc' = "failed"
  /\ UNCHANGED <<fetched, rio_buf, rio_bufptr, usrbuf, text, ends>>

(* mutant: text before the end of the stream is dropped *)
EndOfFile_Drops ==
  /\ Refills
  /\ closed /\ fetched = written
  /\ rio_cnt' = 0
  /\ Returns(<< >>)
  /\ pc' = "eof"
  /\ UNCHANGED <<fetched, rio_buf, rio_bufptr>>

(* read returns 0: rio_readlineb returns the text before the end, or, when  *)
(* there is none, 0; the caller then asks no more                           *)
EndOfFile ==
  /\ Refills
  /\ closed /\ fetched = written
  /\ rio_cnt' = 0
  /\ Returns(usrbuf)
  /\ pc' = IF usrbuf = << >> THEN "eof" ELSE "read"
  /\ UNCHANGED <<fetched, rio_buf, rio_bufptr>>

(* mutant: a character too many *)
LineFull_Late(line) == Last(line) \in Newlines \/ Len(line) = MAX_LEN

LineFull(line) == Last(line) \in Newlines \/ Len(line) = MAX_LEN - 1

(* an iteration of rio_readlineb: the next character of the buffer *)
TakeChar ==
  /\ pc = "read" /\ rio_cnt > 0
  /\ rio_bufptr' = rio_bufptr + 1
  /\ rio_cnt' = rio_cnt - 1
  /\ LET line == Append(usrbuf, rio_buf[rio_bufptr])
     IN  IF LineFull(line)
         THEN Returns(line)
         ELSE usrbuf' = line /\ UNCHANGED <<text, ends>>
  /\ UNCHANGED <<messages, written, closed, fetched, rio_buf, pc>>
-----------------------------------------------------------------------------
Next ==
  \/ rio_writen \/ Closes
  \/ Refill \/ Interrupted \/ ReadFails \/ EndOfFile \/ TakeChar

(* Signals do not interrupt every read. *)
Fairness == WF_vars(Refill) /\ WF_vars(EndOfFile) /\ WF_vars(TakeChar)

Spec == Init /\ [][Next]_vars /\ Fairness
-----------------------------------------------------------------------------
Chars == 0..MaxLength
LineStart(i) == IF i = 1 THEN 0 ELSE ends[i - 1]

TypeOK ==
  /\ messages \in MessageLists
  /\ written \in Chars /\ closed \in BOOLEAN /\ fetched \in 0..written
  /\ rio_buf \in [1..RIO_BUFSIZE -> Chars]
  /\ rio_bufptr \in 1..(RIO_BUFSIZE + 1) /\ rio_cnt \in -1..RIO_BUFSIZE
  /\ usrbuf \in Seq(Chars) /\ Len(usrbuf) < MAX_LEN
  /\ text \in Seq(Chars) /\ ends \in Seq(Chars)
  /\ \A i \in DOMAIN ends : ends[i] - LineStart(i) \in 0..(MAX_LEN - 1)
  /\ pc \in {"read", "eof", "failed"}

Unread == SubSeq(rio_buf, rio_bufptr, rio_bufptr + rio_cnt - 1)

(* csapp.c:833-834, rio_bufptr and rio_cnt: what read(2) has returned is,   *)
(* each character once and in order, in the lines returned, in the line     *)
(* being read or in the buffer, whatever the sizes of the reads and the     *)
(* interruptions between them.                                              *)
EveryCharOnce ==
  text \o usrbuf \o Unread = Positions(0, fetched)

(* The text that is in the stream, the buffer or the line being read, as    *)
(* the messages of module Connection: what is left of the first that was    *)
(* not returned in full, and so on to the last that was begun.              *)
Returned == Len(text)
Passed == Cardinality({i \in DOMAIN messages : messages[i] <= Returned})
Begun == Cardinality({i \in DOMAIN messages : Begin(i) < written})
Least(a, b) == IF a <= b THEN a ELSE b
Piece(i) ==
  [tag |-> "none", body |-> 0, nl |-> messages[i] <= written,
   len |-> Least(messages[i], written) - (IF Begin(i) <= Returned THEN Returned ELSE Begin(i))]
Pieces ==
  IF Returned = written THEN << >> ELSE [k \in 1..(Begun - Passed) |-> Piece(Passed + k)]

Lines == INSTANCE LineStream WITH
  Lengths <- 1..MaxLength, stream <- Pieces, ended <- closed,
  lines <- [i \in DOMAIN ends |-> ends[i] - LineStart(i)]

(* The lines rio_readlineb returns are those Connection cuts the text into, *)
(* however write and read split it; none before its newline, MAX_LEN - 1    *)
(* characters or the end of the stream is there.                            *)
ImplementsLineStream == Lines!Spec

(* connection.cpp:80, receive: a message that was written in full is        *)
(* received, unless reading fails.                                          *)
MessageIsReceived ==
  \A i \in 1..MaxLength :
    (written = i /\ i \in Newlines)
      ~> (Returned >= i \/ pc = "failed")
=============================================================================

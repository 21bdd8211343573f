----------------------------- MODULE Connection -----------------------------
(***************************************************************************)
(* Class Connection (csf_assign05/connection.cpp) over the buffered reads  *)
(* of csapp.c: how messages become lines of a TCP stream, and how the      *)
(* other end cuts the stream into messages again.                          *)
(*                                                                         *)
(* A message is its tag, the length of its data (newline included), what   *)
(* the data says, and whether it ends in a newline.  What is left of a     *)
(* line that was cut has no tag of its own: it parses as tag "none".       *)
(***************************************************************************)
EXTENDS Naturals, Sequences, SequencesExt

CONSTANT MAX_LEN   \* of message.h, 255

ASSUME MaxLenAssumption == MAX_LEN \in Nat \ {0, 1}

TagLength == [err |-> 3, ok |-> 2, slogin |-> 6, rlogin |-> 6, join |-> 4,
              leave |-> 5, sendall |-> 7, quit |-> 4, delivery |-> 8]

Message(tag, len, body) == [tag |-> tag, len |-> len, body |-> body, nl |-> TRUE]

(* The characters before the data: the tag and its colon. *)
Prefix(m) == IF m.tag \in DOMAIN TagLength THEN TagLength[m.tag] + 1 ELSE 0
Size(m) == Prefix(m) + m.len

checkStyle(m) ==
  /\ m.len <= MAX_LEN
  /\ ~(m.tag = "sendall" /\ m.len = 0)
  /\ m.tag \in DOMAIN TagLength

(* rio_writen: a text that ends in no newline runs into the one after it. *)
Written(stream, m) ==
  IF stream # << >> /\ ~Last(stream).nl
  THEN Append(Front(stream),
              [Last(stream) EXCEPT !.len = @ + Size(m), !.nl = m.nl])
  ELSE Append(stream, m)

(* rio_readlineb(.., maxlen) returns at most maxlen - 1 characters *)
ReadLimit == MAX_LEN - 1

(* A read returns: a line is there, or ReadLimit characters, or the end. *)
Readable(stream, ended) ==
  stream # << >> /\ (ended \/ Head(stream).nl \/ Size(Head(stream)) >= ReadLimit)

Received(stream) ==
  LET m == Head(stream)
  IN  IF Size(m) <= ReadLimit THEN m
      ELSE [m EXCEPT !.len = ReadLimit - Prefix(m), !.nl = FALSE]

Remaining(stream) ==
  LET m == Head(stream)
  IN  IF Size(m) <= ReadLimit THEN Tail(stream)
      ELSE <<[m EXCEPT !.tag = "none", !.len = Size(m) - ReadLimit]>> \o Tail(stream)

(* n = 0: receive parses the empty text and reports a malformed message *)
Eof(body) == [tag |-> "none", len |-> 0, body |-> body, nl |-> FALSE]
=============================================================================

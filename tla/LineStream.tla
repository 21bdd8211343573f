----------------------------- MODULE LineStream -----------------------------
(***************************************************************************)
(* What the chat programs rely on when they receive: text goes into a      *)
(* stream in pieces of any size and comes out as the lines that module     *)
(* Connection cuts it into, whatever the pieces were.                      *)
(***************************************************************************)
EXTENDS Connection

CONSTANT Lengths   \* of the pieces

VARIABLES stream,  \* what was written and not received
          lines,   \* lengths of the lines received
          ended    \* nothing more will be written

Text(len, nl) == [tag |-> "none", len |-> len, body |-> 0, nl |-> nl]

Init == stream = << >> /\ lines = << >> /\ ended = FALSE

Write ==
  /\ ~ended
  /\ \E len \in Lengths, nl \in BOOLEAN : stream' = Written(stream, Text(len, nl))
  /\ UNCHANGED <<lines, ended>>

End == ended' = TRUE /\ UNCHANGED <<stream, lines>>

Receive ==
  /\ Readable(stream, ended)
  /\ lines' = Append(lines, Size(Received(stream)))
  /\ stream' = Remaining(stream)
  /\ UNCHANGED ended

ReceiveEnd ==
  /\ ended /\ stream = << >>
  /\ lines' = Append(lines, Size(Eof(0)))
  /\ UNCHANGED <<stream, ended>>

Next == Write \/ End \/ Receive \/ ReceiveEnd
Spec == Init /\ [][Next]_<<stream, lines, ended>>
=============================================================================

------------------------------- MODULE HexDump -------------------------------
(***************************************************************************)
(* The hexdump program (csf_assign02), in its C form (c_hexmain.c with     *)
(* c_hexfuncs.c) and its assembly form (asm_hexmain.S with asm_hexfuncs.S).*)
(* Each iteration prints a row for what the last read returned and reads   *)
(* again.  read(2) returns all it is asked for from a file, any part of    *)
(* it from a pipe or a terminal, and -1 when it fails.  Characters are     *)
(* their codes; Byte gives those of the input by their positions.          *)
(***************************************************************************)
EXTENDS Integers, Sequences, FiniteSets

CONSTANTS ROW,          \* bytes asked for by a read, 16 in the code
          OffsetBytes,  \* bytes of an offset, 4 in the code
          SpareBytes,   \* bytes %r12 has above those, 4 in the code
          FileLengths, PipeLengths,  \* lengths of the input
          Byte(_),      \* the bytes of the input, the first at 1
          PipeReads,    \* bound: what a read of a pipe may return
          MaxFailures   \* bound: reads that fail

ASSUME SizesAssumption ==
  ROW \in Nat \ {0} /\ OffsetBytes \in Nat \ {0} /\ SpareBytes \in Nat
ASSUME InputAssumption ==
  /\ FileLengths \cup PipeLengths \subseteq Nat
  /\ \A len \in FileLengths \cup PipeLengths : \A p \in 1..len : Byte(p) \in 0..255
  /\ PipeReads \subseteq 1..ROW /\ MaxFailures \in Nat

VARIABLES
  main,         \* the main function: "c" or "asm"
  source,       \* standard input: "file" or "pipe"
  length,       \* the length of the input
  pos,          \* the bytes of it that were read
  failures,     \* reads that failed
  data,         \* the buffer the reads fill
  numDataRead,  \* what the last read returned
  placeCount,   \* the offset of the next row, a number
  place,        \* the same, its digits
  row,          \* the last row printed
  shown,        \* history: the bytes shown, as a reader of the rows counts them
  pc            \* "start", "loop", "done" or "crashed"

input == <<source, length, main>>
dump == <<input, pos, failures, data, numDataRead, placeCount, place, row, shown>>
vars == <<dump, pc>>

NUL == 0
Space == 32
Spaces(n) == [i \in 1..n |-> Space]

(* 256^n, the numbers that n bytes can hold *)
Bytes[n \in Nat] == IF n = 0 THEN 1 ELSE 256 * Bytes[n - 1]
-----------------------------------------------------------------------------
(* c_hexfuncs.c, asm_hexfuncs.S *)

hex_to_printable(b) == IF b \in 32..126 THEN b ELSE 46

Digit(d) == IF d >= 10 THEN d - 10 + 97 ELSE d + 48

hex_format_byte_as_hex(b) == <<Digit(b \div 16), Digit(b % 16), NUL>>

(* The width of the register that counts: unsigned in C, %r12 in assembly. *)
CountLimit == Bytes[IF main = "c" THEN OffsetBytes ELSE OffsetBytes + SpareBytes]

(* what is left of the offset when k - 1 of its bytes are shifted out *)
Shifted(offset, k) == (offset * Bytes[k - 1]) % CountLimit
TopByte(offset, k) == (Shifted(offset, k) \div Bytes[OffsetBytes - 1]) % 256

(* Its bytes from the top one; each pair of digits is written over the      *)
(* terminator of the one before.                                            *)
hex_format_offset(offset) ==
  [d \in 1..(2 * OffsetBytes) |->
     hex_format_byte_as_hex(TopByte(offset, (d + 1) \div 2))[1 + ((d - 1) % 2)]]

(* hex_write_string writes what strLen counts: up to the first NUL *)
strLen(s) ==
  (CHOOSE i \in DOMAIN s : s[i] = NUL /\ \A j \in 1..(i - 1) : s[j] # NUL) - 1
hex_write_string(s) == SubSeq(s, 1, strLen(s))

(* mutant: a byte more than the buffer is for *)
HandsOver_Long ==
  {IF length - pos < ROW + 1 THEN length - pos ELSE ROW + 1}

(* What read may return: all, or from a pipe a part; 0 at the end. *)
HandsOver ==
  {IF length - pos < ROW THEN length - pos ELSE ROW}
    \cup {n \in PipeReads : source = "pipe" /\ n <= length - pos}

(* read(0, data, ROW); what it does not reach of data stays; it may fail *)
hex_read ==
  \/ \E n \in HandsOver :
       /\ numDataRead' = n
       /\ pos' = pos + n
       /\ data' = [i \in DOMAIN data |-> IF i <= n THEN Byte(pos + i) ELSE data[i]]
       /\ UNCHANGED failures
  \/ /\ failures < MaxFailures
     /\ failures' = failures + 1
     /\ numDataRead' = -1
     /\ UNCHANGED <<pos, data>>
-----------------------------------------------------------------------------
(* The rows: offset, hex pairs padded with blanks, text *)

(* The pairs a row starts with: in the assembly -1, compared as unsigned,   *)
(* is above every i.                                                        *)
PairsWritten == IF main = "asm" /\ numDataRead < 0 THEN ROW ELSE numDataRead

HexPair(i) ==
  IF i <= PairsWritten
  THEN Append(hex_write_string(hex_format_byte_as_hex(data[i])), Space)
  ELSE Spaces(3)
HexColumn == [c \in 1..(3 * ROW) |-> HexPair((c + 2) \div 3)[1 + ((c - 1) % 3)]]

(* mutant: no terminator behind the text, as if the buffer were cleared *)
dataPrint_NoTerminator ==
  [i \in 1..(ROW + 1) |->
    CASE i <= numDataRead -> hex_to_printable(data[i])
      [] OTHER            -> IF i <= ROW /\ (main = "asm" \/ i = 1) THEN Space ELSE NUL]

(* The buffer of the text: cleared but for a first blank in C, filled with  *)
(* blanks in assembly; the terminator goes behind what was read.            *)
dataPrint ==
  [i \in 1..(ROW + 1) |->
    CASE i <= numDataRead     -> hex_to_printable(data[i])
      [] i = numDataRead + 1  -> NUL
      [] OTHER -> IF i <= ROW /\ (main = "asm" \/ i = 1) THEN Space ELSE NUL]

(* a failed read leaves room for one pair more, i counting from -1 *)
Row ==
  place \o <<58, Space>> \o HexColumn
        \o (IF numDataRead < 0 THEN Spaces(3) ELSE << >>)
        \o <<Space>> \o hex_write_string(dataPrint)

(* What a reader of a row takes from its columns. *)
HexValue(d) == IF d >= 97 THEN d - 97 + 10 ELSE d - 48
PairColumn(i) == 2 * OffsetBytes + 3 * i
PairsShown(line) == {i \in 1..ROW : line[PairColumn(i)] # Space}
HexShown(line) ==
  [i \in PairsShown(line) |->
     16 * HexValue(line[PairColumn(i)]) + HexValue(line[PairColumn(i) + 1])]
TextColumn == PairColumn(ROW + 1) + 1
TextShown(line) == SubSeq(line, TextColumn, Len(line))

(* the numbers that the first digits stand for *)
Numbers(digits) ==
  LET number[k \in 0..Len(digits)] ==
        IF k = 0 THEN 0 ELSE 16 * number[k - 1] + HexValue(digits[k])
  IN  number
OffsetShown(digits) == Numbers(digits)[Len(digits)]
-----------------------------------------------------------------------------
Init ==
  /\ main \in {"c", "asm"}
  /\ \/ source = "file" /\ length \in FileLengths
     \/ source = "pipe" /\ length \in PipeLengths
  /\ pos = 0 /\ failures = 0
  /\ data = [i \in 1..ROW |-> IF main = "asm" \/ i = 1 THEN Space ELSE NUL]
  /\ numDataRead = 0
  /\ placeCount = 0
  /\ place = [i \in 1..(2 * OffsetBytes) |-> 48]
  /\ row = << >>
  /\ shown = 0
  /\ pc = "start"

FirstRead ==
  /\ pc = "start"
  /\ place' = hex_format_offset(placeCount)
  /\ hex_read
  /\ pc' = "loop"
  /\ UNCHANGED <<input, placeCount, row, shown>>

(* mutant: the offset is formatted before it is advanced *)
NextPlace_Stale ==
  /\ placeCount' = (placeCount + ROW) % CountLimit
  /\ place' = hex_format_offset(placeCount)

NextPlace ==
  /\ placeCount' = (placeCount + ROW) % CountLimit
  /\ place' = hex_format_offset(placeCount')

(* An iteration.  After a failed read the C loop goes on: a row of blanks,  *)
(* and the terminator of the text falls on dataPrint[-1], which in the      *)
(* build is the terminator of tempStore.                                    *)
PrintRow ==
  /\ pc = "loop"
  /\ numDataRead # 0
  /\ main = "c" \/ numDataRead > 0
  /\ row' = Row
  /\ shown' = shown + Cardinality(PairsShown(row'))
  /\ hex_read
  /\ NextPlace
  /\ UNCHANGED <<input, pc>>

(* After a failed read the assembly goes on too, as -1 is above 0 for jbe:  *)
(* it writes the offset and all that the buffer still holds as a row, and   *)
(* then, for jae, the bytes of its stack, until it runs off it.  Of what it *)
(* writes the bytes beyond the buffer are left out.                         *)
Overrun ==
  /\ pc = "loop"
  /\ main = "asm" /\ numDataRead < 0
  /\ row' = place \o <<58, Space>> \o HexColumn
  /\ shown' = shown + Cardinality(PairsShown(row'))
  /\ pc' = "crashed"
  /\ UNCHANGED <<input, pos, failures, data, numDataRead, placeCount, place>>

Finish ==
  /\ pc = "loop"
  /\ numDataRead = 0
  /\ pc' = "done"
  /\ UNCHANGED dump

Next == FirstRead \/ PrintRow \/ Overrun \/ Finish

Spec == Init /\ [][Next]_vars
-----------------------------------------------------------------------------
Codes == 0..255

TypeOK ==
  /\ main \in {"c", "asm"} /\ source \in {"file", "pipe"}
  /\ length \in FileLengths \cup PipeLengths
  /\ pos \in 0..length /\ failures \in 0..MaxFailures
  /\ data \in [1..ROW -> Codes] /\ numDataRead \in -1..ROW
  /\ placeCount \in 0..(CountLimit - 1)
  /\ place \in [1..(2 * OffsetBytes) -> Codes]
  /\ row \in Seq(Codes) /\ shown \in Nat
  /\ pc \in {"start", "loop", "done", "crashed"}

(* c_hexmain.c:19-36: whatever part of the buffer a read fills, each row    *)
(* shows the next bytes of the input, all of them and none of those an      *)
(* earlier read left in the buffer, in both columns; none are left when the *)
(* program is done.  A NUL among them does not cut the text, and a read     *)
(* that fails loses none.  Excluded is what the assembly writes after a     *)
(* failed read, where the comment at asm_hexmain.S:46 says that it ends:    *)
(* bytes left in the buffer, see Overrun.                                   *)
RowsShowInput ==
  LET k == Cardinality(PairsShown(row))
  IN  row # << >> /\ pc # "crashed" =>
        /\ HexShown(row) = [i \in 1..k |-> Byte(shown - k + i)]
        /\ k > 0 => TextShown(row) = [i \in 1..k |-> hex_to_printable(Byte(shown - k + i))]
        /\ shown = IF numDataRead < 0 THEN pos ELSE pos - numDataRead
        /\ pc = "done" => shown = length

(* c_hexmain.c:39-40: while reads return all they were asked for, the       *)
(* offset of a row is the position of its first byte, in the digits there   *)
(* are; the 64-bit counter of the assembly wraps where the C one does.      *)
OffsetIsPosition ==
  source = "file" /\ failures = 0 /\ pc = "loop" /\ numDataRead > 0 =>
    OffsetShown(place) = (pos - numDataRead) % Bytes[OffsetBytes]
=============================================================================

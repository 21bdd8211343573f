----------------------------- MODULE MCHexDump -----------------------------
(* An input for HexDump.                                                    *)
EXTENDS HexDump

(* every value occurs, and a byte is not where another belongs *)
SampleByte(p) == (37 * p + 5 * (p \div 256)) % 256
=============================================================================

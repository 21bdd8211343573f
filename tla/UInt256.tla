------------------------------ MODULE UInt256 ------------------------------
(***************************************************************************)
(* The unsigned integers of four words of csf_assign01/uint256.c, computed *)
(* as the code does, bit by bit and digit by digit, and a caller that      *)
(* keeps one of them and calls the functions on it.                        *)
(*                                                                         *)
(* A word has DigitsPerWord hex digits of DigitBits bits, 16 of 4 in the   *)
(* code.  A hex string is the sequence of its digits, and a UInt256 that   *)
(* of its words: data[i] is v[i + 1].                                      *)
(***************************************************************************)
EXTENDS Integers, Sequences, FiniteSetsExt

CONSTANTS DigitBits, DigitsPerWord,
          MaxString  \* bound: digits of the strings read

ASSUME UInt256Assumption ==
  DigitBits \in Nat \ {0} /\ DigitsPerWord \in Nat \ {0} /\ MaxString \in Nat

(* 2^n, the amount by which << n multiplies *)
TwoTo[n \in Nat] == IF n = 0 THEN 1 ELSE 2 * TwoTo[n - 1]

WordBits == DigitBits * DigitsPerWord
WordSize == TwoTo[WordBits]
Word == 0..(WordSize - 1)
Values == Word \X Word \X Word \X Word

(* the UInt256 whose data[i] is word(i) *)
Words(word(_)) == <<word(0), word(1), word(2), word(3)>>
Digits == 0..(TwoTo[DigitBits] - 1)
Strings == UNION {[1..n -> Digits] : n \in 1..MaxString}

(* what strtoul may meet after the sixteen characters: nothing it can read, *)
(* or one more digit                                                        *)
NotADigit == -1
After == Digits \cup {NotADigit}

VARIABLES val
-----------------------------------------------------------------------------
uint256_create_from_u64(word) == <<word, 0, 0, 0>>

uint256_create(data) == data

(* the digits a number is written with, and what they stand for *)
Numbers(string) ==
  LET number[k \in 0..Len(string)] ==
        IF k = 0 THEN 0 ELSE number[k - 1] * TwoTo[DigitBits] + string[k]
  IN  number
Evaluate(string) == Numbers(string)[Len(string)]

(* a number that a word cannot hold is read as the greatest word; segment   *)
(* has no terminator, so the digit after it is read too, if there is one    *)
strtoul(segment, after) ==
  LET number == Evaluate(IF after = NotADigit THEN segment ELSE Append(segment, after))
  IN  IF number \in Word THEN number ELSE WordSize - 1

(* mutant: a string of whole words is given one more, of its last digits *)
LastSegment_Whole(hex, mod) ==
  [m \in 1..DigitsPerWord |-> IF m <= DigitsPerWord - mod /\ mod > 0 THEN 0
                              ELSE hex[m + mod - (IF mod > 0 THEN DigitsPerWord ELSE 0)]]

(* the digits left of the whole words, with zeros in front of them *)
LastSegment(hex, mod) ==
  [m \in 1..DigitsPerWord |-> IF m <= DigitsPerWord - mod THEN 0
                              ELSE hex[m + mod - DigitsPerWord]]

uint256_create_from_hex(hex, after) ==
  LET len == Len(hex)
      index == len \div DigitsPerWord
      mod == len % DigitsPerWord
      segment(i) == SubSeq(hex, len - DigitsPerWord * (i + 1) + 1, len - DigitsPerWord * i)
  IN  Words(LAMBDA i : IF i < index THEN strtoul(segment(i), after)
                       ELSE IF i = index THEN strtoul(LastSegment(hex, mod), after)
                       ELSE 0)

(* the digits of a value, the most significant first *)
AllDigits(v) ==
  [k \in 1..4 * DigitsPerWord |->
     LET place == 4 * DigitsPerWord - k
     IN  (v[1 + place \div DigitsPerWord] \div TwoTo[DigitBits * (place % DigitsPerWord)])
           % TwoTo[DigitBits]]

uint256_format_as_hex(v) ==
  LET digits == AllDigits(v)
      nonzero == {k \in DOMAIN digits : digits[k] # 0}
  IN  IF nonzero = {} THEN <<0>> ELSE SubSeq(digits, Min(nonzero), Len(digits))
-----------------------------------------------------------------------------
BitAt(v, k) == (v[1 + (k \div WordBits)] \div TwoTo[k % WordBits]) % 2

Places == 0..(4 * WordBits - 1)

(* the value whose k-th bit is bit[k]: each word is summed up bit by bit *)
PartialSums(bit, first) ==
  LET sum[j \in 0..WordBits] ==
        IF j = 0 THEN 0 ELSE sum[j - 1] + bit[first + j - 1] * TwoTo[j - 1]
  IN  sum
FromBits(bit) == Words(LAMBDA i : PartialSums(bit, i * WordBits)[WordBits])

(* mutant: the carry is reset for every word *)
Carries_PerWord(left, right) ==
  LET carry[k \in 0..4 * WordBits] ==
        IF k % WordBits = 0 \/ BitAt(left, k - 1) + BitAt(right, k - 1) + carry[k - 1] < 2
        THEN 0 ELSE 1
  IN  carry

(* the carry into each bit *)
Carries(left, right) ==
  LET carry[k \in 0..4 * WordBits] ==
        IF k = 0 \/ BitAt(left, k - 1) + BitAt(right, k - 1) + carry[k - 1] < 2
        THEN 0 ELSE 1
  IN  carry

uint256_add(left, right) ==
  LET carry == Carries(left, right)
      total(k) == BitAt(left, k) + BitAt(right, k) + carry[k]
  IN  FromBits([k \in Places |-> IF total(k) < 2 THEN total(k) ELSE total(k) - 2])

Complement(v) == FromBits([k \in Places |-> 1 - BitAt(v, k)])

uint256_sub(left, right) ==
  uint256_add(uint256_add(Complement(right), uint256_create_from_u64(1)), left)

(* mutant: what a word carries is lost *)
shift_by_index_NoCarry(original, digit) ==
  LET index == digit \div WordBits
  IN  Words(LAMBDA i : IF i < index THEN 0
              ELSE (original[1 + i - index] * TwoTo[digit % WordBits]) % WordSize)

shift_by_index(original, digit) ==
  LET index == digit \div WordBits
      carry == digit % WordBits
      moved == Words(LAMBDA i : IF i < index THEN 0 ELSE original[1 + i - index])
      carry_content(i) == IF i = 0 THEN 0 ELSE moved[i] \div TwoTo[WordBits - carry]
  IN  IF carry = 0 THEN moved
      ELSE Words(LAMBDA i : ((moved[i + 1] * TwoTo[carry]) % WordSize) + carry_content(i))

(* the bits of left select the shifted right values that are added up *)
Products(left, right) ==
  LET product[k \in 0..4 * WordBits] ==
        IF k = 0 THEN uint256_create_from_u64(0)
        ELSE IF BitAt(left, k - 1) = 0 THEN product[k - 1]
        ELSE uint256_add(product[k - 1], shift_by_index(right, k - 1))
  IN  product
uint256_mul(left, right) == Products(left, right)[4 * WordBits]
-----------------------------------------------------------------------------
Init ==
  \/ \E word \in Word : val = uint256_create_from_u64(word)
  \/ \E data \in Values : val = uint256_create(data)
  \/ \E hex \in Strings, after \in After : val = uint256_create_from_hex(hex, after)

Add == \E x \in Values : val' = uint256_add(val, x)
Sub == \E x \in Values : val' = uint256_sub(val, x)
Mul == \E x \in Values : val' = uint256_mul(val, x)

Next == Add \/ Sub \/ Mul

Spec == Init /\ [][Next]_val
-----------------------------------------------------------------------------
(* the number that the four words of a value are *)
Number(v) == v[1] + WordSize * (v[2] + WordSize * (v[3] + WordSize * v[4]))
Modulus == WordSize * WordSize * WordSize * WordSize

(* uint256_add is addition modulo 2^256: the carry crosses the words, and   *)
(* the last one is dropped; uint256_sub, by two's complement, wraps around  *)
(* below zero.                                                              *)
SumsAreModular ==
  \A x \in Values :
    /\ Number(uint256_add(val, x)) = (Number(val) + Number(x)) % Modulus
    /\ Number(uint256_sub(val, x)) = (Number(val) - Number(x)) % Modulus

(* uint256_mul keeps the low 256 bits of the product.                       *)
MulIsModular ==
  \A x \in Values : Number(uint256_mul(val, x)) = (Number(val) * Number(x)) % Modulus

(* uint256_create_from_hex reads every string whose number is that of a     *)
(* value modulo 2^256 as the value, with zeros in front or digits that do   *)
(* not fit, and uint256_format_as_hex writes the shortest of them.  This is *)
(* what the code promises where no digit follows segment in memory.         *)
HexRoundTrip ==
  LET written == uint256_format_as_hex(val)
  IN  /\ uint256_create_from_hex(written, NotADigit) = val
      /\ \A hex \in Strings :
           Evaluate(hex) % Modulus = Number(val) =>
             /\ uint256_create_from_hex(hex, NotADigit) = val
             /\ Evaluate(hex) = Number(val) => Len(written) <= Len(hex)
=============================================================================

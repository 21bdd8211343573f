\* Words of two bits, written with two digits of one bit.
SPECIFICATION Spec
CONSTANTS
  DigitBits = 1
  DigitsPerWord = 2
  MaxString = 9
INVARIANTS SumsAreModular MulIsModular HexRoundTrip

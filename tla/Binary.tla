------------------------------- MODULE Binary -------------------------------
(***************************************************************************)
(* utils/utils.py: numbers of one and two bytes, the more significant byte *)
(* first, signed ones in two's complement.  Shifts and masks of the code   *)
(* are divisions and remainders.                                           *)
(***************************************************************************)
EXTENDS Integers, Sequences

CONSTANT ByteSize   \* 256 in the code

ASSUME ByteSizeAssumption == ByteSize \in Nat \ {0} /\ ByteSize % 2 = 0

WordSize == ByteSize * ByteSize
Bytes == 0 .. ByteSize - 1
Words == 0 .. WordSize - 1

\* The number of values of so many bytes, 1 or 2.
Size(length) == IF length = 1 THEN ByteSize ELSE WordSize

GetLow(word) == word % ByteSize
GetHigh(word) == word \div ByteSize

\* Faulty variant of SetLow: the value is added to the whole word.
SetLowAdds(word, value) == word + value

SetLow(word, value) == word - GetLow(word) + value
SetHigh(word, value) == GetLow(word) + value * ByteSize

\* Whether int.to_bytes does not raise OverflowError.
Fits(value, length, signed) ==
    value \in IF signed THEN -(Size(length) \div 2) .. Size(length) \div 2 - 1
              ELSE 0 .. Size(length) - 1

\* Faulty variant of ToBinary: a negative number loses its sign.
ToBinaryAbsolute(value, length) ==
    LET number == IF value < 0 THEN -value ELSE value
    IN  IF length = 1 THEN <<GetLow(number)>>
                      ELSE <<GetHigh(number % WordSize), GetLow(number)>>

\* byte_to_binary and word_to_binary, of a value that fits.
ToBinary(value, length) ==
    IF length = 1 THEN <<GetLow(value)>>
                  ELSE <<GetHigh(value % WordSize), GetLow(value)>>

\* binary_to_number
ToNumber(binary) ==
    IF Len(binary) = 1 THEN binary[1] ELSE binary[1] * ByteSize + binary[2]

\* Faulty variant of ToSigned: the smallest number is taken for a positive one.
ToSignedOffByOne(binary) ==
    IF ToNumber(binary) <= Size(Len(binary)) \div 2
    THEN ToNumber(binary) ELSE ToNumber(binary) - Size(Len(binary))

\* binary_to_number with signed=True
ToSigned(binary) ==
    IF ToNumber(binary) < Size(Len(binary)) \div 2
    THEN ToNumber(binary) ELSE ToNumber(binary) - Size(Len(binary))
=============================================================================

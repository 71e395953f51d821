---------------------------- MODULE MemoryProofs ----------------------------
(***************************************************************************)
(* Proofs about what the CPU and the assembler share: binary numbers, the  *)
(* memory, and operands, which are decoded as they were encoded.  For every*)
(* size of a byte and of the areas of the address space.                   *)
(***************************************************************************)
EXTENDS Memory, Operands, SequenceTheorems, WellFoundedInduction, TLAPS

-----------------------------------------------------------------------------
(* Induction *)

\* A set of natural numbers that is not empty has a least element.
LEMMA Least ==
  ASSUME NEW S, S \subseteq Nat, S # {}
  PROVE  \E x \in S : \A y \in S : x <= y
<1>1. PICK R : R = {ss \in Nat \X Nat : ss[1] < ss[2]}
  OBVIOUS
<1>2. IsWellFoundedOn(R, Nat)
  BY <1>1, NatLessThanWellFounded DEF OpToRel
<1>3. PICK x \in S : \A y \in S : ~(<<y, x>> \in R)
  BY <1>2, WFMin
<1>4. ASSUME NEW y \in S PROVE x <= y
  <2>1. ~(<<y, x>> \in {ss \in Nat \X Nat : ss[1] < ss[2]})
    BY <1>1, <1>3
  <2> QED BY <2>1
<1> QED BY <1>4

\* Induction over the natural numbers, with a set for the numbers that have a property.
LEMMA Induction ==
  ASSUME NEW S, 0 \in S, \A n \in Nat : n \in S => n + 1 \in S
  PROVE  Nat \subseteq S
<1> DEFINE T == Nat \ S
<1> SUFFICES ASSUME T # {} PROVE FALSE
  OBVIOUS
<1>1. PICK x \in T : \A y \in T : x <= y
  BY Least
<1>2. x # 0 /\ x - 1 \in Nat /\ x - 1 \notin T
  BY <1>1
<1>3. x - 1 + 1 = x
  BY <1>2
<1> QED BY <1>2, <1>3

-----------------------------------------------------------------------------
(* Numbers of one and two bytes *)

LEMMA SizesType == ByteSize \in Nat /\ ByteSize >= 2 /\ WordSize \in Nat /\ WordSize >= ByteSize
<1>1. ByteSize \in Nat /\ ByteSize >= 2
  BY ByteSizeAssumption
<1>2. WordSize \in Nat
  BY <1>1 DEF WordSize
<1>3. WordSize >= ByteSize
  <2>1. \A a \in Nat : a >= 2 => a * a >= a
    OBVIOUS
  <2> QED BY <1>1, <2>1 DEF WordSize
<1> QED BY <1>1, <1>2, <1>3

\* The two bytes of a number are its quotient and remainder.
LEMMA HighAndLow ==
    ASSUME NEW value \in Int
    PROVE  /\ GetLow(value) \in Bytes /\ GetHigh(value) \in Int
           /\ value = GetHigh(value) * ByteSize + GetLow(value)
BY SizesType DEF GetLow, GetHigh, Bytes

\* A multiple of a number that is smaller than the number is 0.
LEMMA SmallMultiple ==
    ASSUME NEW n \in Nat, NEW k \in Int, k * n < n, -n < k * n
    PROVE  k = 0
<1>1. CASE k >= 1
  <2>1. k * n >= n
    BY <1>1
  <2> QED BY <2>1
<1>2. CASE k <= -1
  <2>1. (-k) * n >= n
    BY <1>2
  <2>2. (-k) * n = -(k * n)
    OBVIOUS
  <2>3. k * n \in Int
    OBVIOUS
  <2> QED BY <2>1, <2>2, <2>3
<1> QED BY <1>1, <1>2

\* Quotient and remainder are determined by what they make up.
LEMMA DivisionUnique ==
    ASSUME NEW n \in Nat, n > 0, NEW q \in Int, NEW r \in 0 .. n - 1
    PROVE  (q * n + r) \div n = q /\ (q * n + r) % n = r
<1> DEFINE value == q * n + r
           h == value \div n
           l == value % n
<1>1. value \in Int /\ r \in Int
  OBVIOUS
<1>2. value = h * n + l /\ l \in 0 .. n - 1 /\ h \in Int
  BY <1>1
<1> HIDE DEF h, l
<1>3. l \in Int /\ r - l < n /\ -n < r - l
  BY <1>1, <1>2
<1>4. (h - q) * n = h * n - q * n
  BY <1>1, <1>2
<1>5. h * n \in Int /\ q * n \in Int
  BY <1>1, <1>2
<1>6. (h - q) * n = r - l
  BY <1>1, <1>2, <1>3, <1>4, <1>5
<1>7. h - q = 0
  BY <1>1, <1>2, <1>3, <1>6, SmallMultiple
<1>8. h = q
  BY <1>2, <1>7
<1>9. l = r
  BY <1>1, <1>2, <1>3, <1>5, <1>8
<1> QED BY <1>8, <1>9 DEF h, l

\* So are the two bytes of a number.
LEMMA HighAndLowUnique ==
    ASSUME NEW high \in Int, NEW low \in Bytes
    PROVE  /\ GetHigh(high * ByteSize + low) = high
           /\ GetLow(high * ByteSize + low) = low
BY SizesType, DivisionUnique DEF GetHigh, GetLow, Bytes

\* A word is two bytes, and two bytes are a word.
LEMMA WordBytes ==
    /\ \A word \in Words : GetHigh(word) \in Bytes
    /\ \A high \in Bytes, low \in Bytes : high * ByteSize + low \in Words
<1>1. ASSUME NEW word \in Words PROVE GetHigh(word) \in Bytes
  <2>1. word \in Int /\ 0 <= word /\ word < ByteSize * ByteSize /\ ByteSize \in Nat /\ ByteSize >= 2
    BY SizesType DEF Words, WordSize
  <2>2. /\ GetHigh(word) \in Int /\ GetLow(word) \in Int
        /\ 0 <= GetLow(word) /\ GetLow(word) < ByteSize
        /\ word = GetHigh(word) * ByteSize + GetLow(word)
    BY <2>1, HighAndLow DEF Bytes
  <2>3. ASSUME NEW h \in Int, h < 0 PROVE h * ByteSize <= -ByteSize
    BY <2>1, <2>3
  <2>4. ASSUME NEW h \in Int, h >= ByteSize PROVE h * ByteSize >= ByteSize * ByteSize
    BY <2>1, <2>4
  <2>5. GetHigh(word) * ByteSize \in Int /\ ByteSize * ByteSize \in Int
    BY <2>1, <2>2
  <2>6. GetHigh(word) >= 0
    BY <2>1, <2>2, <2>3, <2>5
  <2>7. GetHigh(word) < ByteSize
    BY <2>1, <2>2, <2>4, <2>5
  <2> QED BY <2>1, <2>2, <2>6, <2>7 DEF Bytes
<1>2. ASSUME NEW high \in Bytes, NEW low \in Bytes
      PROVE  high * ByteSize + low \in Words
  <2>1. /\ high \in Nat /\ low \in Nat /\ high <= ByteSize - 1 /\ low <= ByteSize - 1
        /\ ByteSize \in Nat
    BY SizesType DEF Bytes
  <2>2. high * ByteSize <= (ByteSize - 1) * ByteSize
    BY <2>1
  <2>3. (ByteSize - 1) * ByteSize = ByteSize * ByteSize - ByteSize
    BY <2>1
  <2>4. high * ByteSize \in Nat /\ ByteSize * ByteSize \in Nat
    BY <2>1
  <2> QED BY <2>1, <2>2, <2>3, <2>4 DEF Words, WordSize
<1> QED BY <1>1, <1>2

\* get_register, set_register on the halves of a register: setting one half gives
\* a word that has the new half and the old other half.
THEOREM HalvesIndependent ==
    ASSUME NEW word \in Words, NEW value \in Bytes
    PROVE  /\ SetLow(word, value) \in Words
           /\ GetLow(SetLow(word, value)) = value
           /\ GetHigh(SetLow(word, value)) = GetHigh(word)
           /\ SetHigh(word, value) \in Words
           /\ GetHigh(SetHigh(word, value)) = value
           /\ GetLow(SetHigh(word, value)) = GetLow(word)
<1>1. word \in Int /\ value \in Int /\ ByteSize \in Nat
  BY SizesType DEF Words, Bytes
<1>2. /\ GetHigh(word) \in Bytes /\ GetLow(word) \in Bytes
      /\ word = GetHigh(word) * ByteSize + GetLow(word)
  BY <1>1, HighAndLow, WordBytes
<1>3. GetHigh(word) \in Int /\ GetLow(word) \in Int
  BY <1>2 DEF Bytes
<1>4. SetLow(word, value) = GetHigh(word) * ByteSize + value
  BY <1>1, <1>2, <1>3 DEF SetLow
<1>5. SetHigh(word, value) = value * ByteSize + GetLow(word)
  BY <1>1, <1>3 DEF SetHigh
<1> QED BY <1>2, <1>3, <1>4, <1>5, <1>1, HighAndLowUnique, WordBytes

\* Memory: a word can be read if and only if both its bytes can be read and they
\* lie in the same area: no word is half RAM and half Virtual RAM, or half
\* registry and half status table, and none at the borders is refused.
THEOREM WordsInOneArea ==
    ASSUME NEW pos \in Int
    PROVE  Readable(pos, 2) <=>
               \E area \in {RamAddresses, RegistryAddresses, StatusAddresses} :
                   {pos, pos + 1} \subseteq area
<1>1. /\ RamSize \in Nat /\ RamSize > 0 /\ RegistrySize \in Nat /\ StatusSize \in Nat
      /\ RegistryAddress = RamSize /\ StatusAddress = RamSize + RegistrySize
  BY MemoryAssumption
<1> QED BY <1>1 DEF Readable, InRam, InVirtualRam, VirtualFirst, VirtualLast,
               RamAddresses, RegistryAddresses, StatusAddresses

\* And a byte if and only if it lies in one of them.
THEOREM BytesInAnArea ==
    ASSUME NEW pos \in Int
    PROVE  Readable(pos, 1) <=>
               pos \in RamAddresses \cup RegistryAddresses \cup StatusAddresses
<1>1. /\ RamSize \in Nat /\ RamSize > 0 /\ RegistrySize \in Nat /\ StatusSize \in Nat
      /\ RegistryAddress = RamSize /\ StatusAddress = RamSize + RegistrySize
  BY MemoryAssumption
<1> QED BY <1>1 DEF Readable, InRam, InVirtualRam, VirtualFirst, VirtualLast,
               RamAddresses, RegistryAddresses, StatusAddresses

\* What is written to the RAM is read back exactly, and nothing else is changed.
\* This is so for every number, also for one that is no byte or word: the RAM does
\* not reduce what it stores.
THEOREM ReadAfterWrite ==
    ASSUME NEW ram \in [RamAddresses -> Int], NEW pos \in Int, NEW length \in {1, 2},
           NEW value \in Int, Writable(pos, length)
    PROVE  LET written == Write(ram, pos, length, value)
           IN  /\ written \in [RamAddresses -> Int]
               /\ Read(written, pos, length) = value
               /\ \A other \in RamAddresses :
                      other \notin pos .. pos + length - 1 => written[other] = ram[other]
<1> DEFINE written == Write(ram, pos, length, value)
<1>1. RamSize \in Nat
  BY MemoryAssumption
<1>2. /\ GetHigh(value) \in Int /\ GetLow(value) \in Int
      /\ value = GetHigh(value) * ByteSize + GetLow(value)
  BY HighAndLow DEF Bytes
<1>3. CASE length = 1
  <2>1. pos \in RamAddresses /\ pos < RamSize
    BY <1>1, <1>3 DEF Writable, InRam, RamAddresses
  <2>2. written = [ram EXCEPT ![pos] = value]
    BY <1>3 DEF Write
  <2>3. written \in [RamAddresses -> Int] /\ written[pos] = value
    BY <2>1, <2>2
  <2>4. Read(written, pos, length) = value
    BY <1>3, <2>1, <2>3 DEF Read, ReadByte
  <2>5. \A other \in RamAddresses :
            other \notin pos .. pos + length - 1 => written[other] = ram[other]
    BY <1>3, <2>2
  <2> QED BY <2>3, <2>4, <2>5
<1>4. CASE length = 2
  <2>1. /\ pos \in RamAddresses /\ pos + 1 \in RamAddresses
        /\ pos < RamSize /\ pos + 1 < RamSize /\ pos # pos + 1
    BY <1>1, <1>4 DEF Writable, InRam, RamAddresses
  <2>2. written = [ram EXCEPT ![pos] = GetHigh(value), ![pos + 1] = GetLow(value)]
    BY <1>4 DEF Write
  <2>3. /\ written \in [RamAddresses -> Int]
        /\ written[pos] = GetHigh(value) /\ written[pos + 1] = GetLow(value)
    BY <1>2, <2>1, <2>2
  <2>4. Read(written, pos, length) = value
    BY <1>2, <1>4, <2>1, <2>3 DEF Read, ReadByte
  <2>5. \A other \in RamAddresses :
            other \notin pos .. pos + length - 1 => written[other] = ram[other]
    BY <1>4, <2>2
  <2> QED BY <2>3, <2>4, <2>5
<1> QED BY <1>3, <1>4

\* The bytes of a number are those of its remainder.
LEMMA BinaryOfRemainder ==
    ASSUME NEW value \in Int, NEW length \in {1, 2}
    PROVE  ToNumber(ToBinary(value, length)) = value % Size(length)
<1>1. ByteSize \in Nat /\ ByteSize > 0 /\ WordSize \in Nat /\ WordSize > 0
  BY SizesType
<1>2. CASE length = 1
  BY <1>2 DEF ToNumber, ToBinary, Size, GetLow
<1>3. CASE length = 2
  <2> DEFINE rest == value % WordSize
             q == value \div WordSize
             h == GetHigh(rest)
             l == GetLow(rest)
  <2>1. rest \in Int /\ q \in Int /\ value = q * WordSize + rest
    BY <1>1
  <2>2. h \in Int /\ l \in Bytes /\ rest = h * ByteSize + l
    BY <2>1, HighAndLow
  <2> HIDE DEF h, l, q, rest
  <2>3. l \in Int /\ q * ByteSize \in Int /\ (q * ByteSize + h) \in Int
    BY <1>1, <2>1, <2>2 DEF Bytes
  <2>4. q * (ByteSize * ByteSize) = (q * ByteSize) * ByteSize
    BY <1>1, <2>1
  <2>5. (q * ByteSize + h) * ByteSize = (q * ByteSize) * ByteSize + h * ByteSize
    BY <1>1, <2>2, <2>3
  <2>6. value = (q * ByteSize + h) * ByteSize + l
    <3>1. (q * ByteSize) * ByteSize \in Int /\ h * ByteSize \in Int
      BY <1>1, <2>2, <2>3
    <3>2. q * WordSize = (q * ByteSize) * ByteSize
      BY <2>4 DEF WordSize
    <3> QED BY <2>1, <2>2, <2>3, <2>5, <3>1, <3>2
  <2>7. GetLow(value) = l
    BY <2>2, <2>3, <2>6, HighAndLowUnique
  <2>8. ToBinary(value, length) = <<h, l>>
    BY <1>3, <2>7 DEF ToBinary, h, rest
  <2>9. ToNumber(<<h, l>>) = h * ByteSize + l
    BY DEF ToNumber
  <2> QED BY <1>3, <2>2, <2>8, <2>9 DEF Size, rest
<1> QED BY <1>2, <1>3

\* word_to_binary, byte_to_binary, binary_to_number: what is written as a signed
\* number is a byte or a word, and is read as the same signed number.
THEOREM SignedRoundTrip ==
    ASSUME NEW length \in {1, 2}, NEW value, Fits(value, length, TRUE)
    PROVE  /\ Fits(ToNumber(ToBinary(value, length)), length, FALSE)
           /\ ToSigned(ToBinary(value, length)) = value
<1> DEFINE size == Size(length)
           binary == ToBinary(value, length)
<1>1. size \in Nat /\ size >= 2
  BY SizesType DEF Size
<1>2. value \in Int /\ -(size \div 2) <= value /\ value <= size \div 2 - 1
  BY <1>1 DEF Fits
<1>3. size \div 2 \in Int /\ 2 * (size \div 2) <= size
  BY <1>1
<1>4. Len(binary) = length
  BY DEF ToBinary
<1>5. ToNumber(binary) = value % size
  BY <1>2, BinaryOfRemainder
<1>6. Size(Len(binary)) = size
  BY <1>4
<1> HIDE DEF size, binary
<1>7. CASE value >= 0
  <2>1. value \in 0 .. size - 1 /\ 0 * size + value = value
    BY <1>1, <1>2, <1>3, <1>7
  <2>2. ToNumber(binary) = value
    BY <1>1, <1>5, <2>1, DivisionUnique
  <2>3. ToNumber(binary) < size \div 2
    BY <1>1, <1>2, <1>3, <2>2
  <2>4. ToSigned(binary) = value
    BY <1>6, <2>2, <2>3 DEF ToSigned
  <2>5. Fits(ToNumber(binary), length, FALSE)
    BY <2>1, <2>2 DEF Fits, size
  <2> QED BY <2>4, <2>5 DEF binary
<1>8. CASE value < 0
  <2>1. value + size \in 0 .. size - 1 /\ -1 * size + (value + size) = value
    BY <1>1, <1>2, <1>3, <1>8
  <2>2. ToNumber(binary) = value + size
    BY <1>1, <1>5, <2>1, DivisionUnique
  <2>3. ~(ToNumber(binary) < size \div 2) /\ ToNumber(binary) - size = value
    BY <1>1, <1>2, <1>3, <2>2
  <2>4. ToSigned(binary) = value
    BY <1>6, <2>3 DEF ToSigned
  <2>5. Fits(ToNumber(binary), length, FALSE)
    BY <2>1, <2>2 DEF Fits, size
  <2> QED BY <2>4, <2>5 DEF binary
<1>9. value >= 0 \/ value < 0
  BY <1>2
<1> QED BY <1>7, <1>8, <1>9

-----------------------------------------------------------------------------
(* Operands *)

\* The position of a name in a list that has it.
LEMMA CodeIndex ==
    ASSUME NEW list, NEW name \in ElementsOf(list), DOMAIN list \subseteq Int
    PROVE  /\ Code(list, name) \in Int /\ Code(list, name) + 1 \in DOMAIN list
           /\ list[Code(list, name) + 1] = name
<1> DEFINE c == CHOOSE i \in DOMAIN list : list[i] = name
<1>1. c \in DOMAIN list /\ list[c] = name
  BY DEF ElementsOf
<1>2. Code(list, name) = c - 1
  BY DEF Code
<1> HIDE DEF c
<1>3. c \in Int /\ (c - 1) + 1 = c
  BY <1>1
<1> QED BY <1>1, <1>2, <1>3

\* The three parts of an opbyte.
LEMMA PartsOfOpByte ==
    ASSUME NEW a \in {0, 1}, NEW t \in 0 .. 7, NEW c \in 0 .. 15
    PROVE  LET b == a * 128 + t * 16 + c
           IN  b \div 128 = a /\ (b % 128) \div 16 = t /\ b % 16 = c
OBVIOUS

\* The names of all registers.
RegisterNameSet == {"AX", "BX", "CX", "DX", "BP", "SP", "SI", "DI",
          "AL", "AH", "BL", "BH", "CL", "CH", "DL", "DH"}

\* The list of the types of operands.
LEMMA OperandTypeList ==
    /\ DOMAIN OpTypes = 1 .. 8
    /\ ElementsOf(OpTypes) = {"VALUE", "ADDRESS", "REGISTER", "ABS_REF_REG", "REL_REF_WORD",
             "REL_REF_WORD_BYTE", "REL_REF_WORD_REG", "EXTENDED"}
<1>1. DOMAIN OpTypes = {1, 2, 3, 4, 5, 6, 7, 8}
  BY DEF OpTypes
<1>2. ElementsOf(OpTypes) = {"VALUE", "ADDRESS", "REGISTER", "ABS_REF_REG", "REL_REF_WORD",
             "REL_REF_WORD_BYTE", "REL_REF_WORD_REG", "EXTENDED"}
  BY <1>1 DEF ElementsOf, OpTypes
<1>3. {1, 2, 3, 4, 5, 6, 7, 8} = 1 .. 8
  OBVIOUS
<1> QED BY <1>1, <1>2, <1>3

\* The lists of the names of registers.
LEMMA Lists ==
    /\ WordRegisters \in Seq(RegisterNameSet) /\ Len(WordRegisters) = 8
    /\ ElementsOf(WordRegisters) = {"AX", "BX", "CX", "DX", "BP", "SP", "SI", "DI"}
    /\ ByteRegisters \in Seq(RegisterNameSet) /\ Len(ByteRegisters) = 8
    /\ ElementsOf(ByteRegisters) = {"AL", "AH", "BL", "BH", "CL", "CH", "DL", "DH"}
<1>1. Len(WordRegisters) = 8 /\ WordRegisters \in Seq(RegisterNameSet)
  <2>1. Len(WordRegisters) = 8
    BY DEF WordRegisters
  <2>2. WordRegisters \in Seq(RegisterNameSet)
    BY DEF WordRegisters, RegisterNameSet
  <2> QED BY <2>1, <2>2
<1>2. Len(ByteRegisters) = 8 /\ ByteRegisters \in Seq(RegisterNameSet)
  <2>1. Len(ByteRegisters) = 8
    BY DEF ByteRegisters
  <2>2. ByteRegisters \in Seq(RegisterNameSet)
    BY DEF ByteRegisters, RegisterNameSet
  <2> QED BY <2>1, <2>2
<1>3. DOMAIN WordRegisters = {1, 2, 3, 4, 5, 6, 7, 8}
  BY DEF WordRegisters
<1>4. DOMAIN ByteRegisters = {1, 2, 3, 4, 5, 6, 7, 8}
  BY DEF ByteRegisters
<1>5. ElementsOf(WordRegisters) = {"AX", "BX", "CX", "DX", "BP", "SP", "SI", "DI"}
  BY <1>3 DEF ElementsOf, WordRegisters
<1>6. ElementsOf(ByteRegisters) = {"AL", "AH", "BL", "BH", "CL", "CH", "DL", "DH"}
  BY <1>4 DEF ElementsOf, ByteRegisters
<1> QED BY <1>1, <1>2, <1>5, <1>6

\* Two sequences, one behind the other.
LEMMA Joined ==
    ASSUME NEW S, NEW s \in Seq(S), NEW t \in Seq(S)
    PROVE  /\ s \o t \in Seq(S) /\ Len(s \o t) = Len(s) + Len(t)
           /\ \A i \in 1 .. Len(s) : (s \o t)[i] = s[i]
           /\ \A i \in 1 .. Len(t) : (s \o t)[Len(s) + i] = t[i]
<1>1. Len(s) \in Nat /\ Len(t) \in Nat
  OBVIOUS
<1>2. s \o t \in Seq(S) /\ Len(s \o t) = Len(s) + Len(t)
  BY ConcatProperties
<1>3. ASSUME NEW i \in 1 .. Len(s) PROVE (s \o t)[i] = s[i]
  <2>1. i \in 1 .. Len(s) + Len(t) /\ i <= Len(s)
    BY <1>1
  <2>2. (s \o t)[i] = IF i <= Len(s) THEN s[i] ELSE t[i - Len(s)]
    BY <2>1, ConcatProperties, Zenon
  <2> QED BY <2>1, <2>2
<1>4. ASSUME NEW i \in 1 .. Len(t) PROVE (s \o t)[Len(s) + i] = t[i]
  <2> DEFINE k == Len(s) + i
  <2>1. k \in 1 .. Len(s) + Len(t) /\ ~(k <= Len(s)) /\ k - Len(s) = i
    BY <1>1
  <2>2. (s \o t)[k] = IF k <= Len(s) THEN s[k] ELSE t[k - Len(s)]
    <3> HIDE DEF k
    <3> QED BY <2>1, ConcatProperties, Zenon
  <2> QED BY <2>1, <2>2
<1> QED BY <1>2, <1>3, <1>4

\* The same of names, with the lengths named.
LEMMA JoinedNames ==
    ASSUME NEW s, NEW t, NEW n, NEW m,
           s \in Seq(RegisterNameSet) /\ t \in Seq(RegisterNameSet) /\ Len(s) = n /\ Len(t) = m
    PROVE  /\ s \o t \in Seq(RegisterNameSet) /\ Len(s \o t) = n + m
           /\ \A i \in 1 .. n : (s \o t)[i] = s[i]
           /\ \A i \in 1 .. m : (s \o t)[n + i] = t[i]
<1>1. \A a \in Seq(RegisterNameSet), b \in Seq(RegisterNameSet) :
         /\ a \o b \in Seq(RegisterNameSet) /\ Len(a \o b) = Len(a) + Len(b)
         /\ \A i \in 1 .. Len(a) : (a \o b)[i] = a[i]
         /\ \A i \in 1 .. Len(b) : (a \o b)[Len(a) + i] = b[i]
  BY Joined
<1>2. s \in Seq(RegisterNameSet) /\ t \in Seq(RegisterNameSet) /\ Len(s) = n /\ Len(t) = m
  OBVIOUS
<1>3. /\ s \o t \in Seq(RegisterNameSet) /\ Len(s \o t) = Len(s) + Len(t)
      /\ \A i \in 1 .. Len(s) : (s \o t)[i] = s[i]
      /\ \A i \in 1 .. Len(t) : (s \o t)[Len(s) + i] = t[i]
  BY <1>1, <1>2, Zenon
<1> QED BY <1>2, <1>3, Zenon

\* And of numbers.
LEMMA JoinedBytes ==
    ASSUME NEW s, NEW t, NEW n, NEW m,
           s \in Seq(Int) /\ t \in Seq(Int) /\ Len(s) = n /\ Len(t) = m
    PROVE  /\ s \o t \in Seq(Int) /\ Len(s \o t) = n + m
           /\ \A i \in 1 .. n : (s \o t)[i] = s[i]
           /\ \A i \in 1 .. m : (s \o t)[n + i] = t[i]
<1>1. \A a \in Seq(Int), b \in Seq(Int) :
         /\ a \o b \in Seq(Int) /\ Len(a \o b) = Len(a) + Len(b)
         /\ \A i \in 1 .. Len(a) : (a \o b)[i] = a[i]
         /\ \A i \in 1 .. Len(b) : (a \o b)[Len(a) + i] = b[i]
  BY Joined
<1>2. s \in Seq(Int) /\ t \in Seq(Int) /\ Len(s) = n /\ Len(t) = m
  OBVIOUS
<1>3. /\ s \o t \in Seq(Int) /\ Len(s \o t) = Len(s) + Len(t)
      /\ \A i \in 1 .. Len(s) : (s \o t)[i] = s[i]
      /\ \A i \in 1 .. Len(t) : (s \o t)[Len(s) + i] = t[i]
  BY <1>1, <1>2, Zenon
<1> QED BY <1>2, <1>3, Zenon

\* A code of a register below 8 is that of a word register, one above of a byte register.
LEMMA RegisterCodes ==
    /\ DOMAIN RegisterNames = 1 .. 16
    /\ \A i \in 1 .. 8 : RegisterNames[i] \in ElementsOf(WordRegisters)
    /\ \A i \in 9 .. 16 : RegisterNames[i] \in ElementsOf(ByteRegisters)
    /\ ElementsOf(WordRegisters) \cup ElementsOf(ByteRegisters)
           \subseteq ElementsOf(RegisterNames)
<1>1. /\ RegisterNames \in Seq(RegisterNameSet) /\ Len(RegisterNames) = 8 + 8
      /\ \A i \in 1 .. 8 : RegisterNames[i] = WordRegisters[i]
      /\ \A i \in 1 .. 8 : RegisterNames[8 + i] = ByteRegisters[i]
  <2>1. /\ WordRegisters \in Seq(RegisterNameSet) /\ ByteRegisters \in Seq(RegisterNameSet)
        /\ Len(WordRegisters) = 8 /\ Len(ByteRegisters) = 8
    BY Lists
  <2>2. RegisterNames = WordRegisters \o ByteRegisters
    BY DEF RegisterNames
  <2>3. ASSUME NEW s, NEW t,
               s \in Seq(RegisterNameSet) /\ t \in Seq(RegisterNameSet) /\ Len(s) = 8 /\ Len(t) = 8
        PROVE  /\ s \o t \in Seq(RegisterNameSet) /\ Len(s \o t) = 8 + 8
               /\ \A i \in 1 .. 8 : (s \o t)[i] = s[i]
               /\ \A i \in 1 .. 8 : (s \o t)[8 + i] = t[i]
    <3>1. PICK n, m : n = 8 /\ m = 8
      OBVIOUS
    <3>2. s \in Seq(RegisterNameSet) /\ t \in Seq(RegisterNameSet) /\ Len(s) = n /\ Len(t) = m
      BY <2>3, <3>1
    <3>3. /\ s \o t \in Seq(RegisterNameSet) /\ Len(s \o t) = n + m
          /\ \A i \in 1 .. n : (s \o t)[i] = s[i]
          /\ \A i \in 1 .. m : (s \o t)[n + i] = t[i]
      BY <3>2, JoinedNames
    <3> QED BY <3>1, <3>3
  <2>4. PICK s, t : s = WordRegisters /\ t = ByteRegisters
    OBVIOUS
  <2>5. /\ s \in Seq(RegisterNameSet) /\ t \in Seq(RegisterNameSet) /\ Len(s) = 8 /\ Len(t) = 8
        /\ RegisterNames = s \o t
    BY <2>1, <2>2, <2>4
  <2>6. /\ s \o t \in Seq(RegisterNameSet) /\ Len(s \o t) = 8 + 8
        /\ \A i \in 1 .. 8 : (s \o t)[i] = s[i]
        /\ \A i \in 1 .. 8 : (s \o t)[8 + i] = t[i]
    BY <2>3, <2>5, SMTT(20)
  <2> QED BY <2>4, <2>5, <2>6
<1>2. DOMAIN RegisterNames = 1 .. 16
  BY <1>1
<1>3. DOMAIN WordRegisters = 1 .. 8 /\ DOMAIN ByteRegisters = 1 .. 8
  BY Lists
<1>4. \A i \in 1 .. 8 : RegisterNames[i] \in ElementsOf(WordRegisters)
  BY <1>1, <1>3 DEF ElementsOf
<1>5. ASSUME NEW i \in 9 .. 16 PROVE RegisterNames[i] \in ElementsOf(ByteRegisters)
  <2>1. i - 8 \in 1 .. 8 /\ 8 + (i - 8) = i
    OBVIOUS
  <2>2. RegisterNames[8 + (i - 8)] = ByteRegisters[i - 8]
    BY <1>1, <2>1
  <2> QED BY <1>3, <2>1, <2>2 DEF ElementsOf
<1>6. ASSUME NEW i \in 1 .. 8 PROVE WordRegisters[i] \in ElementsOf(RegisterNames)
  BY <1>1, <1>2 DEF ElementsOf
<1>7. ASSUME NEW i \in 1 .. 8 PROVE ByteRegisters[i] \in ElementsOf(RegisterNames)
  <2>1. 8 + i \in 1 .. 16
    OBVIOUS
  <2> QED BY <1>1, <1>2, <2>1 DEF ElementsOf
<1> QED BY <1>2, <1>3, <1>4, <1>5, <1>6, <1>7 DEF ElementsOf

\* The CPU finds the length, the type and the register in the opbyte, and
\* refuses none that the assembler writes.
LEMMA OpByteRoundTrip ==
    ASSUME NEW op, IsOperand(op)
    PROVE  LET b == OpByte(op)
           IN  /\ b \div 128 + 1 = op.oplen
               /\ OpTypes[(b % 128) \div 16 + 1] = op.optype
               /\ (IF op.optype \in WithRegister THEN RegisterNames[(b % 16) + 1] ELSE "none")
                      = op.opreg
               /\ ValidOpByte(op.oplen, op.optype, b % 16)
<1> DEFINE a == op.oplen - 1
           t == Code(OpTypes, op.optype)
           c == IF op.optype \in WithRegister THEN Code(RegisterNames, op.opreg) ELSE 0
           b == OpByte(op)
<1>1. op.oplen \in {1, 2} /\ op.optype \in ElementsOf(OpTypes) /\ op.optype # "EXTENDED"
  BY DEF IsOperand
<1>2. a \in {0, 1} /\ a + 1 = op.oplen
  BY <1>1
<1>3. t \in 0 .. 7 /\ OpTypes[t + 1] = op.optype
  <2>1. t \in Int /\ t + 1 \in 1 .. 8 /\ OpTypes[t + 1] = op.optype
    BY <1>1, OperandTypeList, CodeIndex
  <2> QED BY <2>1
<1>4. op.optype \in WithRegister =>
         /\ op.opreg \in ElementsOf(WordRegisters) \cup ElementsOf(ByteRegisters)
         /\ op.opreg \in ElementsOf(RegisterNames)
         /\ op.opreg \in ElementsOf(ByteRegisters) <=> op.optype = "REGISTER" /\ op.oplen = 1
  <2>1. ElementsOf(WordRegisters) \cap ElementsOf(ByteRegisters) = {}
    BY Lists
  <2> QED BY <2>1, RegisterCodes DEF IsOperand
<1>5. /\ c \in 0 .. 15
      /\ op.optype \in WithRegister =>
            /\ RegisterNames[c + 1] = op.opreg
            /\ c < 8 <=> op.opreg \notin ElementsOf(ByteRegisters)
  <2>1. CASE op.optype \in WithRegister
    <3>1. c \in Int /\ c + 1 \in 1 .. 16 /\ RegisterNames[c + 1] = op.opreg
      BY <1>4, <2>1, RegisterCodes, CodeIndex
    <3>2. ElementsOf(WordRegisters) \cap ElementsOf(ByteRegisters) = {}
      BY Lists
    <3>3. c < 8 => c + 1 \in 1 .. 8
      BY <3>1
    <3>4. ~(c < 8) => c + 1 \in 9 .. 16
      BY <3>1
    <3> HIDE DEF c
    <3>5. c < 8 <=> op.opreg \notin ElementsOf(ByteRegisters)
      BY <3>1, <3>2, <3>3, <3>4, RegisterCodes
    <3> QED BY <3>1, <3>5
  <2>2. CASE op.optype \notin WithRegister
    BY <2>2
  <2> QED BY <2>1, <2>2
<1>6. b = a * 128 + t * 16 + c
  BY DEF OpByte
<1> HIDE DEF a, t, c, b
<1>7. b \div 128 = a /\ (b % 128) \div 16 = t /\ b % 16 = c
  BY <1>2, <1>3, <1>5, <1>6, PartsOfOpByte
<1>8. ValidOpByte(op.oplen, op.optype, c)
  BY <1>1, <1>4, <1>5, Lists DEF ValidOpByte, IsOperand, WithRegister
<1>9. (IF op.optype \in WithRegister THEN RegisterNames[c + 1] ELSE "none") = op.opreg
  BY <1>5 DEF IsOperand
<1> QED BY <1>2, <1>3, <1>7, <1>8, <1>9 DEF b

\* An operand has at most two numbers, each a different one, and those that it does
\* not have are 0.
LEMMA FieldsOfOperand ==
    ASSUME NEW op, IsOperand(op)
    PROVE  LET fields == Fields(op.oplen, op.optype)
           IN  /\ Len(fields) \in 0 .. 2 /\ DOMAIN fields = 1 .. Len(fields)
               /\ fields = <<>> <=> Len(fields) = 0
               /\ \A i \in 1 .. Len(fields) :
                     /\ fields[i][1] \in {"opvalue", "opoffset"}
                     /\ fields[i][2] \in {1, 2} /\ fields[i][3] \in BOOLEAN
                     /\ op[fields[i][1]] \in Int
               /\ Len(fields) = 2 => fields[1][1] # fields[2][1]
               /\ \A name \in {"opvalue", "opoffset"} :
                     (\A i \in 1 .. Len(fields) : fields[i][1] # name) => op[name] = 0
<1> DEFINE fields == Fields(op.oplen, op.optype)
           Good(fs) ==
               /\ Len(fs) \in 0 .. 2 /\ DOMAIN fs = 1 .. Len(fs)
               /\ fs = <<>> <=> Len(fs) = 0
               /\ \A i \in 1 .. Len(fs) :
                     /\ fs[i][1] \in {"opvalue", "opoffset"}
                     /\ fs[i][2] \in {1, 2} /\ fs[i][3] \in BOOLEAN
                     /\ op[fs[i][1]] \in Int
               /\ Len(fs) = 2 => fs[1][1] # fs[2][1]
               /\ \A name \in {"opvalue", "opoffset"} :
                     (\A i \in 1 .. Len(fs) : fs[i][1] # name) => op[name] = 0
<1>1. /\ op.oplen \in {1, 2} /\ op.optype \in ElementsOf(OpTypes) \ {"EXTENDED"}
      /\ op["opvalue"] \in Int /\ op["opoffset"] \in Int
      /\ op.optype \in {"REGISTER", "ABS_REF_REG"} => op["opvalue"] = 0
      /\ op.optype \notin {"ABS_REF_REG", "REL_REF_WORD_BYTE"} => op["opoffset"] = 0
  BY DEF IsOperand
<1>2. ASSUME NEW name \in {"opvalue", "opoffset"},
             NEW length \in {1, 2}, NEW signed \in BOOLEAN, op[name] \in Int,
             \A other \in {"opvalue", "opoffset"} : other # name => op[other] = 0,
             NEW fs, fs = << <<name, length, signed>> >>
      PROVE  Good(fs)
  <2>1. Len(fs) = 1 /\ DOMAIN fs = 1 .. 1 /\ fs # <<>>
    BY <1>2
  <2>2. fs[1][1] = name /\ fs[1][2] = length /\ fs[1][3] = signed
    BY <1>2
  <2> QED BY <1>2, <2>1, <2>2
<1>3. ASSUME NEW fs, fs = << <<"opvalue", 2, TRUE>>, <<"opoffset", 1, FALSE>> >>
      PROVE  Good(fs)
  <2>1. Len(fs) = 2 /\ DOMAIN fs = 1 .. 2 /\ fs # <<>>
    BY <1>3
  <2>2. /\ fs[1][1] = "opvalue" /\ fs[1][2] = 2 /\ fs[1][3] = TRUE
        /\ fs[2][1] = "opoffset" /\ fs[2][2] = 1 /\ fs[2][3] = FALSE
    BY <1>3
  <2>3. \A i \in 1 .. 2 : i = 1 \/ i = 2
    OBVIOUS
  <2>4. \A i \in 1 .. 2 :
           /\ fs[i][1] \in {"opvalue", "opoffset"}
           /\ fs[i][2] \in {1, 2} /\ fs[i][3] \in BOOLEAN
           /\ op[fs[i][1]] \in Int
    BY <1>1, <2>2, <2>3
  <2>5. \A name \in {"opvalue", "opoffset"} : \E i \in 1 .. 2 : fs[i][1] = name
    BY <2>2
  <2> HIDE DEF fields
  <2> QED BY <2>1, <2>2, <2>4, <2>5
<1>4. ASSUME NEW fs, fs = <<>>, op["opvalue"] = 0, op["opoffset"] = 0
      PROVE  Good(fs)
  BY <1>4
<1> HIDE DEF Good
<1>5. CASE op.optype = "VALUE"
  <2>1. fields = << <<"opvalue", op.oplen, FALSE>> >>
    BY <1>5 DEF Fields
  <2>2. Good(fields)
    BY <1>1, <1>2, <1>5, <2>1
  <2> QED BY <2>2 DEF Good
<1>6. CASE op.optype \in {"ADDRESS", "REL_REF_WORD", "REL_REF_WORD_REG"}
  <2>1. fields = << <<"opvalue", 2, TRUE>> >>
    BY <1>6 DEF Fields
  <2> QED BY <1>1, <1>2, <1>6, <2>1 DEF Good
<1>7. CASE op.optype = "REL_REF_WORD_BYTE"
  <2>1. fields = << <<"opvalue", 2, TRUE>>, <<"opoffset", 1, FALSE>> >>
    BY <1>7 DEF Fields
  <2> QED BY <1>3, <2>1 DEF Good
<1>8. CASE op.optype = "ABS_REF_REG"
  <2>1. fields = << <<"opoffset", 1, TRUE>> >>
    BY <1>8 DEF Fields
  <2> QED BY <1>1, <1>2, <1>8, <2>1 DEF Good
<1>9. CASE op.optype = "REGISTER"
  <2>1. fields = <<>>
    BY <1>9 DEF Fields
  <2> QED BY <1>1, <1>4, <1>9, <2>1 DEF Good
<1>10. op.optype \in {"VALUE", "ADDRESS", "REGISTER", "ABS_REF_REG", "REL_REF_WORD",
             "REL_REF_WORD_BYTE", "REL_REF_WORD_REG"}
  BY <1>1, OperandTypeList
<1> QED BY <1>5, <1>6, <1>7, <1>8, <1>9, <1>10

\* How many bytes a number is encoded in.
LEMMA BinaryBytes ==
    ASSUME NEW value \in Int, NEW length \in {1, 2}
    PROVE  ToBinary(value, length) \in Seq(Int) /\ Len(ToBinary(value, length)) = length
<1>1. GetLow(value) \in Int /\ GetHigh(value % WordSize) \in Int
  <2>1. value % WordSize \in Int
    BY SizesType
  <2> QED BY <2>1, HighAndLow, SizesType DEF Bytes
<1>2. PICK h \in Int, l \in Int : h = GetHigh(value % WordSize) /\ l = GetLow(value)
  BY <1>1
<1>3. CASE length = 1
  <2>1. ToBinary(value, length) = <<l>>
    BY <1>2, <1>3 DEF ToBinary
  <2>2. <<l>> \in Seq(Int) /\ Len(<<l>>) = 1
    OBVIOUS
  <2> QED BY <1>3, <2>1, <2>2
<1>4. CASE length = 2
  <2>1. ToBinary(value, length) = <<h, l>>
    BY <1>2, <1>4 DEF ToBinary
  <2>2. <<h, l>> \in Seq(Int) /\ Len(<<h, l>>) = 2
    OBVIOUS
  <2> QED BY <1>4, <2>1, <2>2
<1> QED BY <1>3, <1>4

\* What fits is decoded to what was encoded.
LEMMA BinaryRoundTrip ==
    ASSUME NEW length \in {1, 2}, NEW signed \in BOOLEAN, NEW value \in Int,
           Fits(value, length, signed)
    PROVE  value = IF signed THEN ToSigned(ToBinary(value, length))
                   ELSE ToNumber(ToBinary(value, length))
<1>1. CASE signed
  BY <1>1, SignedRoundTrip
<1>2. CASE ~signed
  <2>1. Size(length) \in Nat /\ Size(length) > 0
    BY SizesType DEF Size
  <2>2. 0 <= value /\ value < Size(length)
    BY <1>2, <2>1 DEF Fits
  <2>3. \A v, n \in Nat : v < n => v % n = v
    OBVIOUS
  <2>4. value % Size(length) = value
    BY <2>1, <2>2, <2>3
  <2> QED BY <1>2, <2>4, BinaryOfRemainder
<1> QED BY <1>1, <1>2

\* How many bytes behind the opbyte the i-th number has, if there is one.
Width(fields, i) == IF i <= Len(fields) THEN fields[i][2] ELSE 0

\* And how many bytes are between it and the opbyte.
Before(fields, i) == IF i = 1 THEN 0 ELSE fields[1][2]

\* The bytes of an operand: the opbyte, and the numbers one after the other.
LEMMA OpcodeOfOperand ==
    ASSUME NEW op, IsOperand(op), NEW fields, fields = Fields(op.oplen, op.optype),
           NEW opcode, opcode = OperandOpcode(op)
    PROVE  /\ opcode \in Seq(Int) /\ opcode[1] = OpByte(op)
           /\ Len(opcode) = 1 + Width(fields, 1) + Width(fields, 2)
           /\ \A i \in 1 .. Len(fields), j \in 1 .. 2 :
                 j <= fields[i][2] =>
                    opcode[1 + Before(fields, i) + j]
                        = ToBinary(op[fields[i][1]], fields[i][2])[j]
<1> DEFINE Encoded(i) == ToBinary(op[fields[i][1]], fields[i][2])
<1>1. PICK s : s = <<OpByte(op)>>
  OBVIOUS
<1>2. PICK t1 : t1 = IF Len(fields) > 0 THEN Encoded(1) ELSE <<>>
  OBVIOUS
<1>3. PICK t2 : t2 = IF Len(fields) > 1 THEN Encoded(2) ELSE <<>>
  OBVIOUS
<1>4. opcode = s \o t1 \o t2
  BY <1>1, <1>2, <1>3 DEF OperandOpcode
<1>5. /\ Len(fields) \in 0 .. 2
      /\ \A i \in 1 .. Len(fields) : fields[i][2] \in {1, 2} /\ op[fields[i][1]] \in Int
  BY FieldsOfOperand
<1>6. \A i \in 1 .. Len(fields) : Encoded(i) \in Seq(Int) /\ Len(Encoded(i)) = fields[i][2]
  BY <1>5, BinaryBytes
<1>7. OpByte(op) \in Int
  <2>1. op.oplen \in Int /\ Code(OpTypes, op.optype) \in Int
    BY OperandTypeList, CodeIndex DEF IsOperand
  <2>2. op.optype \in WithRegister => Code(RegisterNames, op.opreg) \in Int
    BY RegisterCodes, CodeIndex DEF IsOperand
  <2> QED BY <2>1, <2>2 DEF OpByte
<1>8. s \in Seq(Int) /\ Len(s) = 1 /\ s[1] = OpByte(op)
  BY <1>1, <1>7
<1>9. PICK w1, w2 : w1 = Width(fields, 1) /\ w2 = Width(fields, 2)
  OBVIOUS
<1>10. w1 \in 0 .. 2 /\ w2 \in 0 .. 2
  BY <1>5, <1>9 DEF Width
<1> HIDE DEF Encoded
<1>11. t1 \in Seq(Int) /\ Len(t1) = w1
  BY <1>2, <1>5, <1>6, <1>9 DEF Width
<1>12. t2 \in Seq(Int) /\ Len(t2) = w2
  BY <1>3, <1>5, <1>6, <1>9 DEF Width
<1>13. PICK st : st = s \o t1
  OBVIOUS
<1>14. /\ st \in Seq(Int) /\ Len(st) = 1 + w1 /\ \A i \in 1 .. 1 : st[i] = s[i]
       /\ \A j \in 1 .. w1 : st[1 + j] = t1[j]
  <2>1. PICK one : one = 1
    OBVIOUS
  <2>2. Len(s) = one
    BY <1>8, <2>1
  <2>3. /\ st \in Seq(Int) /\ Len(st) = one + w1 /\ \A i \in 1 .. one : st[i] = s[i]
        /\ \A j \in 1 .. w1 : st[one + j] = t1[j]
    BY <1>8, <1>11, <1>13, <2>2, JoinedBytes
  <2> QED BY <2>1, <2>3
<1>15. PICK n : n = 1 + w1
  OBVIOUS
<1>16. /\ opcode \in Seq(Int) /\ Len(opcode) = n + w2 /\ \A i \in 1 .. n : opcode[i] = st[i]
       /\ \A j \in 1 .. w2 : opcode[n + j] = t2[j]
  <2>1. opcode = st \o t2
    BY <1>4, <1>13
  <2>2. Len(st) = n
    BY <1>14, <1>15
  <2>3. st \in Seq(Int)
    BY <1>14
  <2>4. /\ st \o t2 \in Seq(Int) /\ Len(st \o t2) = n + w2
        /\ \A i \in 1 .. n : (st \o t2)[i] = st[i]
        /\ \A j \in 1 .. w2 : (st \o t2)[n + j] = t2[j]
    BY <1>12, <2>2, <2>3, JoinedBytes
  <2> QED BY <2>1, <2>4
<1>17. opcode[1] = OpByte(op) /\ \A j \in 1 .. w1 : opcode[1 + j] = t1[j]
  <2>1. 1 \in 1 .. n /\ \A j \in 1 .. w1 : 1 + j \in 1 .. n
    BY <1>10, <1>15
  <2> QED BY <1>8, <1>14, <1>16, <2>1
<1>18. ASSUME NEW i \in 1 .. Len(fields), NEW j \in 1 .. 2, j <= fields[i][2]
       PROVE  opcode[1 + Before(fields, i) + j] = Encoded(i)[j]
  <2>1. CASE i = 1
    <3>1. j \in 1 .. w1 /\ t1 = Encoded(1) /\ 1 + Before(fields, i) + j = 1 + j
      BY <1>2, <1>5, <1>9, <1>18, <2>1 DEF Width, Before
    <3> QED BY <1>17, <2>1, <3>1
  <2>2. CASE i = 2
    <3>1. j \in 1 .. w2 /\ t2 = Encoded(2) /\ n = 1 + Before(fields, i)
      BY <1>3, <1>5, <1>9, <1>15, <1>18, <2>2 DEF Width, Before
    <3> QED BY <1>16, <2>2, <3>1
  <2> QED BY <1>5, <2>1, <2>2
<1> QED BY <1>9, <1>10, <1>15, <1>16, <1>17, <1>18 DEF Encoded

\* The bytes of an operand are in the buffer from idx on, as far as it reaches.
Lies(opcode, buffer, idx) ==
    \A k \in 1 .. Len(opcode) :
        idx + k - 1 <= Len(buffer) => buffer[idx + k - 1] = opcode[k]

\* Where they end.
Behind(opcode, idx) == idx + Len(opcode)

\* parse_operand_buffer finds in the bytes of an operand, wherever they are, the
\* operand that get_operand_opcode was given, and where they end; and it finds it
\* when they are all there.
LEMMA OperandRoundTrip ==
    ASSUME NEW op, IsOperand(op), Encodable(op), NEW opcode, opcode = OperandOpcode(op),
           NEW buffer \in Seq(Int), NEW idx \in Nat \ {0},
           Lies(opcode, buffer, idx),
           ParseOperand(buffer, idx).ok \/ Behind(opcode, idx) <= Len(buffer) + 1
    PROVE  /\ ParseOperand(buffer, idx).ok
           /\ ParseOperand(buffer, idx).operand = op
           /\ ParseOperand(buffer, idx).next = Behind(opcode, idx)
           /\ ParseOperand(buffer, idx).next <= Len(buffer) + 1
<1> DEFINE opbyte == buffer[idx]
           oplen == (opbyte \div 128) + 1
           optype == OpTypes[(opbyte % 128) \div 16 + 1]
           code == opbyte % 16
           opreg == IF optype \in WithRegister THEN RegisterNames[code + 1] ELSE "none"
           fields == Fields(oplen, optype)
           Start(i) == idx + 1 + (IF i = 1 THEN 0 ELSE fields[1][2])
           Raw(i) == SubSeq(buffer, Start(i), Start(i) + fields[i][2] - 1)
           Decoded(i) == IF fields[i][3] THEN ToSigned(Raw(i)) ELSE ToNumber(Raw(i))
           Field(name) == IF \E i \in DOMAIN fields : fields[i][1] = name
                          THEN Decoded(CHOOSE i \in DOMAIN fields : fields[i][1] = name)
                          ELSE 0
           next == IF fields = <<>> THEN idx + 1
                   ELSE Start(Len(fields)) + fields[Len(fields)][2]
           succeeds == idx <= Len(buffer) /\ ValidOpByte(oplen, optype, code)
                           /\ next <= Len(buffer) + 1
           found == Operand(oplen, optype, opreg, Field("opvalue"), Field("opoffset"))
<1>1. ParseOperand(buffer, idx) =
         IF succeeds THEN [ok |-> TRUE, next |-> next, operand |-> found] ELSE [ok |-> FALSE]
  BY Zenon DEF ParseOperand
<1> HIDE DEF succeeds, found, next
<1>2. succeeds \/ Behind(opcode, idx) <= Len(buffer) + 1
  BY <1>1
<1>3. succeeds => /\ ParseOperand(buffer, idx).ok
                  /\ ParseOperand(buffer, idx).operand = found
                  /\ ParseOperand(buffer, idx).next = next
  BY <1>1
<1> HIDE DEF Field, fields
<1>5. PICK fs : fs = Fields(op.oplen, op.optype)
  OBVIOUS
<1>6. /\ opcode \in Seq(Int) /\ opcode[1] = OpByte(op)
      /\ Len(opcode) = 1 + Width(fs, 1) + Width(fs, 2)
      /\ \A i \in 1 .. Len(fs), j \in 1 .. 2 :
            j <= fs[i][2] => opcode[1 + Before(fs, i) + j]
                                 = ToBinary(op[fs[i][1]], fs[i][2])[j]
  BY <1>5, OpcodeOfOperand
<1>7. /\ Len(fs) \in 0 .. 2 /\ DOMAIN fs = 1 .. Len(fs)
      /\ fs = <<>> <=> Len(fs) = 0
      /\ \A i \in 1 .. Len(fs) :
            /\ fs[i][1] \in {"opvalue", "opoffset"}
            /\ fs[i][2] \in {1, 2} /\ fs[i][3] \in BOOLEAN
            /\ op[fs[i][1]] \in Int
      /\ Len(fs) = 2 => fs[1][1] # fs[2][1]
      /\ \A name \in {"opvalue", "opoffset"} :
            (\A i \in 1 .. Len(fs) : fs[i][1] # name) => op[name] = 0
  BY <1>5, FieldsOfOperand
<1>8. PICK w1 \in 0 .. 2, w2 \in 0 .. 2 : w1 = Width(fs, 1) /\ w2 = Width(fs, 2)
  BY <1>7 DEF Width
<1>9. PICK size \in Int : size = Len(opcode) /\ size = 1 + w1 + w2
  BY <1>6, <1>8
<1>4. idx <= Len(buffer)
  <2>1. CASE succeeds
    BY <2>1 DEF succeeds
  <2>2. CASE Behind(opcode, idx) <= Len(buffer) + 1
    <3>1. Behind(opcode, idx) = idx + size
      BY <1>9 DEF Behind
    <3> QED BY <1>9, <2>2, <3>1
  <2> QED BY <1>2, <2>1, <2>2
<1>10. /\ Len(fs) = 0 => w1 = 0 /\ w2 = 0
       /\ Len(fs) = 1 => w1 = fs[1][2] /\ w2 = 0
       /\ Len(fs) = 2 => w1 = fs[1][2] /\ w2 = fs[2][2]
  BY <1>8 DEF Width
<1>11. ASSUME NEW i \in 1 .. Len(fs)
       PROVE  /\ i = 1 => Before(fs, i) = 0 /\ fs[i][2] = w1
              /\ i = 2 => Before(fs, i) = w1 /\ fs[i][2] = w2
              /\ i \in {1, 2}
  <2>1. i \in {1, 2} /\ (i = 2 => Len(fs) = 2) /\ (i = 1 => Len(fs) \in {1, 2})
    BY <1>7, SMTT(20)
  <2>2. CASE i = 1
    BY <1>10, <2>1, <2>2 DEF Before
  <2>3. CASE i = 2
    BY <1>10, <2>1, <2>3 DEF Before
  <2> QED BY <2>1, <2>2, <2>3
<1>12. opbyte = OpByte(op)
  <2>1. 1 \in 1 .. Len(opcode)
    BY <1>9
  <2>2. idx + 1 - 1 = idx
    OBVIOUS
  <2> QED BY <1>4, <1>6, <2>1, <2>2 DEF Lies
<1>13. /\ oplen = op.oplen /\ optype = op.optype /\ opreg = op.opreg
       /\ ValidOpByte(oplen, optype, code)
  BY <1>12, OpByteRoundTrip
<1>14. fields = fs
  BY <1>5, <1>13 DEF fields
<1> HIDE DEF oplen, optype, code, opreg
<1>15. next = idx + size
  <2>1. CASE Len(fs) = 0
    BY <1>7, <1>14, <1>9, <1>10, <2>1 DEF next
  <2>2. CASE Len(fs) = 1
    BY <1>7, <1>14, <1>9, <1>10, <2>2, SMTT(20) DEF next
  <2>3. CASE Len(fs) = 2
    BY <1>7, <1>14, <1>9, <1>10, <2>3, SMTT(20) DEF next
  <2>4. Len(fs) = 0 \/ Len(fs) = 1 \/ Len(fs) = 2
    BY ONLY <1>7
  <2> QED BY <2>1, <2>2, <2>3, <2>4, Zenon
<1>19. succeeds /\ next <= Len(buffer) + 1
  <2>1. CASE succeeds
    BY <2>1 DEF succeeds
  <2>2. CASE Behind(opcode, idx) <= Len(buffer) + 1
    <3>1. Behind(opcode, idx) = next
      BY <1>9, <1>15 DEF Behind
    <3> QED BY <1>4, <1>13, <2>2, <3>1 DEF succeeds
  <2> QED BY <1>2, <2>1, <2>2
<1>16. ASSUME NEW i \in 1 .. Len(fs) PROVE Decoded(i) = op[fs[i][1]]
  <2>1. PICK w \in {1, 2}, value \in Int : w = fs[i][2] /\ value = op[fs[i][1]]
    BY <1>7
  <2>3. PICK before \in Nat : before = Before(fs, i)
    BY <1>11
  <2>4. 1 + before + w <= size
    <3>1. \/ before = 0 /\ w = w1
          \/ before = w1 /\ w = w2
      BY <1>11, <2>1, <2>3
    <3> QED BY <1>9, <3>1
  <2>5. PICK binary : binary = ToBinary(value, w)
    OBVIOUS
  <2>6. binary \in Seq(Int) /\ Len(binary) = w
    BY <2>5, BinaryBytes
  <2>7. \A j \in 1 .. w : opcode[1 + before + j] = binary[j]
    <3>1. \A j \in 1 .. w : j \in 1 .. 2 /\ j <= fs[i][2]
      BY <2>1
    <3> QED BY <1>6, <2>1, <2>3, <2>5, <3>1
  <2>8. \A j \in 1 .. w : buffer[idx + before + j] = binary[j]
    <3> TAKE j \in 1 .. w
    <3>1. /\ 1 + before + j \in 1 .. Len(opcode)
          /\ idx + (1 + before + j) - 1 = idx + before + j
          /\ idx + before + j <= Len(buffer)
      BY <1>19, <1>15, <1>9, <2>4
    <3> QED BY <2>7, <3>1 DEF Lies
  <2>9. PICK start : start = idx + 1 + before
    OBVIOUS
  <2>10. Raw(i) = SubSeq(buffer, start, start + w - 1)
    BY <1>14, <2>1, <2>3, <2>9 DEF Before
  <2>11. SubSeq(buffer, start, start + w - 1) = binary
    <3>1. /\ start \in 1 .. Len(buffer) /\ start + w - 1 \in 1 .. Len(buffer)
          /\ start <= start + w - 1 /\ (start + w - 1) - start + 1 = w
      BY <1>19, <1>15, <1>9, <2>4, <2>9
    <3>2. PICK raw : raw = SubSeq(buffer, start, start + w - 1)
      OBVIOUS
    <3>3. raw \in Seq(Int) /\ Len(raw) = w /\ \A j \in 1 .. w : raw[j] = buffer[start + j - 1]
      <4>1. /\ start \in Int /\ start + w - 1 \in Int
            /\ \A j \in start .. start + w - 1 : buffer[j] \in Int
        BY <3>1
      <4>2. PICK end \in Int : end = start + w - 1
        BY <4>1
      <4>3. /\ SubSeq(buffer, start, end) \in Seq(Int)
            /\ Len(SubSeq(buffer, start, end)) = IF start <= end THEN end - start + 1 ELSE 0
            /\ \A j \in 1 .. end - start + 1 :
                  SubSeq(buffer, start, end)[j] = buffer[start + j - 1]
        BY ONLY <4>1, <4>2, SubSeqProperties
      <4>4. start <= end /\ end - start + 1 = w
        BY <3>1, <4>2
      <4>5. raw = SubSeq(buffer, start, end)
        BY <3>2, <4>2
      <4> QED BY <4>3, <4>4, <4>5
    <3>4. \A j \in 1 .. w : raw[j] = binary[j]
      <4> TAKE j \in 1 .. w
      <4>1. start + j - 1 = idx + before + j
        BY <2>4, <2>9
      <4> QED BY <2>8, <3>3, <4>1
    <3>5. raw = binary
      BY <2>6, <3>3, <3>4, SeqEqual
    <3> QED BY <3>2, <3>5
  <2>12. PICK signed : signed = fs[i][3]
    OBVIOUS
  <2>13. signed \in BOOLEAN /\ Fits(value, w, signed)
    BY <1>5, <1>7, <2>1, <2>12 DEF Encodable
  <2>14. (IF signed THEN ToSigned(binary) ELSE ToNumber(binary)) = value
    BY <2>5, <2>13, BinaryRoundTrip
  <2> QED BY <1>14, <2>1, <2>10, <2>11, <2>12, <2>14
<1> HIDE DEF Decoded
<1>17. ASSUME NEW name \in {"opvalue", "opoffset"} PROVE Field(name) = op[name]
  <2>1. CASE \E i \in DOMAIN fields : fields[i][1] = name
    <3>1. PICK i : i = CHOOSE k \in DOMAIN fields : fields[k][1] = name
      OBVIOUS
    <3>2. i \in DOMAIN fields /\ fields[i][1] = name
      BY <2>1, <3>1
    <3>3. Decoded(i) = op[name]
      BY <1>7, <1>14, <1>16, <3>2
    <3> QED BY <2>1, <3>1, <3>3 DEF Field
  <2>2. CASE ~\E i \in DOMAIN fields : fields[i][1] = name
    BY <1>7, <1>14, <2>2 DEF Field
  <2> QED BY <2>1, <2>2
<1>18. found = op
  <2>1. /\ op = [oplen |-> op.oplen, optype |-> op.optype, opreg |-> op.opreg,
                 opvalue |-> op["opvalue"], opoffset |-> op["opoffset"]]
    BY DEF IsOperand
  <2>2. found = [oplen |-> op.oplen, optype |-> op.optype, opreg |-> op.opreg,
                 opvalue |-> op["opvalue"], opoffset |-> op["opoffset"]]
    BY <1>13, <1>17 DEF found, Operand
  <2> QED BY <2>1, <2>2
<1> QED BY <1>3, <1>19, <1>15, <1>18, <1>9 DEF Behind

-----------------------------------------------------------------------------
(* The operands of an instruction, one behind the other *)

\* Three sequences, one behind the other.
LEMMA ThreeJoined ==
    ASSUME NEW o1 \in Seq(Int), NEW o2 \in Seq(Int), NEW o3 \in Seq(Int),
           NEW whole, whole = o1 \o o2 \o o3
    PROVE  /\ whole \in Seq(Int) /\ Len(whole) = Len(o1) + Len(o2) + Len(o3)
           /\ \A k \in 1 .. Len(o1) : whole[k] = o1[k]
           /\ \A k \in 1 .. Len(o2) : whole[Len(o1) + k] = o2[k]
           /\ \A k \in 1 .. Len(o3) : whole[Len(o1) + Len(o2) + k] = o3[k]
<1>1. \A a \in Seq(Int), b \in Seq(Int) :
         /\ a \o b \in Seq(Int) /\ Len(a \o b) = Len(a) + Len(b)
         /\ \A i \in 1 .. Len(a) : (a \o b)[i] = a[i]
         /\ \A i \in 1 .. Len(b) : (a \o b)[Len(a) + i] = b[i]
  BY Joined
<1>2. /\ o1 \o o2 \in Seq(Int) /\ Len(o1 \o o2) = Len(o1) + Len(o2)
      /\ \A i \in 1 .. Len(o1) : (o1 \o o2)[i] = o1[i]
      /\ \A i \in 1 .. Len(o2) : (o1 \o o2)[Len(o1) + i] = o2[i]
  BY <1>1, Zenon
<1>3. PICK o12 \in Seq(Int) : o12 = o1 \o o2
  BY <1>2
<1>4. /\ o12 \o o3 \in Seq(Int) /\ Len(o12 \o o3) = Len(o12) + Len(o3)
      /\ \A i \in 1 .. Len(o12) : (o12 \o o3)[i] = o12[i]
      /\ \A i \in 1 .. Len(o3) : (o12 \o o3)[Len(o12) + i] = o3[i]
  BY <1>1, Zenon
<1>5. /\ Len(o12) = Len(o1) + Len(o2)
      /\ \A i \in 1 .. Len(o1) : o12[i] = o1[i]
      /\ \A i \in 1 .. Len(o2) : o12[Len(o1) + i] = o2[i]
  BY <1>2, <1>3, Zenon
<1>6. /\ whole \in Seq(Int) /\ Len(whole) = Len(o12) + Len(o3)
      /\ \A i \in 1 .. Len(o12) : whole[i] = o12[i]
      /\ \A i \in 1 .. Len(o3) : whole[Len(o12) + i] = o3[i]
  BY <1>3, <1>4, Zenon
<1>7. Len(o1) \in Nat /\ Len(o2) \in Nat /\ Len(o3) \in Nat
  OBVIOUS
<1>8. ASSUME NEW k \in 1 .. Len(o1) PROVE whole[k] = o1[k]
  <2>1. k \in 1 .. Len(o12)
    BY <1>5, <1>7
  <2> QED BY <1>5, <1>6, <2>1
<1>9. ASSUME NEW k \in 1 .. Len(o2) PROVE whole[Len(o1) + k] = o2[k]
  <2>1. Len(o1) + k \in 1 .. Len(o12)
    BY <1>5, <1>7
  <2> QED BY <1>5, <1>6, <2>1
<1>10. ASSUME NEW k \in 1 .. Len(o3) PROVE whole[Len(o1) + Len(o2) + k] = o3[k]
  BY <1>5, <1>6
<1>11. Len(whole) = Len(o1) + Len(o2) + Len(o3)
  BY <1>5, <1>6
<1> QED BY <1>6, <1>8, <1>9, <1>10, <1>11

\* Before the first turn of the loop in parse_operand_buffer, and one turn of it.
Beginning == [ok |-> TRUE, operands |-> <<>>, next |-> 1]
Turn(buffer, p) ==
    IF ~p.ok THEN [ok |-> FALSE]
    ELSE LET op == ParseOperand(buffer, p.next)
         IN  IF op.ok
             THEN [ok |-> TRUE, next |-> op.next,
                   operands |-> Append(p.operands, op.operand)]
             ELSE [ok |-> FALSE]

\* The turns of the loop.
LEMMA Turns ==
    ASSUME NEW buffer, NEW count \in Nat
    PROVE  \E P : /\ P[0] = Beginning
                  /\ \A n \in 1 .. count : P[n] = Turn(buffer, P[n - 1])
                  /\ ParseOperandBuffer(buffer, count) = P[count]
<1> DEFINE Step(g, n) == IF n = 0 THEN Beginning ELSE Turn(buffer, g[n - 1])
           Built(g, m) == DOMAIN g = 0 .. m /\ \A n \in 0 .. m : g[n] = Step(g, n)
           S == {m \in Nat : \E g : Built(g, m)}
           f == CHOOSE parsed : parsed = [n \in 0 .. count |-> Step(parsed, n)]
<1>1. ParseOperandBuffer(buffer, count) = f[count]
  BY Zenon DEF ParseOperandBuffer, Turn, Beginning
<1> HIDE DEF f
<1>2. 0 \in S
  <2>1. PICK g : g = [n \in 0 .. 0 |-> Beginning]
    OBVIOUS
  <2>2. Built(g, 0)
    BY <2>1
  <2> HIDE DEF Built
  <2> QED BY <2>2
<1>3. ASSUME NEW m \in Nat, m \in S PROVE m + 1 \in S
  <2>1. PICK g : Built(g, m)
    <3> HIDE DEF Built
    <3> QED BY <1>3
  <2>2. PICK h : h = [n \in 0 .. m + 1 |-> IF n = m + 1 THEN Step(g, n) ELSE g[n]]
    OBVIOUS
  <2>3. ASSUME NEW n \in 0 .. m + 1 PROVE h[n] = Step(h, n)
    <3>1. Step(h, n) = Step(g, n)
      <4>1. CASE n = 0
        BY <4>1
      <4>2. CASE n # 0
        <5>1. h[n - 1] = g[n - 1]
          BY <2>2, <4>2
        <5> QED BY <4>2, <5>1
      <4> QED BY <4>1, <4>2
    <3>2. h[n] = Step(g, n)
      <4> HIDE DEF Step
      <4>1. n # m + 1 => n \in 0 .. m
        OBVIOUS
      <4> QED BY <2>1, <2>2, <4>1
    <3> QED BY <3>1, <3>2
  <2> HIDE DEF Step
  <2>4. Built(h, m + 1)
    BY <2>2, <2>3
  <2> HIDE DEF Built
  <2> QED BY <2>4
<1>4. count \in S
  <2> HIDE DEF S
  <2> QED BY <1>2, <1>3, Induction
<1>5. PICK g : Built(g, count)
  <2> HIDE DEF Built
  <2> QED BY <1>4
<1>6. \E parsed : parsed = [n \in 0 .. count |-> Step(parsed, n)]
  <2>1. PICK h : h = [n \in 0 .. count |-> g[n]]
    OBVIOUS
  <2>2. ASSUME NEW n \in 0 .. count PROVE h[n] = Step(h, n)
    <3>1. CASE n = 0
      BY <1>5, <2>1, <3>1
    <3>2. CASE n # 0
      <4>1. n - 1 \in 0 .. count
        BY <3>2
      <4>2. h[n - 1] = g[n - 1]
        BY <2>1, <4>1
      <4> QED BY <1>5, <2>1, <3>2, <4>2
    <3> QED BY <3>1, <3>2
  <2> HIDE DEF Step
  <2>3. h = [n \in 0 .. count |-> Step(h, n)]
    BY <2>1, <2>2, Zenon
  <2> QED BY <2>3
<1>7. f = [n \in 0 .. count |-> Step(f, n)]
  <2> HIDE DEF Step
  <2> QED BY <1>6, Zenon DEF f
<1>8. \A n \in 0 .. count : f[n] = Step(f, n)
  <2> HIDE DEF Step
  <2> QED BY <1>7
<1>9. f[0] = Beginning /\ \A n \in 1 .. count : f[n] = Turn(buffer, f[n - 1])
  BY <1>8
<1> QED BY <1>1, <1>9

\* A turn that reads the bytes of an operand.
LEMMA TurnOf ==
    ASSUME NEW op, IsOperand(op), Encodable(op), NEW opcode, opcode = OperandOpcode(op),
           NEW buffer \in Seq(Int), NEW p, p.next \in Nat \ {0},
           Lies(opcode, buffer, p.next),
           Turn(buffer, p).ok \/ (p.ok /\ Behind(opcode, p.next) <= Len(buffer) + 1)
    PROVE  /\ p.ok /\ Turn(buffer, p).ok
           /\ Turn(buffer, p).operands = Append(p.operands, op)
           /\ Turn(buffer, p).next = Behind(opcode, p.next)
           /\ Turn(buffer, p).next <= Len(buffer) + 1
<1>1. PICK idx \in Nat \ {0} : idx = p.next
  OBVIOUS
<1>2. PICK parsed : parsed = ParseOperand(buffer, idx)
  OBVIOUS
<1>3. p.ok /\ (parsed.ok \/ Behind(opcode, idx) <= Len(buffer) + 1)
  BY <1>1, <1>2 DEF Turn
<1>4. /\ parsed.ok /\ parsed.operand = op /\ parsed.next = Behind(opcode, idx)
      /\ parsed.next <= Len(buffer) + 1
  <2>1. Lies(opcode, buffer, idx)
    BY <1>1
  <2>2. ParseOperand(buffer, idx).ok \/ Behind(opcode, idx) <= Len(buffer) + 1
    BY <1>2, <1>3
  <2>3. /\ ParseOperand(buffer, idx).ok
        /\ ParseOperand(buffer, idx).operand = op
        /\ ParseOperand(buffer, idx).next = Behind(opcode, idx)
        /\ ParseOperand(buffer, idx).next <= Len(buffer) + 1
    BY <2>1, <2>2, OperandRoundTrip
  <2> QED BY <1>2, <2>3
<1>5. Turn(buffer, p) = [ok |-> TRUE, next |-> parsed.next,
                         operands |-> Append(p.operands, parsed.operand)]
  BY <1>1, <1>2, <1>3, <1>4 DEF Turn
<1> QED BY <1>1, <1>3, <1>4, <1>5

\* A part of a sequence of bytes, behind so many of them.
PartOf(part, whole, before) ==
    /\ before + Len(part) <= Len(whole)
    /\ \A k \in 1 .. Len(part) : whole[before + k] = part[k]

\* The buffer begins with these bytes, as far as it reaches.
BeginsWith(buffer, whole) ==
    \A i \in 1 .. Len(buffer) : i <= Len(whole) => buffer[i] = whole[i]

\* Then their parts lie in it.
LEMMA PartLies ==
    ASSUME NEW buffer \in Seq(Int), NEW whole \in Seq(Int), NEW part \in Seq(Int),
           NEW before \in Nat,
           BeginsWith(buffer, whole), PartOf(part, whole, before),
           NEW idx \in Nat, idx = before + 1
    PROVE  Lies(part, buffer, idx)
<1>1. PICK reach \in Nat, size \in Nat, length \in Nat :
         reach = Len(buffer) /\ size = Len(part) /\ length = Len(whole)
  OBVIOUS
<1> SUFFICES ASSUME NEW k \in 1 .. size, idx + k - 1 <= reach
             PROVE  buffer[idx + k - 1] = part[k]
  BY <1>1 DEF Lies
<1>2. idx + k - 1 = before + k
  OBVIOUS
<1>3. before + size <= length
  BY <1>1 DEF PartOf
<1>4. before + k \in 1 .. reach /\ before + k <= length
  BY <1>2, <1>3
<1>5. whole[before + k] = part[k]
  BY <1>1 DEF PartOf
<1> QED BY <1>1, <1>2, <1>4, <1>5 DEF BeginsWith

\* One element more.
LEMMA Prefix ==
    ASSUME NEW S, NEW s \in Seq(S), NEW n \in 0 .. Len(s) - 1, NEW m, m = n + 1
    PROVE  Append(SubSeq(s, 1, n), s[m]) = SubSeq(s, 1, m)
OBVIOUS
=============================================================================

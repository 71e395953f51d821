--------------------------- MODULE ExecutionProofs ---------------------------
(***************************************************************************)
(* Proofs about the operands and the instructions: an operand is decoded   *)
(* as it was encoded, an instruction computes exactly what it should and   *)
(* changes nothing else, and the data registers hold words, whatever the   *)
(* instructions compute and whatever operands they have.                   *)
(***************************************************************************)
EXTENDS Execution, MemoryProofs, SequenceTheorems

\* The words that the byte registers are halves of.
LEMMA RegisterLists ==
    /\ ElementsOf(WordRegisters) = {"AX", "BX", "CX", "DX", "BP", "SP", "SI", "DI"}
    /\ DOMAIN LowHalves = {"AL", "BL", "CL", "DL"}
    /\ DOMAIN HighHalves = {"AH", "BH", "CH", "DH"}
    /\ \A name \in DOMAIN LowHalves : LowHalves[name] \in ElementsOf(WordRegisters)
    /\ \A name \in DOMAIN HighHalves : HighHalves[name] \in ElementsOf(WordRegisters)
<1>1. ElementsOf(WordRegisters) = {"AX", "BX", "CX", "DX", "BP", "SP", "SI", "DI"}
  BY Lists
<1>2. /\ DOMAIN LowHalves = {"AL", "BL", "CL", "DL"}
      /\ DOMAIN HighHalves = {"AH", "BH", "CH", "DH"}
  BY DEF LowHalves, HighHalves
<1>3. \A name \in DOMAIN LowHalves : LowHalves[name] \in ElementsOf(WordRegisters)
  BY <1>1 DEF LowHalves
<1>4. \A name \in DOMAIN HighHalves : HighHalves[name] \in ElementsOf(WordRegisters)
  BY <1>1 DEF HighHalves
<1> QED BY <1>1, <1>2, <1>3, <1>4

\* read_instruction and parse_operand_buffer: if an instruction can be parsed at
\* all, its operands are those it was assembled from, and it ends where their bytes
\* end, whatever lies behind them.
LEMMA InstructionRoundTrip ==
    ASSUME NEW operands \in Seq(OperandSet), Len(operands) \in 1 .. 3,
           \A i \in DOMAIN operands : Encodable(operands[i]),
           NEW parsed, parsed = ParseOperandBuffer(OperandBuffer(operands), Len(operands)),
           parsed.ok
    PROVE  /\ parsed.operands = operands
           /\ parsed.next = 1 + Len(Opcode(operands))
           /\ parsed.next \in 1 .. OperandBufferSize + 1
<1>1. PICK count \in {1, 2, 3} : count = Len(operands)
  OBVIOUS
<1>2. \A i \in 1 .. count : IsOperand(operands[i]) /\ Encodable(operands[i])
  BY <1>1, ExecutionAssumption
<1>3. \A i \in 1 .. count : OperandOpcode(operands[i]) \in Seq(Int)
  BY <1>2, OpcodeOfOperand
<1>4. PICK o1 \in Seq(Int) : o1 = OperandOpcode(operands[1])
  BY <1>3
<1>5. PICK o2 \in Seq(Int) : o2 = IF count > 1 THEN OperandOpcode(operands[2]) ELSE <<>>
  <2>1. <<>> \in Seq(Int)
    OBVIOUS
  <2>2. count > 1 => OperandOpcode(operands[2]) \in Seq(Int)
    BY <1>3
  <2> QED BY <2>1, <2>2
<1>6. PICK o3 \in Seq(Int) : o3 = IF count > 2 THEN OperandOpcode(operands[3]) ELSE <<>>
  <2>1. <<>> \in Seq(Int)
    OBVIOUS
  <2>2. count > 2 => OperandOpcode(operands[3]) \in Seq(Int)
    BY <1>3
  <2> QED BY <2>1, <2>2
<1>7. PICK opcode : opcode = Opcode(operands)
  OBVIOUS
<1>8. opcode = o1 \o o2 \o o3
  BY <1>1, <1>4, <1>5, <1>6, <1>7 DEF Opcode
<1>9. /\ opcode \in Seq(Int) /\ Len(opcode) = Len(o1) + Len(o2) + Len(o3)
      /\ \A k \in 1 .. Len(o1) : opcode[k] = o1[k]
      /\ \A k \in 1 .. Len(o2) : opcode[Len(o1) + k] = o2[k]
      /\ \A k \in 1 .. Len(o3) : opcode[Len(o1) + Len(o2) + k] = o3[k]
  BY <1>8, ThreeJoined
<1>10. PICK buffer : buffer = OperandBuffer(operands)
  OBVIOUS
<1>11. /\ buffer \in Seq(Int) /\ Len(buffer) = OperandBufferSize
       /\ \A i \in 1 .. Len(buffer) : i <= Len(opcode) => buffer[i] = opcode[i]
  <2>1. buffer = [i \in 1 .. OperandBufferSize |-> IF i <= Len(opcode) THEN opcode[i] ELSE 0]
    BY <1>7, <1>10 DEF OperandBuffer
  <2>2. OperandBufferSize \in Nat
    BY ExecutionAssumption
  <2>3. \A i \in 1 .. OperandBufferSize : (IF i <= Len(opcode) THEN opcode[i] ELSE 0) \in Int
    BY <1>9
  <2>4. buffer \in [1 .. OperandBufferSize -> Int]
    BY <2>1, <2>3
  <2>5. buffer \in Seq(Int) /\ Len(buffer) = OperandBufferSize
    BY <2>2, <2>4
  <2> QED BY <2>1, <2>5
<1>12. PICK l1 \in Nat, l2 \in Nat, l3 \in Nat : l1 = Len(o1) /\ l2 = Len(o2) /\ l3 = Len(o3)
  OBVIOUS
<1>13. /\ Lies(o1, buffer, 1)
       /\ Lies(o2, buffer, Behind(o1, 1))
       /\ Lies(o3, buffer, Behind(o2, Behind(o1, 1)))
  <2>1. PICK whole \in Seq(Int) : whole = opcode
    BY <1>9
  <2>2. PICK input \in Seq(Int) : input = buffer
    BY <1>11
  <2>3. BeginsWith(input, whole)
    BY <1>11, <2>1, <2>2 DEF BeginsWith
  <2>4. PICK length \in Nat : length = Len(whole) /\ length = l1 + l2 + l3
    BY <1>9, <1>12, <2>1
  <2>5. Lies(o1, input, 1)
    <3>1. PartOf(o1, whole, 0)
      BY <1>9, <1>12, <2>1, <2>4 DEF PartOf
    <3> QED BY <2>3, <3>1, PartLies
  <2>6. Lies(o2, input, Behind(o1, 1))
    <3>1. PartOf(o2, whole, l1)
      BY <1>9, <1>12, <2>1, <2>4 DEF PartOf
    <3>2. PICK idx \in Nat : idx = l1 + 1
      OBVIOUS
    <3>3. Lies(o2, input, idx)
      BY <2>3, <3>1, <3>2, PartLies
    <3>4. Behind(o1, 1) = idx
      BY <1>12, <3>2 DEF Behind
    <3> QED BY <3>3, <3>4
  <2>7. Lies(o3, input, Behind(o2, Behind(o1, 1)))
    <3>1. PICK before \in Nat, idx \in Nat : before = l1 + l2 /\ idx = before + 1
      OBVIOUS
    <3>2. PartOf(o3, whole, before)
      BY <1>9, <1>12, <2>1, <2>4, <3>1 DEF PartOf
    <3>3. Lies(o3, input, idx)
      BY <2>3, <3>1, <3>2, PartLies
    <3>4. Behind(o2, Behind(o1, 1)) = idx
      BY <1>12, <3>1 DEF Behind
    <3> QED BY <3>3, <3>4
  <2> QED BY <2>2, <2>5, <2>6, <2>7
<1>14. PICK p1, p2, p3 :
         /\ p1 = Turn(buffer, Beginning) /\ p2 = Turn(buffer, p1) /\ p3 = Turn(buffer, p2)
         /\ parsed = IF count = 1 THEN p1 ELSE IF count = 2 THEN p2 ELSE p3
  <2>1. parsed = ParseOperandBuffer(buffer, count)
    BY <1>1, <1>10
  <2>2. PICK P : /\ P[0] = Beginning
                 /\ \A n \in 1 .. count : P[n] = Turn(buffer, P[n - 1])
                 /\ ParseOperandBuffer(buffer, count) = P[count]
    <3>1. count \in Nat
      OBVIOUS
    <3> QED BY ONLY <3>1, Turns
  <2>3. /\ P[1] = Turn(buffer, Beginning)
        /\ count > 1 => P[2] = Turn(buffer, P[1])
        /\ count > 2 => P[3] = Turn(buffer, P[2])
    BY <2>2
  <2>4. PICK p2, p3 : p2 = Turn(buffer, P[1]) /\ p3 = Turn(buffer, p2)
    OBVIOUS
  <2>5. ParseOperandBuffer(buffer, count) = IF count = 1 THEN P[1] ELSE IF count = 2 THEN p2 ELSE p3
    BY <2>2, <2>3, <2>4
  <2> QED BY <2>1, <2>3, <2>4, <2>5
<1>15. \A p : Turn(buffer, p).ok => p.ok
  BY DEF Turn
<1>16. p1.ok /\ (count > 1 => p2.ok) /\ (count > 2 => p3.ok)
  BY <1>14, <1>15
<1>17. PICK n1 \in Nat \ {0}, n2 \in Nat \ {0} : n1 = Behind(o1, 1) /\ n2 = Behind(o2, n1)
  <2>1. Behind(o1, 1) = 1 + l1 /\ 1 + l1 \in Nat \ {0}
    BY <1>12 DEF Behind
  <2>2. PICK n \in Nat \ {0} : n = Behind(o1, 1)
    BY <2>1
  <2>3. Behind(o2, n) = n + l2 /\ n + l2 \in Nat \ {0}
    BY <1>12 DEF Behind
  <2> QED BY <2>2, <2>3
<1>18. /\ p1.operands = Append(<<>>, operands[1]) /\ p1.next = n1
       /\ p1.next <= Len(buffer) + 1
  <2>1. Beginning.next = 1 /\ Beginning.operands = <<>>
    BY DEF Beginning
  <2>2. Lies(o1, buffer, Beginning.next) /\ Beginning.next \in Nat \ {0}
    BY <1>13, <2>1
  <2>3. PICK op : op = operands[1] /\ IsOperand(op) /\ Encodable(op) /\ o1 = OperandOpcode(op)
    BY <1>2, <1>4
  <2>4. PICK input \in Seq(Int) : input = buffer
    BY <1>11
  <2>5. Turn(input, Beginning).ok /\ Lies(o1, input, Beginning.next)
    BY <1>14, <1>16, <2>2, <2>4
  <2>6. /\ Turn(input, Beginning).operands = Append(Beginning.operands, op)
        /\ Turn(input, Beginning).next = Behind(o1, Beginning.next)
        /\ Turn(input, Beginning).next <= Len(input) + 1
    BY <2>2, <2>3, <2>5, TurnOf, SMTT(30)
  <2> QED BY <1>14, <1>17, <2>1, <2>3, <2>4, <2>6
<1>19. ASSUME count > 1
       PROVE  /\ p2.operands = Append(p1.operands, operands[2]) /\ p2.next = n2
              /\ p2.next <= Len(buffer) + 1
  <2>2. Lies(o2, buffer, p1.next) /\ p1.next \in Nat \ {0}
    BY <1>13, <1>17, <1>18
  <2>3. PICK op : op = operands[2] /\ IsOperand(op) /\ Encodable(op) /\ o2 = OperandOpcode(op)
    BY <1>2, <1>5, <1>19
  <2>4. PICK input \in Seq(Int) : input = buffer
    BY <1>11
  <2>5. Turn(input, p1).ok /\ Lies(o2, input, p1.next)
    BY <1>14, <1>16, <1>19, <2>2, <2>4
  <2>6. /\ Turn(input, p1).operands = Append(p1.operands, op)
        /\ Turn(input, p1).next = Behind(o2, p1.next)
        /\ Turn(input, p1).next <= Len(input) + 1
    BY <2>2, <2>3, <2>5, TurnOf, SMTT(20)
  <2> QED BY <1>14, <1>17, <1>18, <2>3, <2>4, <2>6
<1>20. ASSUME count > 2
       PROVE  /\ p3.operands = Append(p2.operands, operands[3]) /\ p3.next = Behind(o3, n2)
              /\ p3.next <= Len(buffer) + 1
  <2>1. count > 1
    BY <1>20
  <2>2. Lies(o3, buffer, p2.next) /\ p2.next \in Nat \ {0}
    BY <1>13, <1>17, <1>19, <2>1
  <2>3. PICK op : op = operands[3] /\ IsOperand(op) /\ Encodable(op) /\ o3 = OperandOpcode(op)
    BY <1>2, <1>6, <1>20
  <2>4. PICK input \in Seq(Int) : input = buffer
    BY <1>11
  <2>5. Turn(input, p2).ok /\ Lies(o3, input, p2.next)
    BY <1>14, <1>16, <1>20, <2>2, <2>4
  <2>6. /\ Turn(input, p2).operands = Append(p2.operands, op)
        /\ Turn(input, p2).next = Behind(o3, p2.next)
        /\ Turn(input, p2).next <= Len(input) + 1
    BY <2>2, <2>3, <2>5, TurnOf, SMTT(20)
  <2> QED BY <1>14, <1>17, <1>19, <2>1, <2>3, <2>4, <2>6
<1>21. /\ count < 2 => l2 = 0
       /\ count < 3 => l3 = 0
       /\ n1 = 1 + l1 /\ n2 = 1 + l1 + l2 /\ Behind(o3, n2) = 1 + l1 + l2 + l3
  BY <1>5, <1>6, <1>12, <1>17 DEF Behind
<1>22. parsed.next = 1 + Len(opcode) /\ parsed.next <= OperandBufferSize + 1
  <2>1. Len(opcode) = l1 + l2 + l3
    BY <1>9, <1>12
  <2>2. CASE count = 1
    BY <1>11, <1>14, <1>18, <1>21, <2>1, <2>2
  <2>3. CASE count = 2
    BY <1>11, <1>14, <1>19, <1>21, <2>1, <2>3
  <2>4. CASE count = 3
    BY <1>11, <1>14, <1>20, <1>21, <2>1, <2>4
  <2> QED BY <2>2, <2>3, <2>4
<1>23. p1.operands = SubSeq(operands, 1, 1)
  <2>1. SubSeq(operands, 1, 0) = <<>>
    OBVIOUS
  <2> QED BY <1>1, <1>18, <2>1, Prefix
<1>24. count > 1 => p2.operands = SubSeq(operands, 1, 2)
  <2>1. count > 1 => Append(SubSeq(operands, 1, 1), operands[2]) = SubSeq(operands, 1, 2)
    BY <1>1, Prefix
  <2> QED BY <1>19, <1>23, <2>1
<1>25. count > 2 => p3.operands = SubSeq(operands, 1, 3)
  <2>1. count > 2 => Append(SubSeq(operands, 1, 2), operands[3]) = SubSeq(operands, 1, 3)
    BY <1>1, Prefix
  <2>2. count > 2 => count > 1
    OBVIOUS
  <2> QED BY <1>20, <1>24, <2>1, <2>2
<1>26. parsed.operands = SubSeq(operands, 1, count)
  <2>1. CASE count = 1
    BY <1>14, <1>23, <2>1
  <2>2. CASE count = 2
    BY <1>14, <1>24, <2>2
  <2>3. CASE count = 3
    BY <1>14, <1>25, <2>3
  <2> QED BY <2>1, <2>2, <2>3
<1>27. SubSeq(operands, 1, Len(operands)) = operands
  OBVIOUS
<1> QED BY <1>1, <1>7, <1>9, <1>12, <1>22, <1>26, <1>27

-----------------------------------------------------------------------------
(* The values of operands *)

\* Registers.set_register of a value that fits leaves words in all registers.
LEMMA SetRegisterKeepsWords ==
    ASSUME NEW regs \in [ElementsOf(WordRegisters) -> Words], NEW name, NEW value,
           Fits(value, RegisterLength(name), FALSE)
    PROVE  SetRegister(regs, name, value) \in [ElementsOf(WordRegisters) -> Words]
<1>1. CASE name \in DOMAIN LowHalves
  <2>1. name \notin ElementsOf(WordRegisters)
    BY <1>1, RegisterLists
  <2>2. value \in Bytes
    BY <2>1 DEF Fits, RegisterLength, Size, Bytes
  <2>3. SetLow(regs[LowHalves[name]], value) \in Words
    BY <1>1, <2>2, RegisterLists, HalvesIndependent
  <2> QED BY <1>1, <2>3, RegisterLists DEF SetRegister
<1>2. CASE name \notin DOMAIN LowHalves /\ name \in DOMAIN HighHalves
  <2>1. name \notin ElementsOf(WordRegisters)
    BY <1>2, RegisterLists
  <2>2. value \in Bytes
    BY <2>1 DEF Fits, RegisterLength, Size, Bytes
  <2>3. SetHigh(regs[HighHalves[name]], value) \in Words
    BY <1>2, <2>2, RegisterLists, HalvesIndependent
  <2> QED BY <1>2, <2>3, RegisterLists DEF SetRegister
<1>3. CASE name \notin DOMAIN LowHalves /\ name \notin DOMAIN HighHalves
  <2>1. SetRegister(regs, name, value) = [regs EXCEPT ![name] = value]
    BY <1>3 DEF SetRegister
  <2>2. name \in ElementsOf(WordRegisters) => value \in Words
    BY DEF Fits, RegisterLength, Size, Words
  <2> QED BY <2>1, <2>2
<1> QED BY <1>1, <1>2, <1>3

\* An instruction that wrote its destination leaves words in all registers.
LEMMA InstructionKeepsWords ==
    ASSUME RegistersAreWords, NEW op, NEW value, CanSet(op, value, registers, ip)
    PROVE  SetInRegisters(op, value, registers) \in [ElementsOf(WordRegisters) -> Words]
<1>1. CASE Referenced(op)
  BY <1>1 DEF SetInRegisters, RegistersAreWords
<1>2. CASE ~Referenced(op)
  <2>1. op.optype = "REGISTER"
    BY <1>2 DEF CanSet
  <2>2. Fits(value, RegisterLength(op.opreg), FALSE)
    BY <1>2, <2>1, Zenon DEF CanSet, Referenced
  <2> QED BY <1>2, <2>2, SetRegisterKeepsWords DEF SetInRegisters, RegistersAreWords
<1> QED BY <1>1, <1>2

\* What a program can have at an instruction's address: up to three operands, the
\* first one at least, of those the tokenizer makes.
LEMMA OperandsOfOperation ==
    ASSUME NEW name, NEW operands, <<name, operands>> \in Operations
    PROVE  /\ name \in DOMAIN Arithmetic \cup DOMAIN Jumps \cup {"JMP"}
           /\ operands \in Seq(OperandSet) /\ Len(operands) \in 1 .. 3
           /\ name \in DOMAIN Jumps => Len(operands) = 3
           /\ name \in DOMAIN Arithmetic =>
                 Len(operands) = IF Arithmetic[name].sources = <<2, 3>> THEN 3 ELSE 2
<1> DOMAIN Arithmetic \cap DOMAIN Jumps = {} /\ "JMP" \notin DOMAIN Arithmetic
  BY DEF Arithmetic, Jumps
<1>1. CASE <<name, operands>> \in OfThree \X (Destinations \X FirstSources \X SecondSources)
  <2>1. name \in OfThree /\ operands \in Destinations \X FirstSources \X SecondSources
    BY <1>1
  <2>2. PICK a \in OperandSet, b \in OperandSet, c \in OperandSet : operands = <<a, b, c>>
    BY <2>1 DEF OperandSet
  <2>3. <<a, b, c>> \in Seq(OperandSet) /\ Len(<<a, b, c>>) = 3
    OBVIOUS
  <2>4. name \in DOMAIN Arithmetic /\ Arithmetic[name].sources = <<2, 3>>
    BY <2>1 DEF OfThree
  <2> QED BY <2>2, <2>3, <2>4
<1>2. CASE <<name, operands>> \in OfTwo \X (Destinations \X FirstSources)
  <2>1. name \in OfTwo /\ operands \in Destinations \X FirstSources
    BY <1>2
  <2>2. PICK a \in OperandSet, b \in OperandSet : operands = <<a, b>>
    BY <2>1 DEF OperandSet
  <2>3. <<a, b>> \in Seq(OperandSet) /\ Len(<<a, b>>) = 2
    OBVIOUS
  <2>4. name \in DOMAIN Arithmetic /\ Arithmetic[name].sources # <<2, 3>>
    BY <2>1 DEF OfTwo, OfThree
  <2> QED BY <2>2, <2>3, <2>4
<1>3. CASE <<name, operands>>
              \in (DOMAIN Jumps) \X (FirstSources \X SecondSources \X JumpTargets)
  <2>1. name \in DOMAIN Jumps /\ operands \in FirstSources \X SecondSources \X JumpTargets
    BY <1>3
  <2>2. PICK a \in OperandSet, b \in OperandSet, c \in OperandSet : operands = <<a, b, c>>
    BY <2>1 DEF OperandSet
  <2>3. <<a, b, c>> \in Seq(OperandSet) /\ Len(<<a, b, c>>) = 3
    OBVIOUS
  <2> QED BY <2>1, <2>2, <2>3
<1>4. CASE <<name, operands>> \in {"JMP"} \X {<<target>> : target \in JumpTargets}
  <2>1. name = "JMP" /\ operands \in {<<target>> : target \in JumpTargets}
    BY <1>4
  <2>2. PICK a \in OperandSet : operands = <<a>>
    BY <2>1 DEF OperandSet
  <2>3. <<a>> \in Seq(OperandSet) /\ Len(<<a>>) = 1
    OBVIOUS
  <2>4. "JMP" \notin DOMAIN Jumps
    BY DEF Jumps
  <2> QED BY <2>1, <2>2, <2>3, <2>4
<1> QED BY <1>1, <1>2, <1>3, <1>4 DEF Operations

\* What is read at an address of the RAM or of the tables is a number.
LEMMA ReadIsANumber ==
    ASSUME NEW mem \in [RamAddresses -> Int], NEW pos \in Int, NEW length \in {1, 2},
           Readable(pos, length)
    PROVE  Read(mem, pos, length) \in Int
<1>1. /\ RamSize \in Nat /\ RegistrySize \in Nat /\ StatusSize \in Nat
      /\ RegistryAddress = RamSize /\ StatusAddress = RamSize + RegistrySize
      /\ DeviceTables \in [RegistryAddresses \cup StatusAddresses -> Bytes]
      /\ ByteSize \in Nat
  BY MemoryAssumption, SizesType
<1>2. ASSUME NEW at \in RamAddresses \cup RegistryAddresses \cup StatusAddresses
      PROVE  ReadByte(mem, at) \in Int
  <2>1. CASE at \in RamAddresses
    BY <1>1, <2>1 DEF ReadByte, RamAddresses
  <2>2. CASE at \in RegistryAddresses \cup StatusAddresses
    <3>1. at \in Int /\ ~(at < RamSize)
      BY <1>1, <2>2 DEF RegistryAddresses, StatusAddresses
    <3>2. DeviceTables[at] \in Int
      BY <1>1, <2>2 DEF Bytes
    <3> QED BY <3>1, <3>2 DEF ReadByte
  <2> QED BY <2>1, <2>2
<1>3. CASE length = 1
  <2>1. ReadByte(mem, pos) \in Int
    BY <1>2, <1>3, BytesInAnArea
  <2> QED BY <1>3, <2>1 DEF Read
<1>4. CASE length = 2
  <2>1. PICK area \in {RamAddresses, RegistryAddresses, StatusAddresses} :
          {pos, pos + 1} \subseteq area
    BY <1>4, WordsInOneArea
  <2>2. ReadByte(mem, pos) \in Int /\ ReadByte(mem, pos + 1) \in Int
    BY <1>2, <2>1
  <2>3. PICK high \in Int, low \in Int :
          high = ReadByte(mem, pos) /\ low = ReadByte(mem, pos + 1)
    BY <2>2
  <2>4. high * ByteSize + low \in Int
    BY <1>1
  <2> QED BY <1>4, <2>3, <2>4 DEF Read
<1> QED BY <1>3, <1>4

\* What a register holds is a number.
LEMMA RegisterIsANumber ==
    ASSUME NEW regs \in [ElementsOf(WordRegisters) -> Words],
           NEW name \in ElementsOf(WordRegisters) \cup ElementsOf(ByteRegisters)
    PROVE  GetRegister(regs, name) \in Int
<1>1. \A word \in ElementsOf(WordRegisters) : regs[word] \in Int /\ regs[word] \in Words
  BY SizesType DEF Words
<1>2. \A word \in Int : GetLow(word) \in Int /\ GetHigh(word) \in Int
  BY HighAndLow, SizesType DEF Bytes
<1>3. name \in DOMAIN LowHalves => LowHalves[name] \in ElementsOf(WordRegisters)
  BY RegisterLists
<1>4. name \in DOMAIN HighHalves => HighHalves[name] \in ElementsOf(WordRegisters)
  BY RegisterLists
<1>5. name \notin DOMAIN LowHalves /\ name \notin DOMAIN HighHalves
         => name \in ElementsOf(WordRegisters)
  BY RegisterLists, Lists
<1> QED BY <1>1, <1>2, <1>3, <1>4, <1>5 DEF GetRegister

\* So is the address an operand refers to.
LEMMA AddressIsANumber ==
    ASSUME NEW op, IsOperand(op), Referenced(op),
           NEW regs \in [ElementsOf(WordRegisters) -> Words], NEW at \in Int
    PROVE  ReferenceAddress(op, regs, at) \in Int
<1>1. /\ op.oplen \in {1, 2} /\ op.opvalue \in Int /\ op.opoffset \in Int
      /\ op.optype \in ElementsOf(OpTypes) \ {"EXTENDED"}
  BY DEF IsOperand
<1>2. op.optype \in {"ABS_REF_REG", "REL_REF_WORD", "REL_REF_WORD_BYTE", "REL_REF_WORD_REG"}
  BY <1>1, OperandTypeList DEF Referenced
<1>3. ASSUME op.optype \in {"ABS_REF_REG", "REL_REF_WORD_REG"} PROVE regs[op.opreg] \in Int
  <2>1. op.opreg \in ElementsOf(WordRegisters)
    BY <1>3 DEF IsOperand, WithRegister
  <2>2. regs[op.opreg] \in Words
    BY <2>1
  <2> QED BY <2>2, SizesType DEF Words
<1> QED BY <1>1, <1>2, <1>3 DEF ReferenceAddress

\* And its value, if getting it raises no exception.
LEMMA OperandIsANumber ==
    ASSUME NEW op, IsOperand(op), NEW regs \in [ElementsOf(WordRegisters) -> Words],
           NEW mem \in [RamAddresses -> Int], NEW at \in Int, CanGet(op, regs, at)
    PROVE  GetOperandValue(op, regs, mem, at) \in Int
<1>1. /\ op.oplen \in {1, 2} /\ op.opvalue \in Int /\ op.opoffset \in Int
      /\ op.optype \in ElementsOf(OpTypes) \ {"EXTENDED"}
  BY DEF IsOperand
<1>2. CASE op.optype \in {"VALUE", "ADDRESS"}
  BY <1>1, <1>2 DEF GetOperandValue
<1>3. CASE op.optype = "REGISTER"
  <2>1. op.opreg \in ElementsOf(WordRegisters) \cup ElementsOf(ByteRegisters)
    BY <1>3 DEF IsOperand, WithRegister
  <2> QED BY <1>3, <2>1, RegisterIsANumber DEF GetOperandValue
<1>4. CASE op.optype \notin {"VALUE", "ADDRESS", "REGISTER"}
  <2>1. Readable(ReferenceAddress(op, regs, at), op.oplen)
    BY <1>4 DEF CanGet, Referenced
  <2>2. ReferenceAddress(op, regs, at) \in Int
    BY <1>4, AddressIsANumber DEF Referenced
  <2>3. Read(mem, ReferenceAddress(op, regs, at), op.oplen) \in Int
    BY <1>1, <2>1, <2>2, ReadIsANumber
  <2> QED BY <1>4, <2>3 DEF GetOperandValue
<1> QED BY <1>2, <1>3, <1>4

\* What an instruction would do is the same as long as the registers, the RAM and
\* ip are.
LEMMA BoundKept ==
    ASSUME UNCHANGED <<registers, ram, ip>>, NEW name, NEW operands
    PROVE  WithinBound(name, operands)' = WithinBound(name, operands)
<1>1. registers' = registers /\ ram' = ram /\ ip' = ip
  OBVIOUS
<1>2. ASSUME NEW what, NEW op
      PROVE  ValueOf(what, op)' = ValueOf(what, op)
  BY <1>1 DEF ValueOf
<1>3. ASSUME NEW what
      PROVE  /\ Gets(what, operands)' = Gets(what, operands)
             /\ First(what, operands)' = First(what, operands)
             /\ Second(what, operands)' = Second(what, operands)
  <2>1. Gets(what, operands)' = Gets(what, operands)
    BY <1>1 DEF Gets
  <2>2. First(what, operands)' = First(what, operands)
    BY <1>2 DEF First
  <2>3. Second(what, operands)' = Second(what, operands)
    BY <1>2 DEF Second
  <2> QED BY <2>1, <2>2, <2>3
<1>4. ASSUME NEW what
      PROVE  /\ Computes(what, operands)' = Computes(what, operands)
             /\ Result(what, operands)' = Result(what, operands)
  <2>1. Computes(what, operands)' = Computes(what, operands)
    BY <1>3 DEF Computes
  <2>2. Result(what, operands)' = Result(what, operands)
    BY <1>3 DEF Result
  <2> QED BY <2>1, <2>2
<1>5. ASSUME NEW what
      PROVE  /\ Succeeds(what, operands)' = Succeeds(what, operands)
             /\ Stored(what, operands)' = Stored(what, operands)
  <2>1. Stores(what, operands)' = Stores(what, operands)
    <3>1. /\ Computes(what, operands)' = Computes(what, operands)
          /\ Result(what, operands)' = Result(what, operands)
      BY <1>4
    <3> QED BY <3>1, Zenon DEF Stores
  <2>2. Stored(what, operands)' = Stored(what, operands)
    BY <1>4 DEF Stored
  <2>3. Succeeds(what, operands)' = Succeeds(what, operands)
    BY <1>1, <2>1, <2>2 DEF Succeeds
  <2> QED BY <2>2, <2>3
<1> QED BY <1>1, <1>5 DEF WithinBound

-----------------------------------------------------------------------------
(* The invariant *)

\* The decoded instruction is one that the program may have, and its result is one
\* that the RAM may hold.
Decoded ==
    inst # NoInstruction =>
        /\ <<inst.name, inst.assembled>> \in Operations
        /\ WithinBound(inst.name, inst.assembled)

\* The inductive invariant.
ExecutionInv == TypeOK /\ DecodedAsAssembled /\ Decoded

\* While no instruction has been decoded.
LEMMA BetweenInstructions ==
    ASSUME RegistersAreWords', ram' \in [RamAddresses -> MinCell .. MaxCell], ip' \in Int,
           status' \in {"on", "error"}, inst' = NoInstruction
    PROVE  ExecutionInv'
BY DEF ExecutionInv, TypeOK, DecodedAsAssembled, Decoded

\* An exception changes neither the registers nor the RAM.
LEMMA FailKeeps ==
    ASSUME ExecutionInv, Fail
    PROVE  ExecutionInv'
<1>1. UNCHANGED <<registers, ram, ip>> /\ status' = "error" /\ inst' = NoInstruction
  BY DEF Fail
<1> QED BY <1>1, BetweenInstructions DEF ExecutionInv, TypeOK, RegistersAreWords

\* The next instruction lies behind this one.
LEMMA FollowingAddress ==
    ASSUME ExecutionInv, inst # NoInstruction
    PROVE  ip + inst.opcode_length \in Int
<1>1. ip \in Int /\ inst.opcode_length \in 1 .. OperandBufferSize + 1
  BY DEF ExecutionInv, TypeOK
<1>2. inst.opcode_length \in Int
  BY <1>1, ExecutionAssumption
<1> QED BY <1>1, <1>2

\* The operands of the decoded instruction.
LEMMA OperandsOfInstruction ==
    ASSUME ExecutionInv, inst # NoInstruction
    PROVE  /\ inst.operands \in Seq(OperandSet) /\ Len(inst.operands) \in 1 .. 3
           /\ inst.name \in DOMAIN Jumps => Len(inst.operands) = 3
           /\ inst.name \in DOMAIN Arithmetic =>
                 Len(inst.operands) = IF Arithmetic[inst.name].sources = <<2, 3>> THEN 3 ELSE 2
           /\ \A i \in 1 .. Len(inst.operands) : IsOperand(inst.operands[i])
<1>1. <<inst.name, inst.assembled>> \in Operations /\ inst.operands = inst.assembled
  BY DEF ExecutionInv, DecodedAsAssembled, Decoded
<1>2. /\ inst.operands \in Seq(OperandSet) /\ Len(inst.operands) \in 1 .. 3
      /\ inst.name \in DOMAIN Jumps => Len(inst.operands) = 3
      /\ inst.name \in DOMAIN Arithmetic =>
            Len(inst.operands) = IF Arithmetic[inst.name].sources = <<2, 3>> THEN 3 ELSE 2
  BY <1>1, OperandsOfOperation
<1>3. \A i \in 1 .. Len(inst.operands) : inst.operands[i] \in OperandSet
  BY <1>2
<1> QED BY <1>2, <1>3, ExecutionAssumption

\* A jump goes to a number.
LEMMA TargetIsANumber ==
    ASSUME ExecutionInv, inst # NoInstruction, NEW i \in 1 .. Len(inst.operands),
           CanGet(inst.operands[i], registers, ip)
    PROVE  GetOperandValue(inst.operands[i], registers, ram, ip) \in Int
<1>1. IsOperand(inst.operands[i])
  BY OperandsOfInstruction
<1>2. /\ registers \in [ElementsOf(WordRegisters) -> Words] /\ ip \in Int
      /\ ram \in [RamAddresses -> MinCell .. MaxCell]
  BY DEF ExecutionInv, TypeOK, RegistersAreWords
<1>3. ram \in [RamAddresses -> Int]
  BY <1>2, ExecutionAssumption
<1> QED BY <1>1, <1>2, <1>3, OperandIsANumber

\* In the beginning no instruction has been decoded.
LEMMA ExecutionInitInv == Init => ExecutionInv
<1> SUFFICES ASSUME Init PROVE ExecutionInv
  OBVIOUS
<1>1. 0 \in Words /\ BottomOfStack \in Words /\ 0 \in MinCell .. MaxCell
  BY SizesType, ExecutionAssumption DEF Words
<1>2. InstructionAddress \in Int
  BY SizesType, ExecutionAssumption DEF Words
<1>3. RegistersAreWords
  BY <1>1 DEF Init, RegistersAreWords
<1>4. ram \in [RamAddresses -> MinCell .. MaxCell]
  BY <1>1 DEF Init
<1>5. inst = NoInstruction /\ status = "on" /\ ip = InstructionAddress
  BY DEF Init
<1> QED BY <1>2, <1>3, <1>4, <1>5 DEF ExecutionInv, TypeOK, DecodedAsAssembled, Decoded

\* What is fetched is decoded as it was assembled.
LEMMA FetchKeeps ==
    ASSUME ExecutionInv, Fetch
    PROVE  ExecutionInv'
<1>1. PICK operation \in Operations :
        /\ \A i \in DOMAIN operation[2] : Encodable(operation[2][i])
        /\ WithinBound(operation[1], operation[2])
        /\ LET parsed == ParseOperandBuffer(OperandBuffer(operation[2]), Len(operation[2]))
           IN  \/ /\ ~parsed.ok /\ Fail
               \/ /\ parsed.ok
                  /\ inst' = [name |-> operation[1], assembled |-> operation[2],
                              operands |-> parsed.operands, opcode_length |-> parsed.next]
                  /\ UNCHANGED <<registers, ram, ip, status>>
  BY DEF Fetch
<1>2. PICK name, operands : name = operation[1] /\ operands = operation[2]
  OBVIOUS
<1>3. operation = <<name, operands>>
  BY <1>1, <1>2 DEF Operations
<1>4. PICK parsed : parsed = ParseOperandBuffer(OperandBuffer(operands), Len(operands))
  OBVIOUS
<1>5. CASE Fail
  BY <1>5, FailKeeps
<1>6. CASE /\ parsed.ok
           /\ inst' = [name |-> name, assembled |-> operands,
                       operands |-> parsed.operands, opcode_length |-> parsed.next]
           /\ UNCHANGED <<registers, ram, ip, status>>
  <2>1. /\ name \in DOMAIN Arithmetic \cup DOMAIN Jumps \cup {"JMP"}
        /\ operands \in Seq(OperandSet) /\ Len(operands) \in 1 .. 3
    BY <1>3, OperandsOfOperation
  <2>2. \A i \in DOMAIN operands : Encodable(operands[i])
    BY <1>1, <1>2
  <2>3. /\ parsed.operands = operands
        /\ parsed.next = 1 + Len(Opcode(operands))
        /\ parsed.next \in 1 .. OperandBufferSize + 1
    BY <1>4, <1>6, <2>1, <2>2, InstructionRoundTrip
  <2>4. /\ inst'.name = name /\ inst'.assembled = operands
        /\ inst'.operands = operands /\ inst'.opcode_length = parsed.next
    BY <1>6, <2>3
  <2>5. WithinBound(name, operands)'
    <3>1. WithinBound(name, operands)
      BY <1>1, <1>2
    <3> QED BY <1>6, <3>1, BoundKept
  <2>6. Decoded'
    <3>1. <<inst'.name, inst'.assembled>> \in Operations
      BY <1>3, <2>4
    <3> QED BY <2>4, <2>5, <3>1 DEF Decoded
  <2>7. DecodedAsAssembled'
    BY <2>3, <2>4 DEF DecodedAsAssembled
  <2>8. TypeOK'
    BY <1>6, <2>1, <2>3, <2>4 DEF ExecutionInv, TypeOK, RegistersAreWords
  <2> QED BY <2>6, <2>7, <2>8 DEF ExecutionInv
<1> QED BY <1>1, <1>2, <1>4, <1>5, <1>6

\* The bound on the bytes of the RAM was met when the instruction was fetched, and
\* nothing has changed since.
LEMMA ExecuteKeeps ==
    ASSUME ExecutionInv, Execute
    PROVE  ExecutionInv'
<1>1. PICK what : what = Arithmetic[inst.name]
  OBVIOUS
<1>2. inst # NoInstruction /\ inst.name \in DOMAIN Arithmetic
  BY DEF Execute
<1>3. CASE Fail
  BY <1>3, FailKeeps
<1>4. CASE /\ Succeeds(what, inst.operands)
           /\ registers' = SetInRegisters(inst.operands[1],
                               Stored(what, inst.operands), registers)
           /\ ram' = SetInRam(inst.operands[1],
                               Stored(what, inst.operands), registers, ram, ip)
           /\ ip' = ip + inst.opcode_length
           /\ inst' = NoInstruction /\ UNCHANGED status
  <2>1. RegistersAreWords'
    <3>1. RegistersAreWords
      BY DEF ExecutionInv, TypeOK
    <3>2. CanSet(inst.operands[1], Stored(what, inst.operands), registers, ip)
      BY <1>4 DEF Succeeds
    <3> QED BY <1>4, <3>1, <3>2, InstructionKeepsWords DEF RegistersAreWords
  <2>2. ram' \in [RamAddresses -> MinCell .. MaxCell]
    <3>1. WithinBound(inst.name, inst.operands)
      BY <1>2 DEF ExecutionInv, DecodedAsAssembled, Decoded
    <3>2. \A pos \in RamAddresses : ram'[pos] \in MinCell .. MaxCell
      BY <1>1, <1>2, <1>4, <3>1 DEF WithinBound
    <3>3. ram \in [RamAddresses -> MinCell .. MaxCell]
      BY DEF ExecutionInv, TypeOK
    <3>4. \E image : ram' \in [RamAddresses -> image]
      <4> DEFINE op == inst.operands[1]
                 value == Stored(what, inst.operands)
                 address == ReferenceAddress(op, registers, ip)
      <4>1. CASE Referenced(op)
        <5>1. ram' = Write(ram, address, op.oplen, value)
          BY <1>4, <4>1 DEF SetInRam
        <5>2. PICK a, length, v, mem :
                a = address /\ length = op.oplen /\ v = value /\ mem = ram
          OBVIOUS
        <5>3. ram' = Write(mem, a, length, v)
          BY <5>1, <5>2
        <5>4. Write(mem, a, length, v)
                 \in [RamAddresses -> (MinCell .. MaxCell) \cup {v, GetHigh(v), GetLow(v)}]
          BY <3>3, <5>2 DEF Write
        <5> QED BY <5>3, <5>4
      <4>2. CASE ~Referenced(op)
        BY <1>4, <3>3, <4>2 DEF SetInRam
      <4> QED BY <4>1, <4>2
    <3> QED BY <3>2, <3>4
  <2>3. ip' \in Int
    BY <1>2, <1>4, FollowingAddress
  <2>4. status' \in {"on", "error"}
    BY <1>4 DEF ExecutionInv, TypeOK
  <2> QED BY <1>4, <2>1, <2>2, <2>3, <2>4, BetweenInstructions
<1> QED BY <1>1, <1>3, <1>4 DEF Execute

\* A conditional jump goes to its target or to the next instruction.
LEMMA JumpKeeps ==
    ASSUME ExecutionInv, Jump
    PROVE  ExecutionInv'
<1>1. PICK target : target = inst.operands[3]
  OBVIOUS
<1>2. inst # NoInstruction /\ inst.name \in DOMAIN Jumps
  BY DEF Jump
<1>3. PICK taken \in BOOLEAN :
        \/ Fail
        \/ /\ taken => CanGet(target, registers, ip)
           /\ ip' = IF taken THEN GetOperandValue(target, registers, ram, ip)
                    ELSE ip + inst.opcode_length
           /\ inst' = NoInstruction /\ UNCHANGED <<registers, ram, status>>
  <2> DEFINE what == Jumps[inst.name]
             taken == Holds(what.kind, First(what, inst.operands), Second(what, inst.operands))
  <2>1. \/ Fail
        \/ /\ taken => CanGet(target, registers, ip)
           /\ ip' = IF taken THEN GetOperandValue(target, registers, ram, ip)
                    ELSE ip + inst.opcode_length
           /\ inst' = NoInstruction /\ UNCHANGED <<registers, ram, status>>
    BY <1>1 DEF Jump
  <2> HIDE DEF taken
  <2>2. CASE taken
    BY <2>1, <2>2
  <2>3. CASE ~taken
    BY <2>1, <2>3
  <2> QED BY <2>2, <2>3
<1>4. CASE Fail
  BY <1>4, FailKeeps
<1>5. CASE /\ taken => CanGet(target, registers, ip)
           /\ ip' = IF taken THEN GetOperandValue(target, registers, ram, ip)
                    ELSE ip + inst.opcode_length
           /\ inst' = NoInstruction /\ UNCHANGED <<registers, ram, status>>
  <2>1. 3 \in 1 .. Len(inst.operands)
    BY <1>2, OperandsOfInstruction
  <2>2. ip' \in Int
    BY <1>1, <1>2, <1>5, <2>1, FollowingAddress, TargetIsANumber
  <2> QED BY <1>5, <2>2, BetweenInstructions DEF ExecutionInv, TypeOK, RegistersAreWords
<1> QED BY <1>3, <1>4, <1>5

\* An unconditional one goes to its target.
LEMMA JmpKeeps ==
    ASSUME ExecutionInv, Jmp
    PROVE  ExecutionInv'
<1>1. inst # NoInstruction
  BY DEF Jmp
<1>2. CASE Fail
  BY <1>2, FailKeeps
<1>3. CASE /\ CanGet(inst.operands[1], registers, ip)
           /\ ip' = GetOperandValue(inst.operands[1], registers, ram, ip)
           /\ inst' = NoInstruction /\ UNCHANGED <<registers, ram, status>>
  <2>1. 1 \in 1 .. Len(inst.operands)
    BY <1>1, OperandsOfInstruction
  <2>2. ip' \in Int
    BY <1>1, <1>3, <2>1, TargetIsANumber
  <2> QED BY <1>3, <2>2, BetweenInstructions DEF ExecutionInv, TypeOK, RegistersAreWords
<1> QED BY <1>2, <1>3 DEF Jmp

\* Nothing happens.
LEMMA UnchangedKeeps ==
    ASSUME ExecutionInv, UNCHANGED vars
    PROVE  ExecutionInv'
<1>1. /\ registers' = registers /\ ram' = ram /\ ip' = ip
      /\ inst' = inst /\ status' = status
  BY DEF vars
<1>2. ASSUME NEW name, NEW operands, WithinBound(name, operands)
      PROVE  WithinBound(name, operands)'
  BY <1>1, <1>2, BoundKept
<1>3. Decoded'
  <2>1. PICK name, operands : name = inst.name /\ operands = inst.assembled
    OBVIOUS
  <2>2. inst # NoInstruction =>
           <<name, operands>> \in Operations /\ WithinBound(name, operands)
    BY <2>1 DEF ExecutionInv, Decoded
  <2>3. inst # NoInstruction => WithinBound(name, operands)'
    BY <1>2, <2>2
  <2>4. inst'.name = name /\ inst'.assembled = operands
    BY <1>1, <2>1
  <2> QED BY <1>1, <2>2, <2>3, <2>4 DEF Decoded
<1>4. TypeOK'
  BY <1>1 DEF ExecutionInv, TypeOK, RegistersAreWords
<1>5. DecodedAsAssembled'
  BY <1>1 DEF ExecutionInv, DecodedAsAssembled
<1> QED BY <1>3, <1>4, <1>5 DEF ExecutionInv

\* Every step keeps the invariant.
LEMMA ExecutionNextInv == ExecutionInv /\ [Next]_vars => ExecutionInv'
<1> SUFFICES ASSUME ExecutionInv, [Next]_vars
             PROVE  ExecutionInv'
  OBVIOUS
<1>1. CASE Fetch
  BY <1>1, FetchKeeps
<1>2. CASE Execute
  BY <1>2, ExecuteKeeps
<1>3. CASE Jump
  BY <1>3, JumpKeeps
<1>4. CASE Jmp
  BY <1>4, JmpKeeps
<1>5. CASE Elsewhere
  <2>1. InstructionAddress \in Int
    BY SizesType, ExecutionAssumption DEF Words
  <2>2. /\ inst' = NoInstruction /\ ip' \in Int
        /\ registers' = registers /\ ram' = ram /\ status' = status
    BY <1>5, <2>1 DEF Elsewhere
  <2> QED BY <2>2, BetweenInstructions DEF ExecutionInv, TypeOK, RegistersAreWords
<1>6. CASE Off \/ UNCHANGED vars
  BY <1>6, UnchangedKeeps DEF Off
<1> QED BY <1>1, <1>2, <1>3, <1>4, <1>5, <1>6 DEF Next

\* The invariant of CPU.step on the data registers, the RAM and ip.
THEOREM ExecutionInvariant == Spec => []ExecutionInv
BY ExecutionInitInv, ExecutionNextInv, PTL DEF Spec

\* Whatever a program computes and stores, AX to DI are words, and AL, AH and the
\* others bytes: Registers.set_register refuses the rest, and a write of one half
\* does not reach the other; ip is a number, if not always an address, and no
\* instruction reaches behind the buffer it was read into.
THEOREM ExecutionTypeOK == Spec => []TypeOK
<1>1. ExecutionInv => TypeOK
  BY DEF ExecutionInv
<1> QED BY <1>1, ExecutionInvariant, PTL

\* get_operand_opcode and parse_operand_buffer: the CPU finds in an instruction the
\* operands that the assembler was given, and its end where the assembler put the
\* next one.
THEOREM ExecutionDecodedAsAssembled == Spec => []DecodedAsAssembled
<1>1. ExecutionInv => DecodedAsAssembled
  BY DEF ExecutionInv
<1> QED BY <1>1, ExecutionInvariant, PTL

-----------------------------------------------------------------------------
(* What an instruction changes *)

\* No instruction is two of an arithmetic one, a conditional jump and JMP.
LEMMA KindsApart == /\ DOMAIN Arithmetic \cap DOMAIN Jumps = {}
                    /\ "JMP" \notin DOMAIN Arithmetic /\ "JMP" \notin DOMAIN Jumps
BY DEF Arithmetic, Jumps

\* A step that completed an arithmetic instruction has set its destination to what
\* the instruction computed of the state before.
LEMMA CompletedStep ==
    ASSUME ExecutionInv, Next, Completed
    PROVE  LET what == Arithmetic[inst.name]
               op == inst.operands[1]
               value == Stored(what, inst.operands)
           IN  /\ Succeeds(what, inst.operands)
               /\ registers' = SetInRegisters(op, value, registers)
               /\ ram' = SetInRam(op, value, registers, ram, ip)
<1>1. inst # NoInstruction /\ inst.name \in DOMAIN Arithmetic /\ status' = "on"
  BY DEF Completed
<1>2. ~Fetch /\ ~Elsewhere
  BY <1>1 DEF Fetch, Elsewhere
<1>3. ~Jump /\ ~Jmp
  BY <1>1, KindsApart DEF Jump, Jmp
<1>4. ~Off /\ ~Fail
  BY <1>1 DEF Off, Fail, vars
<1>5. Execute
  BY <1>2, <1>3, <1>4 DEF Next
<1> QED BY <1>4, <1>5 DEF Execute

\* The parts of the state, as numbers.
LEMMA StateOfMachine ==
    ASSUME ExecutionInv
    PROVE  /\ registers \in [ElementsOf(WordRegisters) -> Words]
           /\ ram \in [RamAddresses -> Int] /\ ip \in Int
<1>1. /\ registers \in [ElementsOf(WordRegisters) -> Words]
      /\ ram \in [RamAddresses -> MinCell .. MaxCell] /\ ip \in Int
  BY DEF ExecutionInv, TypeOK, RegistersAreWords
<1> QED BY <1>1, ExecutionAssumption

\* Setting an operand in the RAM changes its bytes and no other.
LEMMA OnlyItsBytes ==
    ASSUME NEW mem \in [RamAddresses -> Int], NEW pos \in Int, NEW length \in {1, 2},
           NEW value, NEW other \in RamAddresses,
           Write(mem, pos, length, value)[other] # mem[other]
    PROVE  \E i \in 0 .. length - 1 : other = pos + i
<1>1. CASE length = 1
  <2>1. other = pos
    BY <1>1 DEF Write
  <2>2. 0 \in 0 .. length - 1 /\ pos + 0 = pos
    BY <1>1
  <2> QED BY <2>1, <2>2
<1>2. CASE length = 2
  <2>1. other = pos \/ other = pos + 1
    BY <1>2 DEF Write
  <2>2. 0 \in 0 .. length - 1 /\ 1 \in 0 .. length - 1 /\ pos + 0 = pos
    BY <1>2
  <2> QED BY <2>1, <2>2
<1> QED BY <1>1, <1>2

\* Setting a register changes it, or the half of a word that it is, and no other.
LEMMA OnlyItsHalf ==
    ASSUME NEW regs \in [ElementsOf(WordRegisters) -> Words], NEW name, NEW value,
           name \in ElementsOf(WordRegisters) \cup ElementsOf(ByteRegisters),
           Fits(value, RegisterLength(name), FALSE), NEW other \in ElementsOf(WordRegisters)
    PROVE  LET after == SetRegister(regs, name, value)[other]
               before == regs[other]
           IN  /\ GetLow(after) # GetLow(before) =>
                     \/ name \in DOMAIN LowHalves /\ other = LowHalves[name]
                     \/ name \notin DOMAIN LowHalves \cup DOMAIN HighHalves /\ other = name
               /\ GetHigh(after) # GetHigh(before) =>
                     \/ name \in DOMAIN HighHalves /\ other = HighHalves[name]
                     \/ name \notin DOMAIN LowHalves \cup DOMAIN HighHalves /\ other = name
<1>1. DOMAIN LowHalves \cap DOMAIN HighHalves = {}
  BY RegisterLists
<1>2. name \in DOMAIN LowHalves \cup DOMAIN HighHalves => value \in Bytes
  BY RegisterLists DEF Fits, RegisterLength, Size, Bytes
<1>3. regs[other] \in Words
  OBVIOUS
<1>4. CASE name \in DOMAIN LowHalves
  <2>1. SetRegister(regs, name, value) = [regs EXCEPT ![LowHalves[name]] = SetLow(@, value)]
    BY <1>4 DEF SetRegister
  <2>2. CASE other = LowHalves[name]
    <3>1. SetRegister(regs, name, value)[other] = SetLow(regs[other], value)
      BY <2>1, <2>2
    <3>2. GetHigh(SetLow(regs[other], value)) = GetHigh(regs[other])
      BY <1>2, <1>3, <1>4, HalvesIndependent
    <3> QED BY <1>4, <2>2, <3>1, <3>2
  <2>3. CASE other # LowHalves[name]
    <3>1. SetRegister(regs, name, value)[other] = regs[other]
      BY <2>1, <2>3
    <3> QED BY <3>1
  <2> QED BY <2>2, <2>3
<1>5. CASE name \notin DOMAIN LowHalves /\ name \in DOMAIN HighHalves
  <2>1. SetRegister(regs, name, value) = [regs EXCEPT ![HighHalves[name]] = SetHigh(@, value)]
    BY <1>5 DEF SetRegister
  <2>2. CASE other = HighHalves[name]
    <3>1. SetRegister(regs, name, value)[other] = SetHigh(regs[other], value)
      BY <2>1, <2>2
    <3>2. GetLow(SetHigh(regs[other], value)) = GetLow(regs[other])
      BY <1>2, <1>3, <1>5, HalvesIndependent
    <3> QED BY <1>5, <2>2, <3>1, <3>2
  <2>3. CASE other # HighHalves[name]
    <3>1. SetRegister(regs, name, value)[other] = regs[other]
      BY <2>1, <2>3
    <3> QED BY <3>1
  <2> QED BY <2>2, <2>3
<1>6. CASE name \notin DOMAIN LowHalves \cup DOMAIN HighHalves
  <2>1. SetRegister(regs, name, value) = [regs EXCEPT ![name] = value]
    BY <1>6 DEF SetRegister
  <2>2. other # name => SetRegister(regs, name, value)[other] = regs[other]
    BY <2>1
  <2> QED BY <1>6, <2>2
<1> QED BY <1>4, <1>5, <1>6

\* set_operand_value: an instruction changes nothing outside its destination, not the
\* other half of a register and not the byte next to a byte.
THEOREM ExecutionOnlyDestination == Spec => OnlyDestination
<1> DEFINE OnlyIts(op, at) ==
             /\ \A pos \in RamAddresses :
                  ram'[pos] # ram[pos] => <<"ram", pos>> \in Places(op, registers, at)
             /\ \A name \in ElementsOf(WordRegisters) :
                  /\ GetLow(registers'[name]) # GetLow(registers[name])
                        => <<name, "low">> \in Places(op, registers, at)
                  /\ GetHigh(registers'[name]) # GetHigh(registers[name])
                        => <<name, "high">> \in Places(op, registers, at)
           Only == Completed =>
                     \A op \in {inst.operands[1]}, at \in {ip} : OnlyIts(op, at)
<1>1. ASSUME ExecutionInv, Next PROVE Only
  <2> SUFFICES ASSUME Completed, NEW op, op = inst.operands[1], NEW at, at = ip
               PROVE  OnlyIts(op, at)
    OBVIOUS
  <2>1. PICK value : value = Stored(Arithmetic[inst.name], inst.operands)
    OBVIOUS
  <2>2. PICK regs, mem : regs = registers /\ mem = ram
    OBVIOUS
  <2>3. /\ regs \in [ElementsOf(WordRegisters) -> Words]
        /\ mem \in [RamAddresses -> Int] /\ at \in Int
    BY <1>1, <2>2, StateOfMachine
  <2>4. /\ registers' = SetInRegisters(op, value, regs) /\ ram' = SetInRam(op, value, regs, mem, at)
        /\ CanSet(op, value, regs, at)
    BY <1>1, <2>1, <2>2, CompletedStep DEF Succeeds
  <2>5. IsOperand(op)
    <3>1. inst # NoInstruction
      BY DEF Completed
    <3> QED BY <1>1, <3>1, OperandsOfInstruction
  <2>6. CASE Referenced(op)
    <3>1. PICK pos \in Int, length \in {1, 2} :
            pos = ReferenceAddress(op, regs, at) /\ length = op.oplen
      BY <2>3, <2>5, <2>6, AddressIsANumber DEF IsOperand
    <3>2. ram' = Write(mem, pos, length, value)
      BY <2>4, <2>6, <3>1 DEF SetInRam
    <3>3. registers' = regs
      BY <2>4, <2>6 DEF SetInRegisters
    <3>4. Places(op, regs, at) = {<<"ram", pos + i>> : i \in 0 .. length - 1}
      BY <2>6, <3>1 DEF Places
    <3>5. ASSUME NEW other \in RamAddresses, ram'[other] # mem[other]
          PROVE  <<"ram", other>> \in Places(op, regs, at)
      <4>1. \E i \in 0 .. length - 1 : other = pos + i
        BY <2>3, <3>2, <3>5, OnlyItsBytes
      <4> QED BY <3>4, <4>1
    <3> QED BY <2>2, <3>3, <3>5
  <2>7. CASE ~Referenced(op)
    <3>1. op.optype = "REGISTER"
      BY <2>4, <2>7 DEF CanSet
    <3>2. PICK reg : reg = op.opreg
      OBVIOUS
    <3>3. /\ Fits(value, RegisterLength(reg), FALSE)
          /\ reg \in ElementsOf(WordRegisters) \cup ElementsOf(ByteRegisters)
      <4>1. Fits(value, RegisterLength(reg), FALSE)
        BY <2>4, <2>7, <3>1, <3>2, Zenon DEF CanSet, Referenced
      <4>2. reg \in ElementsOf(WordRegisters) \cup ElementsOf(ByteRegisters)
        BY <2>5, <3>1, <3>2 DEF IsOperand, WithRegister
      <4> QED BY <4>1, <4>2
    <3>4. ram' = mem /\ registers' = SetRegister(regs, reg, value)
      BY <2>4, <2>7, <3>2 DEF SetInRam, SetInRegisters
    <3>5. Places(op, regs, at) =
             IF reg \in DOMAIN LowHalves THEN {<<LowHalves[reg], "low">>}
             ELSE IF reg \in DOMAIN HighHalves THEN {<<HighHalves[reg], "high">>}
             ELSE {<<reg, "low">>, <<reg, "high">>}
      BY <2>7, <3>2 DEF Places
    <3>6. DOMAIN LowHalves \cap DOMAIN HighHalves = {}
      BY RegisterLists
    <3>7. ASSUME NEW name \in ElementsOf(WordRegisters)
          PROVE  /\ GetLow(registers'[name]) # GetLow(regs[name])
                        => <<name, "low">> \in Places(op, regs, at)
                 /\ GetHigh(registers'[name]) # GetHigh(regs[name])
                        => <<name, "high">> \in Places(op, regs, at)
      <4>1. /\ GetLow(registers'[name]) # GetLow(regs[name]) =>
                 \/ reg \in DOMAIN LowHalves /\ name = LowHalves[reg]
                 \/ reg \notin DOMAIN LowHalves \cup DOMAIN HighHalves /\ name = reg
            /\ GetHigh(registers'[name]) # GetHigh(regs[name]) =>
                 \/ reg \in DOMAIN HighHalves /\ name = HighHalves[reg]
                 \/ reg \notin DOMAIN LowHalves \cup DOMAIN HighHalves /\ name = reg
        BY <2>3, <3>3, <3>4, OnlyItsHalf
      <4> QED BY <3>5, <3>6, <4>1
    <3> QED BY <2>2, <3>4, <3>7
  <2> QED BY <2>6, <2>7
<1>2. ExecutionInv /\ [Next]_vars => [Only]_vars
  BY <1>1
<1>3. OnlyDestination <=> [][Only]_vars
  BY DEF OnlyDestination
<1> HIDE DEF Only
<1> QED BY <1>2, <1>3, ExecutionInvariant, PTL DEF Spec

-----------------------------------------------------------------------------
(* What it computes *)

\* What arithmetic instructions do.
Kinds == {"move", "neg", "add", "sub", "mul", "div", "mod"}

\* The table of the instructions.
LEMMA ArithmeticEntries ==
    ASSUME NEW name \in DOMAIN Arithmetic
    PROVE  LET what == Arithmetic[name]
           IN  /\ what.kind \in Kinds /\ what.signed \in BOOLEAN
               /\ what = Computing(what.kind, what.signed, what.sources)
               /\ what.sources = IF what.kind \in {"move", "neg"} THEN <<2>>
                                 ELSE IF name \in {"INC", "IINC", "DEC", "IDEC"} THEN <<1, 2>>
                                 ELSE <<2, 3>>
               /\ what.kind = "neg" => what.signed
<1> DEFINE Right(what) ==
             /\ what.kind \in Kinds /\ what.signed \in BOOLEAN
             /\ what = Computing(what.kind, what.signed, what.sources)
             /\ what.sources = IF what.kind \in {"move", "neg"} THEN <<2>>
                               ELSE IF name \in {"INC", "IINC", "DEC", "IDEC"} THEN <<1, 2>>
                               ELSE <<2, 3>>
             /\ what.kind = "neg" => what.signed
<1>1. ASSUME NEW kind \in Kinds, NEW signed \in BOOLEAN, NEW sources,
             sources = IF kind \in {"move", "neg"} THEN << 2 >>
                       ELSE IF name \in {"INC", "IINC", "DEC", "IDEC"} THEN <<1, 2>>
                       ELSE <<2, 3>>,
             kind = "neg" => signed
      PROVE  Right(Computing(kind, signed, sources))
  <2>1. PICK what : what = Computing(kind, signed, sources)
    OBVIOUS
  <2>2. what.kind = kind /\ what.signed = signed /\ what.sources = sources
    BY <2>1 DEF Computing
  <2> QED BY <1>1, <2>1, <2>2
<1> HIDE DEF Right
<1>2. /\ Arithmetic["MOV"] = Computing("move", FALSE, <<2>>)
      /\ Arithmetic["ADD"] = Computing("add", FALSE, <<2, 3>>)
      /\ Arithmetic["IADD"] = Computing("add", TRUE, <<2, 3>>)
      /\ Arithmetic["SUB"] = Computing("sub", FALSE, <<2, 3>>)
      /\ Arithmetic["ISUB"] = Computing("sub", TRUE, <<2, 3>>)
      /\ Arithmetic["MUL"] = Computing("mul", FALSE, <<2, 3>>)
      /\ Arithmetic["IMUL"] = Computing("mul", TRUE, <<2, 3>>)
      /\ Arithmetic["DIV"] = Computing("div", FALSE, <<2, 3>>)
      /\ Arithmetic["IDIV"] = Computing("div", TRUE, <<2, 3>>)
      /\ Arithmetic["MOD"] = Computing("mod", FALSE, <<2, 3>>)
      /\ Arithmetic["IMOD"] = Computing("mod", TRUE, <<2, 3>>)
      /\ Arithmetic["INC"] = Computing("add", FALSE, <<1, 2>>)
      /\ Arithmetic["IINC"] = Computing("add", TRUE, <<1, 2>>)
      /\ Arithmetic["DEC"] = Computing("sub", FALSE, <<1, 2>>)
      /\ Arithmetic["IDEC"] = Computing("sub", TRUE, <<1, 2>>)
      /\ Arithmetic["NEG"] = Computing("neg", TRUE, <<2>>)
  BY DEF Arithmetic
<1>3. name \in {"MOV", "ADD", "IADD", "SUB", "ISUB", "MUL", "IMUL", "DIV", "IDIV",
                "MOD", "IMOD", "INC", "IINC", "DEC", "IDEC", "NEG"}
  BY DEF Arithmetic
<1>4. Right(Computing("move", FALSE, <<2>>)) /\ Right(Computing("neg", TRUE, <<2>>))
  BY <1>1 DEF Kinds
<1>5. ASSUME NEW kind \in Kinds \ {"move", "neg"}, NEW signed \in BOOLEAN
      PROVE  Right(Computing(kind, signed, IF name \in {"INC", "IINC", "DEC", "IDEC"}
                                           THEN <<1, 2>> ELSE <<2, 3>>))
  <2>1. PICK sources : sources = IF name \in {"INC", "IINC", "DEC", "IDEC"}
                                 THEN <<1, 2>> ELSE <<2, 3>>
    OBVIOUS
  <2>2. Right(Computing(kind, signed, sources))
    BY <1>1, <2>1
  <2> QED BY <2>1, <2>2
<1>6. Right(Arithmetic[name])
  <2>1. CASE name \in {"MOV", "NEG"}
    BY <1>2, <1>4, <2>1
  <2>2. CASE name \in {"INC", "IINC", "DEC", "IDEC"}
    <3>1. ASSUME NEW kind \in Kinds \ {"move", "neg"}, NEW signed \in BOOLEAN
          PROVE  Right(Computing(kind, signed, <<1, 2>>))
      BY <1>5, <2>2
    <3>2. \A signed \in BOOLEAN : /\ Right(Computing("add", signed, <<1, 2>>))
                                  /\ Right(Computing("sub", signed, <<1, 2>>))
      BY <3>1 DEF Kinds
    <3> QED BY <1>2, <2>2, <3>2
  <2>3. CASE name \notin {"MOV", "NEG", "INC", "IINC", "DEC", "IDEC"}
    <3>1. ASSUME NEW kind \in Kinds \ {"move", "neg"}, NEW signed \in BOOLEAN
          PROVE  Right(Computing(kind, signed, <<2, 3>>))
      BY <1>5, <2>3
    <3>2. \A signed \in BOOLEAN : /\ Right(Computing("add", signed, <<2, 3>>))
                                  /\ Right(Computing("sub", signed, <<2, 3>>))
                                  /\ Right(Computing("mul", signed, <<2, 3>>))
                                  /\ Right(Computing("div", signed, <<2, 3>>))
                                  /\ Right(Computing("mod", signed, <<2, 3>>))
      BY <3>1 DEF Kinds
    <3> QED BY <1>2, <1>3, <2>3, <3>2
  <2> QED BY <2>1, <2>2, <2>3
<1> QED BY <1>6 DEF Right

\* What the instructions compute is what they should.
LEMMA ComputesExactly ==
    ASSUME NEW kind \in Kinds, NEW a \in Int, NEW b \in Int,
           kind \in {"div", "mod"} => b # 0
    PROVE  Compute(kind, a, b) \in Int /\ Exact(kind, a, b, Compute(kind, a, b))
<1>1. ASSUME NEW n \in Nat, n > 0, NEW m \in Int
      PROVE  /\ m \div n \in Int /\ (m \div n) * n <= m /\ m < (m \div n) * n + n
  BY <1>1
<1>2. ASSUME b # 0
      PROVE  /\ FloorDiv(a, b) \in Int
             /\ FloorDiv(a * b, b) = a
             /\ IF b > 0 THEN FloorDiv(a, b) * b <= a /\ a < FloorDiv(a, b) * b + b
                ELSE FloorDiv(a, b) * b >= a /\ a > FloorDiv(a, b) * b + b
  <2>1. CASE b > 0
    <3>1. b \in Nat
      BY <2>1
    <3>2. FloorDiv(a, b) = a \div b /\ FloorDiv(a * b, b) = (a * b) \div b
      BY <2>1 DEF FloorDiv
    <3>3. (a * b) \div b = a
      <4>1. (a * b + 0) \div b = a
        BY <2>1, <3>1, DivisionUnique
      <4>2. a * b + 0 = a * b
        OBVIOUS
      <4> QED BY <4>1, <4>2
    <3> QED BY <1>1, <2>1, <3>1, <3>2, <3>3
  <2>2. CASE ~(b > 0)
    <3>1. PICK n \in Nat : n = -b /\ n > 0 /\ b = -n
      BY <1>2, <2>2
    <3>2. PICK q \in Int : q = (-a) \div n
      BY <3>1
    <3>3. q * n <= -a /\ -a < q * n + n
      <4>1. PICK m \in Int : m = -a
        OBVIOUS
      <4> QED BY <1>1, <3>1, <3>2, <4>1
    <3>4. FloorDiv(a, b) = q /\ FloorDiv(a * b, b) = (-(a * b)) \div n
      BY <2>2, <3>1, <3>2 DEF FloorDiv
    <3>5. q * b = -(q * n) /\ q * n \in Int /\ -(a * b) = a * n
      BY <3>1
    <3>6. (a * n) \div n = a
      <4>1. (a * n + 0) \div n = a
        BY <3>1, DivisionUnique
      <4>2. a * n + 0 = a * n
        OBVIOUS
      <4> QED BY <4>1, <4>2
    <3> QED BY <2>2, <3>1, <3>3, <3>4, <3>5, <3>6
  <2> QED BY <2>1, <2>2
<1>3. CASE kind \in {"move", "neg", "add", "sub"}
  <2>1. CASE kind = "move"
    BY <2>1 DEF Compute, Exact
  <2>2. CASE kind = "neg"
    BY <2>2 DEF Compute, Exact
  <2>3. CASE kind = "add"
    <3>1. Compute(kind, a, b) = a + b
      BY <2>3 DEF Compute
    <3> QED BY <2>3, <3>1 DEF Exact
  <2>4. CASE kind = "sub"
    <3>1. Compute(kind, a, b) = a - b
      BY <2>4 DEF Compute
    <3> QED BY <2>4, <3>1 DEF Exact
  <2> QED BY <1>3, <2>1, <2>2, <2>3, <2>4
<1>4. CASE kind = "mul"
  <2>1. Compute(kind, a, b) = a * b /\ a * b \in Int
    BY <1>4 DEF Compute
  <2>2. b # 0 => FloorDiv(a * b, b) = a
    BY <1>2
  <2>3. b # 0 => FloorMod(a * b, b) = 0
    <3>1. b * a = a * b
      OBVIOUS
    <3> QED BY <2>1, <2>2, <3>1 DEF FloorMod
  <2>4. b = 0 => a * b = 0
    OBVIOUS
  <2> QED BY <1>4, <2>1, <2>2, <2>3, <2>4 DEF Exact
<1>5. CASE kind = "div"
  <2>1. PICK q \in Int : q = FloorDiv(a, b)
    BY <1>2, <1>5
  <2>2. (q + 1) * b = q * b + b
    OBVIOUS
  <2>3. IF b > 0 THEN q * b <= a /\ a < q * b + b ELSE q * b >= a /\ a > q * b + b
    BY <1>2, <1>5, <2>1
  <2>4. Compute(kind, a, b) = q
    BY <1>5, <2>1 DEF Compute
  <2> QED BY <1>5, <2>2, <2>3, <2>4 DEF Exact
<1>6. CASE kind = "mod"
  <2>1. PICK q \in Int : q = FloorDiv(a, b)
    BY <1>2, <1>6
  <2>2. PICK m \in Int : m = q * b
    OBVIOUS
  <2>3. IF b > 0 THEN m <= a /\ a < m + b ELSE m >= a /\ a > m + b
    BY <1>2, <1>6, <2>1, <2>2
  <2>4. PICK r \in Int : r = a - m /\ r = Compute(kind, a, b)
    <3>1. b * q = q * b
      OBVIOUS
    <3>2. Compute(kind, a, b) = a - m
      BY <1>6, <2>1, <2>2, <3>1 DEF Compute, FloorMod
    <3> QED BY <3>2
  <2>5. IF b > 0 THEN 0 <= r /\ r < b ELSE b < r /\ r <= 0
    BY <2>3, <2>4
  <2>6. a = m + r
    BY <2>4
  <2>7. q \in IF a < 0 THEN a .. -a ELSE -a .. a
    <3>1. CASE b > 0
      <4>1. q >= 0 => m >= q
        BY <2>2, <3>1
      <4>2. q < 0 => (q + 1) * b <= q + 1 /\ (q + 1) * b = m + b
        BY <2>2, <3>1
      <4> QED BY <2>3, <3>1, <4>1, <4>2
    <3>2. CASE ~(b > 0)
      <4>1. PICK n \in Nat : n = -b /\ n > 0 /\ b = -n
        BY <1>6, <3>2
      <4>2. PICK k \in Int : k = q * n
        BY <4>1
      <4>3. m = -k
        BY <2>2, <4>1, <4>2
      <4>4. q >= 0 => k >= q
        BY <4>1, <4>2
      <4>5. q < 0 => (q + 1) * n <= q + 1 /\ (q + 1) * n = k + n
        BY <4>1, <4>2
      <4> QED BY <2>3, <3>2, <4>1, <4>3, <4>4, <4>5
    <3> QED BY <3>1, <3>2
  <2>8. a = q * b + r
    BY <2>2, <2>6
  <2>9. \E p \in IF a < 0 THEN a .. -a ELSE -a .. a : a = p * b + r
    BY <2>7, <2>8
  <2> QED BY <1>6, <2>4, <2>5, <2>9, Zenon DEF Exact
<1> QED BY <1>3, <1>4, <1>5, <1>6 DEF Kinds

\* What a register is set to is what it is found to hold.
LEMMA GetAfterSet ==
    ASSUME NEW regs \in [ElementsOf(WordRegisters) -> Words], NEW name, NEW value,
           name \in ElementsOf(WordRegisters) \cup ElementsOf(ByteRegisters),
           Fits(value, RegisterLength(name), FALSE)
    PROVE  GetRegister(SetRegister(regs, name, value), name) = value
<1>1. DOMAIN LowHalves \cap DOMAIN HighHalves = {}
  BY RegisterLists
<1>2. name \in DOMAIN LowHalves \cup DOMAIN HighHalves => value \in Bytes
  BY RegisterLists DEF Fits, RegisterLength, Size, Bytes
<1>3. CASE name \in DOMAIN LowHalves
  <2>1. SetRegister(regs, name, value) = [regs EXCEPT ![LowHalves[name]] = SetLow(@, value)]
    BY <1>3 DEF SetRegister
  <2>2. LowHalves[name] \in ElementsOf(WordRegisters)
    BY <1>3, RegisterLists
  <2>3. SetRegister(regs, name, value)[LowHalves[name]]
           = SetLow(regs[LowHalves[name]], value)
    BY <2>1, <2>2
  <2>4. GetLow(SetLow(regs[LowHalves[name]], value)) = value
    BY <1>2, <1>3, <2>2, HalvesIndependent
  <2> QED BY <1>3, <2>3, <2>4 DEF GetRegister
<1>4. CASE name \notin DOMAIN LowHalves /\ name \in DOMAIN HighHalves
  <2>1. SetRegister(regs, name, value) = [regs EXCEPT ![HighHalves[name]] = SetHigh(@, value)]
    BY <1>4 DEF SetRegister
  <2>2. HighHalves[name] \in ElementsOf(WordRegisters)
    BY <1>4, RegisterLists
  <2>3. SetRegister(regs, name, value)[HighHalves[name]]
           = SetHigh(regs[HighHalves[name]], value)
    BY <2>1, <2>2
  <2>4. GetHigh(SetHigh(regs[HighHalves[name]], value)) = value
    BY <1>2, <1>4, <2>2, HalvesIndependent
  <2> QED BY <1>4, <2>3, <2>4 DEF GetRegister
<1>5. CASE name \notin DOMAIN LowHalves /\ name \notin DOMAIN HighHalves
  <2>1. SetRegister(regs, name, value) = [regs EXCEPT ![name] = value]
    BY <1>5 DEF SetRegister
  <2>2. name \in ElementsOf(WordRegisters)
    BY <1>5, RegisterLists, Lists
  <2>3. SetRegister(regs, name, value)[name] = value
    BY <2>1, <2>2
  <2> QED BY <1>5, <2>3 DEF GetRegister
<1> QED BY <1>3, <1>4, <1>5

\* And what an operand is set to is its value, also where it overlaps the register
\* or the bytes that the instruction has read.
LEMMA ValueAfterSet ==
    ASSUME NEW op, IsOperand(op), NEW regs \in [ElementsOf(WordRegisters) -> Words],
           NEW mem \in [RamAddresses -> Int], NEW at \in Int, NEW value \in Int,
           CanSet(op, value, regs, at)
    PROVE  GetOperandValue(op, SetInRegisters(op, value, regs),
                           SetInRam(op, value, regs, mem, at), at) = value
<1>1. CASE Referenced(op)
  <2>1. PICK pos \in Int, length \in {1, 2} :
          pos = ReferenceAddress(op, regs, at) /\ length = op.oplen
    BY <1>1, AddressIsANumber DEF IsOperand
  <2>2. Writable(pos, length)
    BY <1>1, <2>1 DEF CanSet, Referenced
  <2>3. Read(Write(mem, pos, length, value), pos, length) = value
    BY <2>2, ReadAfterWrite
  <2>4. /\ SetInRegisters(op, value, regs) = regs
        /\ SetInRam(op, value, regs, mem, at) = Write(mem, pos, length, value)
    BY <1>1, <2>1 DEF SetInRegisters, SetInRam
  <2> QED BY <1>1, <2>1, <2>3, <2>4 DEF GetOperandValue, Referenced
<1>2. CASE ~Referenced(op)
  <2>1. op.optype = "REGISTER"
    BY <1>2 DEF CanSet
  <2>2. PICK reg : reg = op.opreg
    OBVIOUS
  <2>3. Fits(value, RegisterLength(reg), FALSE)
    BY <1>2, <2>1, <2>2, Zenon DEF CanSet, Referenced
  <2>4. reg \in ElementsOf(WordRegisters) \cup ElementsOf(ByteRegisters)
    BY <2>1, <2>2 DEF IsOperand, WithRegister
  <2>5. GetRegister(SetRegister(regs, reg, value), reg) = value
    BY <2>3, <2>4, GetAfterSet
  <2> QED BY <1>2, <2>1, <2>2, <2>5 DEF GetOperandValue, SetInRegisters
<1> QED BY <1>1, <1>2

\* The bytes of a number make up a number with the same bytes.
LEMMA BinaryTwice ==
    ASSUME NEW value \in Int, NEW length \in {1, 2}
    PROVE  /\ ToNumber(ToBinary(value, length)) \in Int
           /\ ToBinary(ToNumber(ToBinary(value, length)), length) = ToBinary(value, length)
<1>1. ByteSize \in Nat /\ ByteSize > 0 /\ WordSize \in Nat /\ WordSize > 0
  BY SizesType
<1>2. PICK low \in Bytes : low = GetLow(value)
  BY HighAndLow
<1>3. PICK rest \in Words : rest = value % WordSize
  BY <1>1 DEF Words
<1>4. PICK high \in Bytes : high = GetHigh(rest)
  BY WordBytes
<1>5. low \in Int /\ high \in Int /\ rest \in Int
  BY <1>1 DEF Bytes, Words
<1>6. CASE length = 1
  <2>1. ToBinary(value, length) = <<low>>
    BY <1>2, <1>6 DEF ToBinary
  <2>2. ToNumber(<<low>>) = low
    BY DEF ToNumber
  <2>3. GetLow(low) = low
    BY <1>1 DEF GetLow, Bytes
  <2>4. ToBinary(low, length) = <<low>>
    BY <1>6, <2>3 DEF ToBinary
  <2> QED BY <1>5, <2>1, <2>2, <2>4
<1>7. CASE length = 2
  <2>1. ToBinary(value, length) = <<high, low>>
    BY <1>2, <1>3, <1>4, <1>7 DEF ToBinary
  <2>2. PICK number \in Words : number = high * ByteSize + low
    BY WordBytes
  <2>3. ToNumber(<<high, low>>) = number
    BY <2>2 DEF ToNumber
  <2>4. number \in Int /\ number % WordSize = number
    BY <1>1, <2>2 DEF Words
  <2>5. GetHigh(number) = high /\ GetLow(number) = low
    BY <1>5, <2>2, HighAndLowUnique
  <2>6. ToBinary(number, length) = <<high, low>>
    BY <1>7, <2>4, <2>5 DEF ToBinary
  <2> QED BY <2>1, <2>3, <2>4, <2>6
<1> QED BY <1>6, <1>7

\* What a signed operand is read as is a number.
LEMMA SignedIsANumber ==
    ASSUME NEW value \in Int, NEW length \in {1, 2}
    PROVE  ToSigned(ToBinary(value, length)) \in Int
<1>1. PICK number \in Int : number = ToNumber(ToBinary(value, length))
  BY BinaryTwice
<1>2. PICK size \in Int : size = Size(Len(ToBinary(value, length)))
  BY SizesType DEF Size
<1>3. number - size \in Int
  OBVIOUS
<1> QED BY <1>1, <1>2, <1>3 DEF ToSigned

\* The values an instruction finds are numbers.
LEMMA SourcesAreNumbers ==
    ASSUME ExecutionInv, inst # NoInstruction, NEW what, Gets(what, inst.operands),
           NEW op, op \in Sources(what, inst.operands), IsOperand(op)
    PROVE  ValueOf(what, op) \in Int
<1>1. /\ registers \in [ElementsOf(WordRegisters) -> Words]
      /\ ram \in [RamAddresses -> Int] /\ ip \in Int
  BY StateOfMachine
<1>2. CanGet(op, registers, ip)
  BY DEF Gets, CanGetSigned
<1>3. GetOperandValue(op, registers, ram, ip) \in Int
  BY <1>1, <1>2, OperandIsANumber
<1>4. GetSignedOperand(op, registers, ram, ip) \in Int
  BY <1>3, SignedIsANumber DEF GetSignedOperand, IsOperand
<1> QED BY <1>3, <1>4 DEF ValueOf

\* The operands an arithmetic instruction reads.
LEMMA FirstAndSecond ==
    ASSUME ExecutionInv, inst # NoInstruction, inst.name \in DOMAIN Arithmetic,
           NEW what, what = Arithmetic[inst.name]
    PROVE  \A i \in DOMAIN what.sources :
              /\ what.sources[i] \in DOMAIN inst.operands
              /\ inst.operands[what.sources[i]] \in Sources(what, inst.operands)
              /\ IsOperand(inst.operands[what.sources[i]])
<1>1. what.sources \in {<<2>>, <<1, 2>>, <<2, 3>>}
  BY ArithmeticEntries
<1>2. /\ Len(inst.operands) = IF what.sources = <<2, 3>> THEN 3 ELSE 2
      /\ DOMAIN inst.operands = 1 .. Len(inst.operands)
      /\ \A i \in 1 .. Len(inst.operands) : IsOperand(inst.operands[i])
  BY OperandsOfInstruction
<1>3. ASSUME NEW i \in DOMAIN what.sources
      PROVE  what.sources[i] \in 1 .. Len(inst.operands)
  <2>1. CASE what.sources = <<2>>
    BY <1>2, <2>1
  <2>2. CASE what.sources = <<1, 2>>
    BY <1>2, <2>2
  <2>3. CASE what.sources = <<2, 3>>
    BY <1>2, <2>3
  <2> QED BY <1>1, <2>1, <2>2, <2>3
<1>4. ASSUME NEW i \in DOMAIN what.sources
      PROVE  inst.operands[what.sources[i]] \in Sources(what, inst.operands)
  BY DEF Sources, ElementsOf
<1> QED BY <1>2, <1>3, <1>4

\* So are the two values that an arithmetic instruction computes with.
LEMMA OperandsAreNumbers ==
    ASSUME ExecutionInv, inst # NoInstruction, inst.name \in DOMAIN Arithmetic,
           NEW what, what = Arithmetic[inst.name], Gets(what, inst.operands)
    PROVE  First(what, inst.operands) \in Int /\ Second(what, inst.operands) \in Int
<1>1. what.sources \in {<<2>>, <<1, 2>>, <<2, 3>>}
  BY ArithmeticEntries
<1>2. 1 \in DOMAIN what.sources /\ (Len(what.sources) # 1 => 2 \in DOMAIN what.sources)
  BY <1>1
<1>3. \A i \in DOMAIN what.sources : ValueOf(what, inst.operands[what.sources[i]]) \in Int
  BY FirstAndSecond, SourcesAreNumbers
<1> QED BY <1>2, <1>3 DEF First, Second

\* After an instruction its destination has the value it computed.
LEMMA CompletedValue ==
    ASSUME ExecutionInv, Next, Completed, NEW what, NEW op, NEW at,
           what = Arithmetic[inst.name], op = inst.operands[1], at = ip
    PROVE  /\ IsOperand(op) /\ Computes(what, inst.operands)
           /\ First(what, inst.operands) \in Int /\ Second(what, inst.operands) \in Int
           /\ Result(what, inst.operands) \in Int
           /\ Exact(what.kind, First(what, inst.operands), Second(what, inst.operands),
                    Result(what, inst.operands))
           /\ GetOperandValue(op, registers', ram', at) = Stored(what, inst.operands)
           /\ what.signed =>
                 GetSignedOperand(op, registers', ram', at) = Result(what, inst.operands)
<1>1. inst # NoInstruction /\ inst.name \in DOMAIN Arithmetic
  BY DEF Completed
<1>2. PICK a, b : a = First(what, inst.operands) /\ b = Second(what, inst.operands)
  OBVIOUS
<1>3. PICK value, result :
        value = Stored(what, inst.operands) /\ result = Result(what, inst.operands)
  OBVIOUS
<1>4. PICK regs, mem : regs = registers /\ mem = ram
  OBVIOUS
<1>5. /\ Stores(what, inst.operands) /\ CanSet(op, value, regs, at)
      /\ registers' = SetInRegisters(op, value, regs)
      /\ ram' = SetInRam(op, value, regs, mem, at)
  BY <1>3, <1>4, CompletedStep DEF Succeeds
<1>6. /\ Computes(what, inst.operands) /\ Gets(what, inst.operands)
      /\ what.kind \in {"div", "mod"} => b # 0
      /\ what.signed => Fits(result, op.oplen, TRUE)
  BY <1>2, <1>3, <1>5 DEF Stores, Computes
<1>7. a \in Int /\ b \in Int
  BY <1>1, <1>2, <1>6, OperandsAreNumbers
<1>8. result \in Int /\ Exact(what.kind, a, b, result)
  <2>1. what.kind \in Kinds
    BY <1>1, ArithmeticEntries
  <2>2. result = Compute(what.kind, a, b)
    BY <1>2, <1>3 DEF Result
  <2> QED BY <1>6, <1>7, <2>1, <2>2, ComputesExactly
<1>9. /\ regs \in [ElementsOf(WordRegisters) -> Words]
      /\ mem \in [RamAddresses -> Int] /\ at \in Int
  BY <1>4, StateOfMachine
<1>10. IsOperand(op)
  BY <1>1, OperandsOfInstruction
<1>11. PICK length \in {1, 2} : length = op.oplen
  BY <1>10 DEF IsOperand
<1>12. value = IF what.signed THEN ToNumber(ToBinary(result, length)) ELSE result
  BY <1>3, <1>11 DEF Stored
<1>13. value \in Int
  BY <1>8, <1>12, BinaryTwice
<1>14. GetOperandValue(op, registers', ram', at) = value
  BY <1>5, <1>9, <1>10, <1>13, ValueAfterSet
<1>15. ASSUME what.signed
       PROVE  GetSignedOperand(op, registers', ram', at) = result
  <2>1. GetSignedOperand(op, registers', ram', at) = ToSigned(ToBinary(value, length))
    BY <1>11, <1>14 DEF GetSignedOperand
  <2>2. ToBinary(value, length) = ToBinary(result, length)
    BY <1>8, <1>12, <1>15, BinaryTwice
  <2>3. ToSigned(ToBinary(result, length)) = result
    BY <1>6, <1>11, <1>15, SignedRoundTrip
  <2> QED BY <2>1, <2>2, <2>3
<1> QED BY <1>2, <1>3, <1>6, <1>7, <1>8, <1>10, <1>14, <1>15

\* get_operand, set_operand and their signed forms: the destination of a completed
\* instruction has exactly the result for the values that its operands had before,
\* whatever the operands are and however they overlap.
THEOREM ExecutionResultExact == Spec => ResultExact
<1> DEFINE Right ==
      Completed =>
        LET what == Arithmetic[inst.name]
        IN  \A a \in {First(what, inst.operands)}, b \in {Second(what, inst.operands)},
               op \in {inst.operands[1]}, at \in {ip} :
               Exact(what.kind, a, b,
                     IF what.signed THEN GetSignedOperand(op, registers', ram', at)
                                    ELSE GetOperandValue(op, registers', ram', at))
<1>1. ASSUME ExecutionInv, Next PROVE Right
  <2> SUFFICES ASSUME Completed, NEW what, what = Arithmetic[inst.name],
                      NEW a, a = First(what, inst.operands),
                      NEW b, b = Second(what, inst.operands),
                      NEW op, op = inst.operands[1], NEW at, at = ip
               PROVE  Exact(what.kind, a, b,
                            IF what.signed THEN GetSignedOperand(op, registers', ram', at)
                                           ELSE GetOperandValue(op, registers', ram', at))
    OBVIOUS
  <2>1. PICK result : result = Result(what, inst.operands)
    OBVIOUS
  <2>2. /\ Exact(what.kind, a, b, result)
        /\ GetOperandValue(op, registers', ram', at) = Stored(what, inst.operands)
        /\ what.signed => GetSignedOperand(op, registers', ram', at) = result
    BY <1>1, <2>1, CompletedValue
  <2>3. ~what.signed => Stored(what, inst.operands) = result
    BY <2>1 DEF Stored
  <2>4. (IF what.signed THEN GetSignedOperand(op, registers', ram', at)
                        ELSE GetOperandValue(op, registers', ram', at)) = result
    BY <2>2, <2>3
  <2> QED BY <2>2, <2>4
<1>2. ExecutionInv /\ [Next]_vars => [Right]_vars
  BY <1>1
<1>3. ResultExact <=> [][Right]_vars
  BY DEF ResultExact
<1> HIDE DEF Right
<1> QED BY <1>2, <1>3, ExecutionInvariant, PTL DEF Spec

\* Adding a multiple of a number does not change the remainder.
LEMMA SameRemainder ==
    ASSUME NEW n \in Nat, n > 0, NEW a \in Int, NEW k \in Int
    PROVE  (a + k * n) % n = a % n
<1>1. PICK q \in Int, r \in 0 .. n - 1 : q = a \div n /\ r = a % n /\ a = q * n + r
  OBVIOUS
<1>2. (q + k) * n = q * n + k * n
  OBVIOUS
<1>3. PICK m \in Int : m = q + k
  OBVIOUS
<1>4. (m * n + r) % n = r
  BY DivisionUnique
<1>5. a + k * n = m * n + r
  BY <1>1, <1>2, <1>3
<1> QED BY <1>1, <1>4, <1>5

\* A number read as signed is the number or the number less the size.
LEMMA SignedOfUnsigned ==
    ASSUME NEW length \in {1, 2}, NEW value \in Int, Fits(value, length, FALSE)
    PROVE  LET signed == ToSigned(ToBinary(value, length))
               size == Size(length)
           IN  signed = IF value < size \div 2 THEN value ELSE value - size
<1>1. ToNumber(ToBinary(value, length)) = value
  BY BinaryRoundTrip
<1>2. Len(ToBinary(value, length)) = length
  BY BinaryBytes
<1> QED BY <1>1, <1>2 DEF ToSigned

\* Sizes are even.
LEMMA SizesAreEven ==
    ASSUME NEW length \in {1, 2}
    PROVE  /\ Size(length) \in Nat /\ Size(length) > 0
           /\ Size(length) \div 2 \in Nat /\ Size(length) = 2 * (Size(length) \div 2)
<1>1. ByteSize \in Nat /\ ByteSize > 0 /\ ByteSize % 2 = 0
  BY ByteSizeAssumption
<1>2. PICK half \in Nat : ByteSize = 2 * half
  <2>1. ByteSize \div 2 \in Nat /\ ByteSize = 2 * (ByteSize \div 2)
    BY <1>1
  <2> QED BY <2>1
<1>3. CASE length = 1
  BY <1>1, <1>2, <1>3 DEF Size
<1>4. CASE length = 2
  <2>1. WordSize = (2 * half) * (2 * half)
    BY <1>2 DEF WordSize
  <2>2. PICK m \in Nat : m = half * (2 * half)
    BY <1>2
  <2>3. WordSize = 2 * m
    BY <1>2, <2>1, <2>2
  <2>4. m > 0
    BY <1>1, <1>2, <2>2
  <2> QED BY <1>4, <2>3, <2>4 DEF Size
<1> QED BY <1>3, <1>4

\* What a signed instruction reads differs from what an unsigned one reads by a
\* multiple of the size.
LEMMA SignedDiffers ==
    ASSUME ExecutionInv, inst # NoInstruction, NEW what, Gets(what, inst.operands),
           NEW op, op \in Sources(what, inst.operands), IsOperand(op),
           NEW unsigned, unsigned = GetOperandValue(op, registers, ram, ip),
           NEW size, size = Size(op.oplen)
    PROVE  /\ unsigned \in Int
           /\ what.signed => /\ unsigned \in 0 .. size - 1
                             /\ ValueOf(what, op) = IF unsigned < size \div 2 THEN unsigned
                                                    ELSE unsigned - size
           /\ ~what.signed => ValueOf(what, op) = unsigned
           /\ \E k \in Int : ValueOf(what, op) = unsigned + k * size
<1>1. /\ registers \in [ElementsOf(WordRegisters) -> Words]
      /\ ram \in [RamAddresses -> Int] /\ ip \in Int
  BY StateOfMachine
<1>2. CanGet(op, registers, ip)
  BY DEF Gets, CanGetSigned
<1>3. unsigned \in Int
  BY <1>1, <1>2, OperandIsANumber
<1>4. PICK length \in {1, 2} : length = op.oplen
  BY DEF IsOperand
<1>5. size \in Nat
  BY <1>4, SizesAreEven
<1>6. ASSUME what.signed
      PROVE  /\ unsigned \in 0 .. size - 1
             /\ ValueOf(what, op) = IF unsigned < size \div 2 THEN unsigned ELSE unsigned - size
  <2>1. Fits(unsigned, length, FALSE)
    BY <1>4, <1>6 DEF Gets, CanGetSigned
  <2>2. unsigned \in 0 .. size - 1
    BY <1>4, <2>1 DEF Fits
  <2>3. ValueOf(what, op) = ToSigned(ToBinary(unsigned, length))
    BY <1>4, <1>6 DEF ValueOf, GetSignedOperand
  <2> QED BY <1>3, <1>4, <2>1, <2>2, <2>3, SignedOfUnsigned
<1>7. ~what.signed => ValueOf(what, op) = unsigned
  BY DEF ValueOf
<1>8. \E k \in Int : ValueOf(what, op) = unsigned + k * size
  <2>1. unsigned + 0 * size = unsigned /\ unsigned + (-1) * size = unsigned - size
    BY <1>3, <1>5
  <2>2. ValueOf(what, op) = unsigned \/ ValueOf(what, op) = unsigned - size
    BY <1>6, <1>7
  <2>3. 0 \in Int /\ -1 \in Int
    OBVIOUS
  <2> QED BY <2>1, <2>2, <2>3
<1> QED BY <1>3, <1>6, <1>7, <1>8

\* So sums, differences and products differ by a multiple of the size.
LEMMA ResultsDiffer ==
    ASSUME NEW size \in Nat, NEW a \in Int, NEW b \in Int, NEW i \in Int, NEW j \in Int,
           NEW kind \in {"move", "add", "sub", "mul"}
    PROVE  /\ Compute(kind, a, b) \in Int
           /\ \E k \in Int : Compute(kind, a + i * size, b + j * size)
                                 = Compute(kind, a, b) + k * size
<1>1. CASE kind = "move"
  <2>1. Compute(kind, a + i * size, b + j * size) = Compute(kind, a, b) + i * size
    BY <1>1 DEF Compute
  <2>2. Compute(kind, a, b) \in Int
    BY <1>1 DEF Compute
  <2> QED BY <2>1, <2>2
<1>2. CASE kind = "add"
  <2>1. PICK k \in Int : k = i + j
    OBVIOUS
  <2>2. k * size = i * size + j * size
    BY <2>1
  <2>3. Compute(kind, a, b) = a + b
    BY <1>2 DEF Compute
  <2>4. Compute(kind, a + i * size, b + j * size) = (a + i * size) + (b + j * size)
    BY <1>2 DEF Compute
  <2>5. (a + i * size) + (b + j * size) = (a + b) + k * size
    BY <2>2
  <2> QED BY <2>3, <2>4, <2>5
<1>3. CASE kind = "sub"
  <2>1. PICK k \in Int : k = i - j
    OBVIOUS
  <2>2. k * size = i * size - j * size
    BY <2>1
  <2>3. Compute(kind, a, b) = a - b
    BY <1>3 DEF Compute
  <2>4. Compute(kind, a + i * size, b + j * size) = (a + i * size) - (b + j * size)
    BY <1>3 DEF Compute
  <2>5. (a + i * size) - (b + j * size) = (a - b) + k * size
    BY <2>2
  <2> QED BY <2>3, <2>4, <2>5
<1>4. CASE kind = "mul"
  <2>1. PICK k \in Int : k = a * j + i * b + (i * size) * j
    OBVIOUS
  <2>2. Compute(kind, a, b) = a * b
    BY <1>4 DEF Compute
  <2>3. Compute(kind, a + i * size, b + j * size) = (a + i * size) * (b + j * size)
    BY <1>4 DEF Compute
  <2>4. (a + i * size) * (b + j * size) = a * b + k * size
    <3>1. (a + i * size) * (b + j * size)
             = a * b + a * (j * size) + (i * size) * b + (i * size) * (j * size)
      OBVIOUS
    <3>2. k * size = (a * j) * size + (i * b) * size + ((i * size) * j) * size
      BY <2>1
    <3>3. /\ a * (j * size) = (a * j) * size /\ (i * size) * b = (i * b) * size
          /\ (i * size) * (j * size) = ((i * size) * j) * size
      OBVIOUS
    <3>4. PICK p \in Int, q \in Int, r \in Int, s \in Int :
            p = a * b /\ q = a * (j * size) /\ r = (i * size) * b /\ s = (i * size) * (j * size)
      OBVIOUS
    <3>5. (a + i * size) * (b + j * size) = p + q + r + s /\ k * size = q + r + s
      BY <3>1, <3>2, <3>3, <3>4
    <3>6. p + q + r + s = p + (q + r + s)
      OBVIOUS
    <3> QED BY <3>4, <3>5, <3>6
  <2> QED BY <2>2, <2>3, <2>4
<1> QED BY <1>1, <1>2, <1>3, <1>4

\* Signed or not, the results of an instruction on operands of one length differ by
\* a multiple of their size.
LEMMA SameUpToSize ==
    ASSUME ExecutionInv, inst # NoInstruction, inst.name \in DOMAIN Arithmetic,
           NEW what, what = Arithmetic[inst.name], Gets(what, inst.operands),
           what.kind \in {"move", "add", "sub", "mul"},
           NEW length \in {1, 2}, \A i \in DOMAIN inst.operands : inst.operands[i].oplen = length,
           NEW unsigned, unsigned = [what EXCEPT !.signed = FALSE]
    PROVE  /\ Result(unsigned, inst.operands) \in Int
           /\ \E k \in Int : Result(what, inst.operands)
                                 = Result(unsigned, inst.operands) + k * Size(length)
           /\ ~what.signed => Result(what, inst.operands) = Result(unsigned, inst.operands)
<1>1. /\ what.kind \in Kinds /\ what.signed \in BOOLEAN
      /\ what = Computing(what.kind, what.signed, what.sources)
      /\ what.sources \in {<<2>>, <<1, 2>>, <<2, 3>>}
  BY ArithmeticEntries
<1>2. PICK kind, sources : kind = what.kind /\ sources = what.sources
  OBVIOUS
<1>3. unsigned.kind = kind /\ unsigned.sources = sources /\ unsigned.signed = FALSE
  BY <1>1, <1>2 DEF Computing
<1>4. PICK size \in Nat : size = Size(length)
  BY SizesAreEven
<1>5. ASSUME NEW i \in DOMAIN sources
      PROVE  LET op == inst.operands[sources[i]]
             IN  /\ ValueOf(unsigned, op) \in Int
                 /\ \E k \in Int : ValueOf(what, op) = ValueOf(unsigned, op) + k * size
                 /\ ~what.signed => ValueOf(what, op) = ValueOf(unsigned, op)
  <2>1. PICK op : op = inst.operands[sources[i]]
    OBVIOUS
  <2>2. op \in Sources(what, inst.operands) /\ IsOperand(op) /\ op.oplen = length
    BY <1>2, <2>1, FirstAndSecond
  <2>3. PICK value : value = GetOperandValue(op, registers, ram, ip)
    OBVIOUS
  <2>4. ValueOf(unsigned, op) = value
    BY <1>3, <2>3 DEF ValueOf
  <2>5. size = Size(op.oplen)
    BY <1>4, <2>2
  <2>6. /\ value \in Int
        /\ ~what.signed => ValueOf(what, op) = value
        /\ \E k \in Int : ValueOf(what, op) = value + k * size
    BY <2>2, <2>3, <2>5, SignedDiffers
  <2> QED BY <2>1, <2>4, <2>6
<1>6. 1 \in DOMAIN sources /\ (Len(sources) # 1 => 2 \in DOMAIN sources)
  BY <1>1, <1>2
<1>7. PICK a \in Int, i \in Int :
        /\ a = First(unsigned, inst.operands)
        /\ First(what, inst.operands) = a + i * size
        /\ ~what.signed => First(what, inst.operands) = a
  <2>1. PICK op : op = inst.operands[sources[1]]
    OBVIOUS
  <2>2. First(unsigned, inst.operands) = ValueOf(unsigned, op)
    BY <1>3, <2>1 DEF First
  <2>3. First(what, inst.operands) = ValueOf(what, op)
    BY <1>2, <2>1 DEF First
  <2>4. /\ ValueOf(unsigned, op) \in Int
        /\ \E k \in Int : ValueOf(what, op) = ValueOf(unsigned, op) + k * size
        /\ ~what.signed => ValueOf(what, op) = ValueOf(unsigned, op)
    BY <1>5, <1>6, <2>1
  <2> QED BY <2>2, <2>3, <2>4
<1>8. PICK b \in Int, j \in Int :
        /\ b = Second(unsigned, inst.operands)
        /\ Second(what, inst.operands) = b + j * size
        /\ ~what.signed => Second(what, inst.operands) = b
  <2>1. CASE Len(sources) = 1
    <3>1. Second(unsigned, inst.operands) = 0 /\ Second(what, inst.operands) = 0
      BY <1>2, <1>3, <2>1 DEF Second
    <3>2. 0 = 0 + 0 * size /\ 0 \in Int
      OBVIOUS
    <3> QED BY <3>1, <3>2
  <2>2. CASE Len(sources) # 1
    <3>1. PICK op : op = inst.operands[sources[2]]
      OBVIOUS
    <3>2. Second(unsigned, inst.operands) = ValueOf(unsigned, op)
      BY <1>3, <2>2, <3>1 DEF Second
    <3>3. Second(what, inst.operands) = ValueOf(what, op)
      BY <1>2, <2>2, <3>1 DEF Second
    <3>4. /\ ValueOf(unsigned, op) \in Int
          /\ \E k \in Int : ValueOf(what, op) = ValueOf(unsigned, op) + k * size
          /\ ~what.signed => ValueOf(what, op) = ValueOf(unsigned, op)
      BY <1>5, <1>6, <2>2, <3>1
    <3> QED BY <3>2, <3>3, <3>4
  <2> QED BY <2>1, <2>2
<1>9. Result(unsigned, inst.operands) = Compute(kind, a, b)
  BY <1>3, <1>7, <1>8 DEF Result
<1>10. Result(what, inst.operands) = Compute(kind, a + i * size, b + j * size)
  BY <1>2, <1>7, <1>8 DEF Result
<1>11. /\ Compute(kind, a, b) \in Int
       /\ \E k \in Int : Compute(kind, a + i * size, b + j * size)
                             = Compute(kind, a, b) + k * size
  BY <1>2, ResultsDiffer
<1>12. ~what.signed => Result(what, inst.operands) = Result(unsigned, inst.operands)
  BY <1>2, <1>7, <1>8, <1>9 DEF Result
<1> QED BY <1>4, <1>9, <1>10, <1>11, <1>12

\* set_operand and set_signed_operand: on operands of one length an instruction on
\* signed numbers gives the bits that the one on unsigned numbers gives.
THEOREM ExecutionSameBits == Spec => SameBits
<1> DEFINE Same ==
      Completed /\ Arithmetic[inst.name].kind \in {"move", "add", "sub", "mul"} =>
        LET what == Arithmetic[inst.name]
            ops == inst.operands
            unsigned == [what EXCEPT !.signed = FALSE]
        IN  \A bits \in {Size(ops[1].oplen)}, op \in {ops[1]}, at \in {ip},
               result \in {Result(unsigned, ops)} :
               (\A i \in DOMAIN ops : ops[i].oplen = op.oplen) =>
                   GetOperandValue(op, registers', ram', at) % bits = result % bits
<1>1. ASSUME ExecutionInv, Next PROVE Same
  <2> SUFFICES ASSUME Completed, NEW what, what = Arithmetic[inst.name],
                      what.kind \in {"move", "add", "sub", "mul"},
                      NEW op, op = inst.operands[1], NEW at, at = ip,
                      NEW bits, bits = Size(op.oplen),
                      NEW result, result = Result([what EXCEPT !.signed = FALSE], inst.operands),
                      \A i \in DOMAIN inst.operands : inst.operands[i].oplen = op.oplen
               PROVE  GetOperandValue(op, registers', ram', at) % bits = result % bits
    OBVIOUS
  <2>1. PICK computed : computed = Result(what, inst.operands)
    OBVIOUS
  <2>2. /\ IsOperand(op) /\ Gets(what, inst.operands) /\ computed \in Int
        /\ GetOperandValue(op, registers', ram', at) = Stored(what, inst.operands)
    BY <1>1, <2>1, CompletedValue DEF Computes
  <2>3. PICK length \in {1, 2} : length = op.oplen
    BY <2>2 DEF IsOperand
  <2>4. PICK size \in Nat : size = bits /\ size > 0
    BY <2>3, SizesAreEven
  <2>5. /\ result \in Int
        /\ \E k \in Int : computed = result + k * size
        /\ ~what.signed => computed = result
    <3>1. inst # NoInstruction /\ inst.name \in DOMAIN Arithmetic
      BY DEF Completed
    <3>2. PICK unsigned : unsigned = [what EXCEPT !.signed = FALSE]
      OBVIOUS
    <3>3. \A i \in DOMAIN inst.operands : inst.operands[i].oplen = length
      BY <2>3
    <3>4. size = Size(length)
      BY <2>3, <2>4
    <3> QED BY <1>1, <2>1, <2>2, <3>1, <3>2, <3>3, <3>4, SameUpToSize
  <2>6. computed % size = result % size
    <3>1. PICK k \in Int : computed = result + k * size
      BY <2>5
    <3> QED BY <2>4, <2>5, <3>1, SameRemainder
  <2>7. Stored(what, inst.operands) % size = computed % size
    <3>1. CASE what.signed
      <4>1. Stored(what, inst.operands) = ToNumber(ToBinary(computed, length))
        BY <2>1, <2>3, <3>1 DEF Stored
      <4>2. Stored(what, inst.operands) = computed % size
        BY <2>2, <2>3, <2>4, <4>1, BinaryOfRemainder
      <4>3. (computed % size) % size = computed % size
        BY <2>2, <2>4
      <4> QED BY <4>2, <4>3
    <3>2. CASE ~what.signed
      BY <2>1, <3>2 DEF Stored
    <3> QED BY <3>1, <3>2
  <2> QED BY <2>2, <2>4, <2>6, <2>7
<1>2. ExecutionInv /\ [Next]_vars => [Same]_vars
  BY <1>1
<1>3. SameBits <=> [][Same]_vars
  BY DEF SameBits
<1> HIDE DEF Same
<1> QED BY <1>2, <1>3, ExecutionInvariant, PTL DEF Spec

\* The table of the conditional jumps.
LEMMA JumpEntries ==
    ASSUME NEW name \in DOMAIN Jumps
    PROVE  LET what == Jumps[name]
           IN  /\ what.kind \in {"eq", "ne", "gt", "ge", "lt", "le"}
               /\ what.signed \in BOOLEAN /\ what.sources = <<1, 2>>
<1> DEFINE Right(what) == /\ what.kind \in {"eq", "ne", "gt", "ge", "lt", "le"}
                          /\ what.signed \in BOOLEAN /\ what.sources = <<1, 2>>
<1>1. ASSUME NEW kind \in {"eq", "ne", "gt", "ge", "lt", "le"}, NEW signed \in BOOLEAN
      PROVE  Right(Computing(kind, signed, <<1, 2>>))
  BY DEF Computing
<1> HIDE DEF Right
<1>2. /\ Jumps["JE"] = Computing("eq", FALSE, <<1, 2>>)
      /\ Jumps["JNE"] = Computing("ne", FALSE, <<1, 2>>)
      /\ Jumps["JG"] = Computing("gt", TRUE, <<1, 2>>)
      /\ Jumps["JGE"] = Computing("ge", TRUE, <<1, 2>>)
      /\ Jumps["JL"] = Computing("lt", TRUE, <<1, 2>>)
      /\ Jumps["JLE"] = Computing("le", TRUE, <<1, 2>>)
      /\ Jumps["JA"] = Computing("gt", FALSE, <<1, 2>>)
      /\ Jumps["JAE"] = Computing("ge", FALSE, <<1, 2>>)
      /\ Jumps["JB"] = Computing("lt", FALSE, <<1, 2>>)
      /\ Jumps["JBE"] = Computing("le", FALSE, <<1, 2>>)
  BY DEF Jumps
<1>3. name \in {"JE", "JNE", "JG", "JGE", "JL", "JLE", "JA", "JAE", "JB", "JBE"}
  BY DEF Jumps
<1>4. Right(Jumps[name])
  BY <1>1, <1>2, <1>3
<1> QED BY <1>4 DEF Right

\* Inverting the first bit of two numbers turns their signed order into the unsigned
\* one.
LEMMA FirstBitInverted ==
    ASSUME NEW half \in Nat, NEW size \in Nat, size = 2 * half, half > 0,
           NEW value \in 0 .. size - 1
    PROVE  (value + half) % size
               = half + (IF value < half THEN value ELSE value - size)
<1>1. CASE value < half
  BY <1>1
<1>2. CASE ~(value < half)
  <2>1. value - half \in 0 .. size - 1
    BY <1>2
  <2>2. (1 * size + (value - half)) % size = value - half
    BY <2>1, DivisionUnique
  <2>3. value + half = 1 * size + (value - half)
    OBVIOUS
  <2> QED BY <1>2, <2>2, <2>3
<1> QED BY <1>1, <1>2

\* Adding one number to both does not change their order.
LEMMA OrderKept ==
    ASSUME NEW a \in Int, NEW b \in Int, NEW half \in Int,
           NEW kind \in {"eq", "ne", "gt", "ge", "lt", "le"}
    PROVE  Holds(kind, half + a, half + b) <=> Holds(kind, a, b)
BY DEF Holds

\* The conditional jumps: signed ones are taken by the order of the numbers with the
\* first bit inverted, and all go to their target or to the next instruction.
THEOREM ExecutionJumpsRight == Spec => JumpsRight
<1> DEFINE Right ==
      inst # NoInstruction /\ inst.name \in DOMAIN Jumps /\ status' = "on" =>
        LET what == Jumps[inst.name]
            ops == inst.operands
            size == Size(ops[1].oplen)
            Key(op) == LET value == GetOperandValue(op, registers, ram, ip)
                       IN  IF what.signed THEN (value + size \div 2) % size ELSE value
        IN  ops[1].oplen = ops[2].oplen =>
                ip' = IF Holds(what.kind, Key(ops[1]), Key(ops[2]))
                      THEN GetOperandValue(ops[3], registers, ram, ip)
                      ELSE ip + inst.opcode_length
<1>1. ASSUME ExecutionInv, Next PROVE Right
  <2> SUFFICES ASSUME inst # NoInstruction, inst.name \in DOMAIN Jumps, status' = "on",
                      NEW what, what = Jumps[inst.name], NEW ops, ops = inst.operands,
                      ops[1].oplen = ops[2].oplen, NEW size, size = Size(ops[1].oplen),
                      NEW v1, v1 = GetOperandValue(ops[1], registers, ram, ip),
                      NEW v2, v2 = GetOperandValue(ops[2], registers, ram, ip)
               PROVE  ip' = IF Holds(what.kind,
                                     IF what.signed THEN (v1 + size \div 2) % size ELSE v1,
                                     IF what.signed THEN (v2 + size \div 2) % size ELSE v2)
                            THEN GetOperandValue(ops[3], registers, ram, ip)
                            ELSE ip + inst.opcode_length
    OBVIOUS
  <2>1. PICK s1, s2 : s1 = ValueOf(what, ops[1]) /\ s2 = ValueOf(what, ops[2])
    OBVIOUS
  <2>2. /\ what.kind \in {"eq", "ne", "gt", "ge", "lt", "le"}
        /\ what.signed \in BOOLEAN /\ what.sources = <<1, 2>>
    BY JumpEntries
  <2>3. First(what, ops) = s1 /\ Second(what, ops) = s2
    BY <2>1, <2>2 DEF First, Second
  <2>4. /\ Gets(what, ops)
        /\ ip' = IF Holds(what.kind, s1, s2) THEN GetOperandValue(ops[3], registers, ram, ip)
                 ELSE ip + inst.opcode_length
    <3>1. ~Fetch /\ ~Elsewhere
      BY DEF Fetch, Elsewhere
    <3>2. ~Execute /\ ~Jmp
      BY KindsApart DEF Execute, Jmp
    <3>3. ~Off /\ ~Fail
      BY DEF Off, Fail, vars
    <3>4. Jump
      BY <1>1, <3>1, <3>2, <3>3 DEF Next
    <3> QED BY <2>3, <3>3, <3>4 DEF Jump
  <2>5. \A i \in {1, 2} : ops[i] \in Sources(what, ops) /\ IsOperand(ops[i])
    <3>1. Len(ops) = 3 /\ \A i \in 1 .. Len(ops) : IsOperand(ops[i])
      BY <1>1, OperandsOfInstruction
    <3>2. ElementsOf(what.sources) = {1, 2}
      BY <2>2 DEF ElementsOf
    <3> QED BY <3>1, <3>2 DEF Sources
  <2>6. /\ v1 \in Int /\ v2 \in Int
        /\ what.signed =>
              /\ v1 \in 0 .. size - 1 /\ s1 = IF v1 < size \div 2 THEN v1 ELSE v1 - size
              /\ v2 \in 0 .. size - 1 /\ s2 = IF v2 < size \div 2 THEN v2 ELSE v2 - size
        /\ ~what.signed => s1 = v1 /\ s2 = v2
    BY <1>1, <2>1, <2>4, <2>5, SignedDiffers
  <2>7. CASE ~what.signed
    BY <2>4, <2>6, <2>7
  <2>8. CASE what.signed
    <3>1. PICK half \in Nat, n \in Nat : n = size /\ half = size \div 2 /\ n = 2 * half /\ half > 0
      <4>1. PICK length \in {1, 2} : length = ops[1].oplen
        BY <2>5 DEF IsOperand
      <4> QED BY <4>1, SizesAreEven
    <3>2. s1 \in Int /\ s2 \in Int /\ half \in Int
      BY <2>6, <2>8, <3>1
    <3>3. (v1 + half) % n = half + s1 /\ (v2 + half) % n = half + s2
      BY <2>6, <2>8, <3>1, FirstBitInverted
    <3>4. Holds(what.kind, half + s1, half + s2) <=> Holds(what.kind, s1, s2)
      <4>1. PICK kind \in {"eq", "ne", "gt", "ge", "lt", "le"} : kind = what.kind
        BY <2>2
      <4>2. \A a \in Int, b \in Int, c \in Int :
               Holds(kind, c + a, c + b) <=> Holds(kind, a, b)
        BY <4>1, OrderKept
      <4>3. Holds(kind, half + s1, half + s2) <=> Holds(kind, s1, s2)
        BY <3>2, <4>2, Zenon
      <4> QED BY <4>1, <4>3
    <3> QED BY <2>4, <2>8, <3>1, <3>3, <3>4
  <2> QED BY <2>7, <2>8
<1>2. ExecutionInv /\ [Next]_vars => [Right]_vars
  BY <1>1
<1>3. JumpsRight <=> [][Right]_vars
  BY DEF JumpsRight
<1> HIDE DEF Right
<1> QED BY <1>2, <1>3, ExecutionInvariant, PTL DEF Spec
=============================================================================

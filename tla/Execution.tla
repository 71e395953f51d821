------------------------------ MODULE Execution ------------------------------
(***************************************************************************)
(* instructions/: an instruction with its operands, assembled, decoded and *)
(* executed on the data registers and the RAM.  The program is any         *)
(* program: which instruction is at ip is chosen when it is fetched.       *)
(***************************************************************************)
EXTENDS Memory, Operands

CONSTANTS
    OperandBufferSize,
    BottomOfStack,          \* SP at the start
    InstructionAddress,     \* where the instructions are that are looked at
    Destinations,           \* operands: to be written,
    FirstSources,           \* to be read first,
    SecondSources,          \* to be read second,
    JumpTargets,            \* to be jumped to
    MinCell, MaxCell,       \* BOUND: what the program stores in a byte of the RAM
    NoInstruction

VARIABLES
    registers,      \* AX to DI
    ram,
    ip,
    inst,           \* the instruction at ip once it has been parsed
    status          \* "on", or "error": an exception ended Clock.run

vars == <<registers, ram, ip, inst, status>>

OperandSet == Destinations \cup FirstSources \cup SecondSources \cup JumpTargets

ASSUME ExecutionAssumption ==
    /\ OperandBufferSize \in Nat
    /\ BottomOfStack \in Words /\ InstructionAddress \in Words
    /\ MinCell \in Int /\ MaxCell \in Int
    /\ MinCell <= 0 /\ MaxCell >= ByteSize - 1
    /\ \A op \in OperandSet : IsOperand(op)

Init ==
    /\ registers = [name \in ElementsOf(WordRegisters) |->
                       IF name = "SP" THEN BottomOfStack ELSE 0]
    /\ ram = [pos \in RamAddresses |-> 0]
    /\ ip = InstructionAddress
    /\ inst = NoInstruction
    /\ status = "on"

-----------------------------------------------------------------------------
(* Registers: AL and AH are the two bytes of AX, and so on. *)

LowHalves == [AL |-> "AX", BL |-> "BX", CL |-> "CX", DL |-> "DX"]
HighHalves == [AH |-> "AX", BH |-> "BX", CH |-> "CX", DH |-> "DX"]

GetRegister(regs, name) ==
    IF name \in DOMAIN LowHalves THEN GetLow(regs[LowHalves[name]])
    ELSE IF name \in DOMAIN HighHalves THEN GetHigh(regs[HighHalves[name]])
    ELSE regs[name]

\* Of a value that fits.
SetRegister(regs, name, value) ==
    IF name \in DOMAIN LowHalves
    THEN [regs EXCEPT ![LowHalves[name]] = SetLow(@, value)]
    ELSE IF name \in DOMAIN HighHalves
    THEN [regs EXCEPT ![HighHalves[name]] = SetHigh(@, value)]
    ELSE [regs EXCEPT ![name] = value]

RegisterLength(name) == IF name \in ElementsOf(WordRegisters) THEN 2 ELSE 1

-----------------------------------------------------------------------------
(* The values of operands *)

Referenced(op) == op.optype \notin {"VALUE", "ADDRESS", "REGISTER"}

\* Not reduced to 16 bits: beyond the address space is a segmentation fault.
ReferenceAddress(op, regs, at) ==
    CASE op.optype = "ABS_REF_REG" -> regs[op.opreg] + op.opoffset
      [] op.optype = "REL_REF_WORD" -> at + op.opvalue
      [] op.optype = "REL_REF_WORD_BYTE" -> at + op.opvalue + op.opoffset
      [] op.optype = "REL_REF_WORD_REG" -> at + op.opvalue + regs[op.opreg]

\* get_operand_value, and whether it raises no exception.
CanGet(op, regs, at) ==
    Referenced(op) => Readable(ReferenceAddress(op, regs, at), op.oplen)

GetOperandValue(op, regs, mem, at) ==
    CASE op.optype = "VALUE" -> op.opvalue
      [] op.optype = "ADDRESS" -> at + op.opvalue
      [] op.optype = "REGISTER" -> GetRegister(regs, op.opreg)
      [] OTHER -> Read(mem, ReferenceAddress(op, regs, at), op.oplen)

\* get_signed_operand: a value that is no byte or word raises OutOfRangeError.
CanGetSigned(op, regs, mem, at) ==
    CanGet(op, regs, at) /\ Fits(GetOperandValue(op, regs, mem, at), op.oplen, FALSE)

GetSignedOperand(op, regs, mem, at) ==
    ToSigned(ToBinary(GetOperandValue(op, regs, mem, at), op.oplen))

\* Faulty variant of CanSet: a byte register is given any word.
CanSetUnchecked(op, value, regs, at) ==
    CASE op.optype = "REGISTER" -> Fits(value, 2, FALSE)
      [] Referenced(op) -> Writable(ReferenceAddress(op, regs, at), op.oplen)
      [] OTHER -> FALSE

\* Whether set_operand_value raises no exception. The registers check the value,
\* the RAM does not.
CanSet(op, value, regs, at) ==
    CASE op.optype = "REGISTER" -> Fits(value, RegisterLength(op.opreg), FALSE)
      [] Referenced(op) -> Writable(ReferenceAddress(op, regs, at), op.oplen)
      [] OTHER -> FALSE

\* What set_operand_value makes of the registers and of the RAM.
SetInRegisters(op, value, regs) ==
    IF Referenced(op) THEN regs ELSE SetRegister(regs, op.opreg, value)
SetInRam(op, value, regs, mem, at) ==
    IF Referenced(op)
    THEN Write(mem, ReferenceAddress(op, regs, at), op.oplen, value)
    ELSE mem

-----------------------------------------------------------------------------
(* The instructions: what they compute, on signed numbers or not, and of   *)
(* which operands.  They write the first one.                              *)

Computing(kind, signed, sources) == [kind |-> kind, signed |-> signed, sources |-> sources]

Arithmetic == [
    MOV |-> Computing("move", FALSE, <<2>>),
    ADD |-> Computing("add", FALSE, <<2, 3>>), IADD |-> Computing("add", TRUE, <<2, 3>>),
    SUB |-> Computing("sub", FALSE, <<2, 3>>), ISUB |-> Computing("sub", TRUE, <<2, 3>>),
    MUL |-> Computing("mul", FALSE, <<2, 3>>), IMUL |-> Computing("mul", TRUE, <<2, 3>>),
    DIV |-> Computing("div", FALSE, <<2, 3>>), IDIV |-> Computing("div", TRUE, <<2, 3>>),
    MOD |-> Computing("mod", FALSE, <<2, 3>>), IMOD |-> Computing("mod", TRUE, <<2, 3>>),
    INC |-> Computing("add", FALSE, <<1, 2>>), IINC |-> Computing("add", TRUE, <<1, 2>>),
    DEC |-> Computing("sub", FALSE, <<1, 2>>), IDEC |-> Computing("sub", TRUE, <<1, 2>>),
    NEG |-> Computing("neg", TRUE, <<2>>)]

\* The conditional jumps: the relation of the first operand to the second.
Jumps == [
    JE |-> Computing("eq", FALSE, <<1, 2>>), JNE |-> Computing("ne", FALSE, <<1, 2>>),
    JG |-> Computing("gt", TRUE, <<1, 2>>), JGE |-> Computing("ge", TRUE, <<1, 2>>),
    JL |-> Computing("lt", TRUE, <<1, 2>>), JLE |-> Computing("le", TRUE, <<1, 2>>),
    JA |-> Computing("gt", FALSE, <<1, 2>>), JAE |-> Computing("ge", FALSE, <<1, 2>>),
    JB |-> Computing("lt", FALSE, <<1, 2>>), JBE |-> Computing("le", FALSE, <<1, 2>>)]

\* // and % of Python round towards minus infinity.
FloorDiv(a, b) == IF b > 0 THEN a \div b ELSE (-a) \div (-b)
FloorMod(a, b) == a - b * FloorDiv(a, b)

Compute(kind, a, b) ==
    CASE kind = "move" -> a
      [] kind = "neg" -> -a
      [] kind = "add" -> a + b
      [] kind = "sub" -> a - b
      [] kind = "mul" -> a * b
      [] kind = "div" -> FloorDiv(a, b)
      [] kind = "mod" -> FloorMod(a, b)

Holds(kind, a, b) ==
    CASE kind = "eq" -> a = b
      [] kind = "ne" -> a # b
      [] kind = "gt" -> a > b
      [] kind = "ge" -> a >= b
      [] kind = "lt" -> a < b
      [] kind = "le" -> a <= b

\* The operands that are read, their values, and whether reading them raises
\* no exception.
Sources(what, operands) == {operands[i] : i \in ElementsOf(what.sources)}

Gets(what, operands) == \A op \in Sources(what, operands) :
    IF what.signed THEN CanGetSigned(op, registers, ram, ip)
                   ELSE CanGet(op, registers, ip)

ValueOf(what, op) ==
    IF what.signed THEN GetSignedOperand(op, registers, ram, ip)
                   ELSE GetOperandValue(op, registers, ram, ip)

First(what, operands) == ValueOf(what, operands[what.sources[1]])
Second(what, operands) ==
    IF Len(what.sources) = 1 THEN 0 ELSE ValueOf(what, operands[what.sources[2]])

\* No exception before the result: ZeroDivisionError is one.
Computes(what, operands) ==
    /\ Gets(what, operands)
    /\ what.kind \in {"div", "mod"} => Second(what, operands) # 0

Result(what, operands) ==
    Compute(what.kind, First(what, operands), Second(what, operands))

\* What is given to set_operand_value: set_signed_operand checks the value and
\* makes it unsigned; set_operand gives it as it is.
Stores(what, operands) ==
    /\ Computes(what, operands)
    /\ what.signed => Fits(Result(what, operands), operands[1].oplen, TRUE)

Stored(what, operands) ==
    IF what.signed
    THEN ToNumber(ToBinary(Result(what, operands), operands[1].oplen))
    ELSE Result(what, operands)

Succeeds(what, operands) ==
    /\ Stores(what, operands)
    /\ CanSet(operands[1], Stored(what, operands), registers, ip)

-----------------------------------------------------------------------------
(* One instruction of CPU.step *)

\* The instructions with their operands.
OfThree == {name \in DOMAIN Arithmetic : Arithmetic[name].sources = <<2, 3>>}
OfTwo == DOMAIN Arithmetic \ OfThree

Operations ==
    (OfThree \X (Destinations \X FirstSources \X SecondSources))
    \cup (OfTwo \X (Destinations \X FirstSources))
    \cup ((DOMAIN Jumps) \X (FirstSources \X SecondSources \X JumpTargets))
    \cup ({"JMP"} \X {<<target>> : target \in JumpTargets})

\* BOUND: the program does not store more in a byte of the RAM.
WithinBound(name, operands) ==
    name \in DOMAIN Arithmetic /\ Succeeds(Arithmetic[name], operands) =>
        LET mem == SetInRam(operands[1], Stored(Arithmetic[name], operands), registers, ram, ip)
        IN  \A pos \in RamAddresses : mem[pos] \in MinCell .. MaxCell

\* The opcode behind the instruction's byte, as assembled.
Opcode(operands) ==
    OperandOpcode(operands[1])
        \o (IF Len(operands) > 1 THEN OperandOpcode(operands[2]) ELSE <<>>)
        \o (IF Len(operands) > 2 THEN OperandOpcode(operands[3]) ELSE <<>>)

\* What read_instruction reads: the opcode and what follows in memory.
OperandBuffer(operands) ==
    LET opcode == Opcode(operands)
    IN  [i \in 1 .. OperandBufferSize |-> IF i <= Len(opcode) THEN opcode[i] ELSE 0]

Fail == /\ status' = "error" /\ inst' = NoInstruction
        /\ UNCHANGED <<registers, ram, ip>>

\* read_instruction and parse_instruction
Fetch == \E operation \in Operations :
    /\ status = "on" /\ inst = NoInstruction /\ ip = InstructionAddress
    /\ \A i \in DOMAIN operation[2] : Encodable(operation[2][i])
    /\ WithinBound(operation[1], operation[2])
    /\ LET parsed == ParseOperandBuffer(OperandBuffer(operation[2]), Len(operation[2]))
       IN  \/ /\ ~parsed.ok /\ Fail
           \/ /\ parsed.ok
              /\ inst' = [name |-> operation[1], assembled |-> operation[2],
                          operands |-> parsed.operands, opcode_length |-> parsed.next]
              /\ UNCHANGED <<registers, ram, ip, status>>

\* An arithmetic instruction or MOV
Execute ==
    /\ inst # NoInstruction /\ inst.name \in DOMAIN Arithmetic
    /\ LET what == Arithmetic[inst.name] IN
       \/ /\ ~Succeeds(what, inst.operands) /\ Fail
       \/ /\ Succeeds(what, inst.operands)
          /\ registers' = SetInRegisters(inst.operands[1], Stored(what, inst.operands), registers)
          /\ ram' = SetInRam(inst.operands[1], Stored(what, inst.operands), registers, ram, ip)
          /\ ip' = ip + inst.opcode_length
          /\ inst' = NoInstruction /\ UNCHANGED status

\* A conditional jump; the target is read only if it is taken.
Jump ==
    /\ inst # NoInstruction /\ inst.name \in DOMAIN Jumps
    /\ LET what == Jumps[inst.name]
           target == inst.operands[3]
           taken == Holds(what.kind, First(what, inst.operands), Second(what, inst.operands))
       IN \/ /\ Gets(what, inst.operands) => taken /\ ~CanGet(target, registers, ip)
             /\ Fail
          \/ /\ Gets(what, inst.operands) /\ (taken => CanGet(target, registers, ip))
             /\ ip' = IF taken THEN GetOperandValue(target, registers, ram, ip)
                      ELSE ip + inst.opcode_length
             /\ inst' = NoInstruction /\ UNCHANGED <<registers, ram, status>>

Jmp ==
    /\ inst # NoInstruction /\ inst.name = "JMP"
    /\ \/ /\ ~CanGet(inst.operands[1], registers, ip) /\ Fail
       \/ /\ CanGet(inst.operands[1], registers, ip)
          /\ ip' = GetOperandValue(inst.operands[1], registers, ram, ip)
          /\ inst' = NoInstruction /\ UNCHANGED <<registers, ram, status>>

\* The rest of the program, which comes back; its instructions on the registers
\* and the RAM are as those looked at.
Elsewhere ==
    /\ status = "on" /\ inst = NoInstruction /\ ip # InstructionAddress
    /\ ip' = InstructionAddress
    /\ UNCHANGED <<registers, ram, inst, status>>

\* Clock.run has ended.
Off == status = "error" /\ UNCHANGED vars

Next == Fetch \/ Execute \/ Jump \/ Jmp \/ Elsewhere \/ Off

Spec == Init /\ [][Next]_vars

-----------------------------------------------------------------------------
(* Properties *)

RegistersAreWords == registers \in [ElementsOf(WordRegisters) -> Words]

\* The registers are words whatever is computed and stored: a result that does
\* not fit ends the machine, and a byte register does not reach the other half.
TypeOK ==
    /\ RegistersAreWords
    /\ ram \in [RamAddresses -> MinCell .. MaxCell]
    /\ ip \in Int
    /\ status \in {"on", "error"}
    /\ inst # NoInstruction =>
          /\ inst.name \in DOMAIN Arithmetic \cup DOMAIN Jumps \cup {"JMP"}
          /\ inst.assembled \in Seq(OperandSet)
          /\ inst.opcode_length \in 1 .. OperandBufferSize + 1

\* The CPU finds in an instruction the operands that the assembler was given, and
\* its end where the assembler put the next one.
DecodedAsAssembled ==
    inst # NoInstruction =>
        /\ inst.operands = inst.assembled
        /\ inst.opcode_length = 1 + Len(Opcode(inst.assembled))

\* A step that executed an arithmetic instruction.
Completed == inst # NoInstruction /\ inst.name \in DOMAIN Arithmetic /\ status' = "on"

\* r is what the instruction should compute, division and remainder by what
\* defines them.
Exact(kind, a, b, r) ==
    CASE kind = "move" -> r = a
      [] kind = "neg" -> a + r = 0
      [] kind = "add" -> r - b = a
      [] kind = "sub" -> r + b = a
      [] kind = "mul" -> (b = 0 /\ r = 0) \/ (b # 0 /\ FloorMod(r, b) = 0 /\ FloorDiv(r, b) = a)
      [] kind = "div" -> IF b > 0 THEN r * b <= a /\ a < (r + 1) * b
                         ELSE r * b >= a /\ a > (r + 1) * b
      [] kind = "mod" -> /\ IF b > 0 THEN 0 <= r /\ r < b ELSE b < r /\ r <= 0
                         /\ \E q \in IF a < 0 THEN a .. -a ELSE -a .. a : a = q * b + r

\* The value found in the destination after an instruction, read as signed by a
\* signed one, is the exact result for the values its operands had before, also
\* where they overlap; if there is none, the instruction has not completed.
ResultExact == [][
    Completed =>
        LET what == Arithmetic[inst.name]
        IN  \A a \in {First(what, inst.operands)}, b \in {Second(what, inst.operands)},
               op \in {inst.operands[1]}, at \in {ip} :
               Exact(what.kind, a, b,
                     IF what.signed THEN GetSignedOperand(op, registers', ram', at)
                                    ELSE GetOperandValue(op, registers', ram', at))
    ]_vars

\* The places an operand stands for: bytes of the RAM and halves of registers.
Places(op, regs, at) ==
    IF Referenced(op)
    THEN {<<"ram", ReferenceAddress(op, regs, at) + i>> : i \in 0 .. op.oplen - 1}
    ELSE IF op.opreg \in DOMAIN LowHalves THEN {<<LowHalves[op.opreg], "low">>}
    ELSE IF op.opreg \in DOMAIN HighHalves THEN {<<HighHalves[op.opreg], "high">>}
    ELSE {<<op.opreg, "low">>, <<op.opreg, "high">>}

\* An instruction changes nothing outside its destination: not the other half of
\* a register, not the byte next to a byte.
OnlyDestination == [][
    Completed =>
        \A op \in {inst.operands[1]}, at \in {ip} :
            /\ \A pos \in RamAddresses :
                  ram'[pos] # ram[pos] => <<"ram", pos>> \in Places(op, registers, at)
            /\ \A name \in ElementsOf(WordRegisters) :
                  /\ GetLow(registers'[name]) # GetLow(registers[name])
                        => <<name, "low">> \in Places(op, registers, at)
                  /\ GetHigh(registers'[name]) # GetHigh(registers[name])
                        => <<name, "high">> \in Places(op, registers, at)
    ]_vars

\* On operands of one length, signed and unsigned addition, subtraction and
\* multiplication give the same bits: those of the unsigned result.
SameBits == [][
    Completed /\ Arithmetic[inst.name].kind \in {"move", "add", "sub", "mul"} =>
        LET what == Arithmetic[inst.name]
            ops == inst.operands
            unsigned == [what EXCEPT !.signed = FALSE]
        IN  \A bits \in {Size(ops[1].oplen)}, op \in {ops[1]}, at \in {ip},
               result \in {Result(unsigned, ops)} :
               (\A i \in DOMAIN ops : ops[i].oplen = op.oplen) =>
                   GetOperandValue(op, registers', ram', at) % bits = result % bits
    ]_vars

\* Jumps on signed numbers are taken by the order of the unsigned ones with the
\* first bit inverted, and where one is taken the opposite one is not.
JumpsRight == [][
    inst # NoInstruction /\ inst.name \in DOMAIN Jumps /\ status' = "on" =>
        LET what == Jumps[inst.name]
            ops == inst.operands
            size == Size(ops[1].oplen)
            Key(op) == LET value == GetOperandValue(op, registers, ram, ip)
                       IN  IF what.signed THEN (value + size \div 2) % size ELSE value
        IN  ops[1].oplen = ops[2].oplen =>
                ip' = IF Holds(what.kind, Key(ops[1]), Key(ops[2]))
                      THEN GetOperandValue(ops[3], registers, ram, ip)
                      ELSE ip + inst.opcode_length
    ]_vars
=============================================================================

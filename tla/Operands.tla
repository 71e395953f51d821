------------------------------ MODULE Operands ------------------------------
(***************************************************************************)
(* instructions/operands.py: an operand as the assembler writes it and the *)
(* CPU reads it.  It is an opbyte, with its length, its type and perhaps a *)
(* register, and up to three bytes more.  opvalue stands for opvalue and   *)
(* opbase, which no operand type has both; a field that a type does not    *)
(* have is 0 or "none".                                                    *)
(***************************************************************************)
EXTENDS Binary

WordRegisters == <<"AX", "BX", "CX", "DX", "BP", "SP", "SI", "DI">>
ByteRegisters == <<"AL", "AH", "BL", "BH", "CL", "CH", "DL", "DH">>
RegisterNames == WordRegisters \o ByteRegisters

OpTypes == <<"VALUE", "ADDRESS", "REGISTER", "ABS_REF_REG", "REL_REF_WORD",
             "REL_REF_WORD_BYTE", "REL_REF_WORD_REG", "EXTENDED">>

ElementsOf(list) == {list[i] : i \in DOMAIN list}

\* The position in such a list, from 0.
Code(list, name) == (CHOOSE i \in DOMAIN list : list[i] = name) - 1

WithRegister == {"REGISTER", "ABS_REF_REG", "REL_REF_WORD_REG"}

Operand(oplen, optype, opreg, opvalue, opoffset) ==
    [oplen |-> oplen, optype |-> optype, opreg |-> opreg,
     opvalue |-> opvalue, opoffset |-> opoffset]

\* The operands that the tokenizer makes of a program: addresses are words, and a
\* register of one byte is in no reference.
IsOperand(op) ==
    /\ op \in [oplen : {1, 2}, optype : ElementsOf(OpTypes) \ {"EXTENDED"},
               opreg : ElementsOf(RegisterNames) \union {"none"},
               opvalue : Int, opoffset : Int]
    /\ op.optype = "ADDRESS" => op.oplen = 2
    /\ op.opreg \in IF op.optype \notin WithRegister THEN {"none"}
                    ELSE IF op.optype = "REGISTER" /\ op.oplen = 1
                         THEN ElementsOf(ByteRegisters) ELSE ElementsOf(WordRegisters)
    /\ op.optype \in {"REGISTER", "ABS_REF_REG"} => op.opvalue = 0
    /\ op.optype \notin {"ABS_REF_REG", "REL_REF_WORD_BYTE"} => op.opoffset = 0

\* The numbers behind the opbyte: the field, its bytes and whether it is signed.
Fields(oplen, optype) ==
    CASE optype = "VALUE" -> << <<"opvalue", oplen, FALSE>> >>
      [] optype \in {"ADDRESS", "REL_REF_WORD", "REL_REF_WORD_REG"} ->
             << <<"opvalue", 2, TRUE>> >>
      [] optype = "REL_REF_WORD_BYTE" ->
             << <<"opvalue", 2, TRUE>>, <<"opoffset", 1, FALSE>> >>
      [] optype = "ABS_REF_REG" -> << <<"opoffset", 1, TRUE>> >>
      [] OTHER -> <<>>

\* Faulty variant of OpByte: the length of a register is not encoded.
OpByteNoLength(op) ==
    Code(OpTypes, op.optype) * 16
        + (IF op.optype \in WithRegister THEN Code(RegisterNames, op.opreg) ELSE 0)

\* Bit 7 is the length, bits 6 to 4 the type, bits 3 to 0 the register.
OpByte(op) ==
    (op.oplen - 1) * 128 + Code(OpTypes, op.optype) * 16
        + (IF op.optype \in WithRegister THEN Code(RegisterNames, op.opreg) ELSE 0)

\* Whether get_operand_opcode raises no OutOfRangeError.
Encodable(op) ==
    \A i \in DOMAIN Fields(op.oplen, op.optype) :
        LET f == Fields(op.oplen, op.optype)[i] IN Fits(op[f[1]], f[2], f[3])

OperandOpcode(op) ==
    LET fields == Fields(op.oplen, op.optype)
        Encoded(f) == ToBinary(op[f[1]], f[2])
    IN  <<OpByte(op)>>
            \o (IF Len(fields) > 0 THEN Encoded(fields[1]) ELSE <<>>)
            \o (IF Len(fields) > 1 THEN Encoded(fields[2]) ELSE <<>>)

\* The opbytes that raise no InvalidOperandError or InvalidRegisterCodeError.
ValidOpByte(oplen, optype, code) ==
    /\ optype # "EXTENDED"
    /\ optype = "ADDRESS" => oplen = 2
    /\ optype = "REGISTER" => (oplen = 2 <=> code < Len(WordRegisters))
    /\ optype \in {"ABS_REF_REG", "REL_REF_WORD_REG"} => code < Len(WordRegisters)

\* One turn of the loop in parse_operand_buffer: the operand at idx and where
\* the next one is, or ok = FALSE.
ParseOperand(buffer, idx) ==
    LET opbyte == buffer[idx]
        oplen == (opbyte \div 128) + 1
        optype == OpTypes[(opbyte % 128) \div 16 + 1]
        code == opbyte % 16
        opreg == IF optype \in WithRegister THEN RegisterNames[code + 1] ELSE "none"
        fields == Fields(oplen, optype)
        Start(i) == idx + 1 + (IF i = 1 THEN 0 ELSE fields[1][2])
        Raw(i) == SubSeq(buffer, Start(i), Start(i) + fields[i][2] - 1)
        Decoded(i) == IF fields[i][3] THEN ToSigned(Raw(i)) ELSE ToNumber(Raw(i))
        Field(name) == IF \E i \in DOMAIN fields : fields[i][1] = name
                       THEN Decoded(CHOOSE i \in DOMAIN fields : fields[i][1] = name)
                       ELSE 0
        next == IF fields = <<>> THEN idx + 1
                ELSE Start(Len(fields)) + fields[Len(fields)][2]
    IN  IF idx <= Len(buffer) /\ ValidOpByte(oplen, optype, code) /\ next <= Len(buffer) + 1
        THEN [ok |-> TRUE, next |-> next,
              operand |-> Operand(oplen, optype, opreg, Field("opvalue"), Field("opoffset"))]
        ELSE [ok |-> FALSE]

\* parse_operand_buffer: the operands and the length of the instruction with its
\* own byte, or ok = FALSE.
ParseOperandBuffer(buffer, operand_count) ==
    LET parsed[n \in 0 .. operand_count] ==
            IF n = 0 THEN [ok |-> TRUE, operands |-> <<>>, next |-> 1]
            ELSE IF ~parsed[n - 1].ok THEN [ok |-> FALSE]
            ELSE LET op == ParseOperand(buffer, parsed[n - 1].next)
                 IN  IF op.ok
                     THEN [ok |-> TRUE, next |-> op.next,
                           operands |-> Append(parsed[n - 1].operands, op.operand)]
                     ELSE [ok |-> FALSE]
    IN  parsed[operand_count]
=============================================================================

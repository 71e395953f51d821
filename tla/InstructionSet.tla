--------------------------- MODULE InstructionSet ---------------------------
(***************************************************************************)
(* instructions/instruction_set: the instructions by their opcodes, and    *)
(* how many operands each has.                                             *)
(***************************************************************************)
EXTENDS Integers, Sequences

\* Instructions with consecutive opcodes and as many operands.
From(first, operand_count, names) ==
    {[name |-> names[i], opcode |-> first + i - 1, operand_count |-> operand_count] :
        i \in DOMAIN names}

Instructions ==
    UNION {
        From(1, 0, <<"NOP", "HLT", "SHUTDOWN">>), From(4, 1, <<"PRINT", "PRINTCHAR">>),
        From(6, 5, <<"SETTMR">>),
        From(16, 3, <<"ADD", "SUB", "MUL", "DIV", "MOD">>), From(21, 2, <<"INC", "DEC">>),
        From(32, 3, <<"IADD", "ISUB", "IMUL", "IDIV", "IMOD">>),
        From(37, 2, <<"IINC", "IDEC", "NEG">>),
        From(80, 2, <<"MOV">>), From(82, 1, <<"PUSH", "POP">>), From(84, 0, <<"PUSHF", "POPF">>),
        From(88, 2, <<"IN", "OUT">>),
        From(128, 1, <<"CALL">>), From(129, 0, <<"RET">>), From(130, 2, <<"ENTER">>),
        From(131, 0, <<"LVRET">>), From(132, 1, <<"INT">>), From(133, 0, <<"IRET">>),
        From(134, 2, <<"SETINT">>), From(135, 0, <<"STI", "CLI">>),
        From(144, 1, <<"JMP">>),
        From(145, 3, <<"JE", "JNE", "JG", "JGE", "JL", "JLE", "JA", "JAE", "JB", "JBE">>)}

InstructionNames == {inst.name : inst \in Instructions}
InstructionMapping(name) == CHOOSE inst \in Instructions : inst.name = name
=============================================================================

----------------------------- MODULE MCExecution -----------------------------
(* The operands of the instructions that TLC looks at. *)
EXTENDS Execution

Literal(length, value) == Operand(length, "VALUE", "none", value, 0)
Register(length, name) == Operand(length, "REGISTER", name, 0, 0)

\* The RAM is at 0 and 1, the registry at 2, the status table at 3. The
\* instruction is at 1: -1 is the first byte of the RAM and 0 the second.
FirstWord == Operand(2, "REL_REF_WORD_BYTE", "none", -2, 1)
FirstByte == Operand(1, "REL_REF_WORD", "none", -1, 0)
ByteAtAX == Operand(1, "ABS_REF_REG", "AX", 0, -1)
WordAtAX == Operand(2, "REL_REF_WORD_REG", "AX", -2, 0)

MCDestinations == {Register(1, "AL"), Register(2, "AX"), FirstWord, ByteAtAX, Literal(2, 5)}
MCFirstSources == {Register(1, "AH"), Register(2, "AX"), FirstByte, WordAtAX}
MCSecondSources == {Literal(1, 3), Literal(2, 14)}
MCJumpTargets == {Operand(2, "ADDRESS", "none", -3, 0), WordAtAX}
MCDeviceTables == [pos \in {2, 3} |-> IF pos = 2 THEN 1 ELSE 2]
=============================================================================
